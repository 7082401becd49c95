---------------------------- MODULE RewardFunding ----------------------------
(***************************************************************************)
(* The two programs on one chain.  They share nothing but the reward       *)
(* vaults' token accounts: each has its own configuration, its own         *)
(* authorities and its own idea of the vault and the RA mint.              *)
(***************************************************************************)
EXTENDS StakePool

CONSTANTS BatchSeeds, BatchAmounts, InitialFunds

ASSUME FundingAssumption ==
    IsFiniteSet(BatchSeeds) /\ BatchAmounts \subseteq Nat /\ InitialFunds \in Nat

VARIABLES swapConfig, batch, funds, moved

Swap == INSTANCE SwapNode

swapOnly == <<swapConfig, batch, funds, moved>>
allVars == <<vars, swapOnly>>

FundingInit == Init /\ Swap!SwapInit

PoolStep == Next /\ UNCHANGED swapOnly

SwapStep ==
    /\ Swap!SwapNext
    /\ UNCHANGED <<config, tokenConfig, position, userRa, userInput, deposited,
                   now, paid, withheld>>

FundingNext == PoolStep \/ SwapStep

FundingSpec == FundingInit /\ [][FundingNext]_allVars

-----------------------------------------------------------------------------
(* Properties.                                                             *)

\* Accounts keep their types, so no balance of either program goes below zero.
FundingTypeOK == TypeOK /\ Swap!SwapTypeOK

\* A funding batch pays at most once and within its approval, also while the
\* stake-pool pays claims from the same vault (execute_funding_batch).
BatchPaysOnce == Swap!BatchPaysOnce

\* What was approved is never rewritten, and an executed or cancelled batch is
\* final.
BatchStands ==
    [][\A b \in Swap!BatchIds :
          batch[b].status # "Absent" => Swap!BatchKept(b)]_allVars
=============================================================================
