----------------------------- MODULE MCStakeFlow -----------------------------
(* The wallet's calls: what each is checked against before and while it runs *)
(* (WalletCalls), and the staking ones with the chain and the mirror behind  *)
(* them (StakeFlow).  The two share no variable: every behaviour runs one of *)
(* them while the other rests in one initial state, so that their states add *)
(* up instead of multiplying.                                                *)
(*                                                                           *)
(* Two tabs and two stakes are what a lost update and a doubled claim need;  *)
(* two blockhashes tell a repeated transaction from a new one.  Of the calls *)
(* two overlap, with one act of an administrator in between.                 *)
EXTENDS StakeFlow, WalletCalls, TLC

VARIABLE part   \* which of the two runs

StakingInit ==
    /\ FlowInit /\ CallsInit
    /\ part \in {"flow", "calls"}
    /\ part = "flow" => user.id = 0 /\ ~isListed

FlowPart == part = "flow" /\ FlowNext /\ UNCHANGED <<part, callsVars>>
CallsPart == part = "calls" /\ CallsNext /\ UNCHANGED <<part, flowVars>>

StakingSpec == StakingInit /\ [][FlowPart \/ CallsPart]_<<part, flowVars, callsVars>>

\* Every variable of both parts keeps its shape; no count is negative.
StakingTypeOK == FlowTypeOK /\ CallsTypeOK

\* One stake counts once: one payment gives one CLAIM activity, and the wallet's counter
\* is the number of its active rows, unless two tabs wrote from what they had read of the
\* same row or count (claimStakePosition of users-staking.service.ts).
EachStakeCountsOnce == SettledOnce /\ CountIsExact

\* The tabs of one part stand for the calls of the other too.
Interchangeable == Permutations(Tabs)
=============================================================================
