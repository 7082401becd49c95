------------------------------- MODULE SwapNode -------------------------------
(***************************************************************************)
(* The on-chain program programs/swap-node: administrators approve a       *)
(* funding batch, then execute it (RA moves from their own token account   *)
(* to the stake-pool's reward vault) or cancel it.  Each instruction is    *)
(* one transaction and one action.                                         *)
(***************************************************************************)
EXTENDS Integers

CONSTANTS
    BatchSeeds,         \* batch_seed values
    RaMints,            \* mints a batch can be made of
    PayoutMints,        \* those with RA_MICRO_DECIMALS decimals
    Vaults, VaultMint,  \* token accounts a batch can fund, and their mints
    Signers,            \* keys that can sign
    BatchAmounts,       \* raw amounts callers submit
    InitialFunds        \* RA each signer holds at first, per mint

VARIABLES
    swapConfig,     \* the SwapNodeConfig account
    batch,          \* the FundingBatch account of each <<mint, seed>>
    funds,          \* RA held by each signer, per mint
    vaultBalance,   \* RA held by each vault (shared with the stake-pool)
    moved           \* history: RA moved for each batch

BatchIds == RaMints \X BatchSeeds
BatchStatuses == {"Absent", "Approved", "Executed", "Cancelled"}

SwapConfigRecords ==
    [exists: BOOLEAN, paused: BOOLEAN, operator: Signers, multisig: Signers,
     raMint: RaMints, vault: Vaults]
BatchRecords ==
    [status: BatchStatuses, vault: Vaults, approved: Nat, planned: Nat,
     funded: Nat]

\* The fields of an account that does not exist mean nothing.
NoSwapConfig ==
    [exists |-> FALSE, paused |-> FALSE, operator |-> CHOOSE s \in Signers : TRUE,
     multisig |-> CHOOSE s \in Signers : TRUE,
     raMint |-> CHOOSE m \in RaMints : TRUE, vault |-> CHOOSE v \in Vaults : TRUE]
NoBatch ==
    [status |-> "Absent", vault |-> CHOOSE v \in Vaults : TRUE,
     approved |-> 0, planned |-> 0, funded |-> 0]

SwapInit ==
    /\ swapConfig = NoSwapConfig
    /\ batch = [b \in BatchIds |-> NoBatch]
    /\ funds = [s \in Signers |-> [m \in RaMints |-> InitialFunds]]
    /\ moved = [b \in BatchIds |-> 0]

-----------------------------------------------------------------------------
SwapCanWrite(signer) ==
    swapConfig.exists /\ signer \in {swapConfig.operator, swapConfig.multisig}

InitializeSwapNode(operator, multisig, raMint, vault) ==
    /\ ~swapConfig.exists
    /\ swapConfig' = [exists |-> TRUE, paused |-> FALSE, operator |-> operator,
                      multisig |-> multisig, raMint |-> raMint, vault |-> vault]
    /\ UNCHANGED <<batch, funds, vaultBalance, moved>>

UpdateSwapNodeConfig(signer, raMint, vault) ==
    /\ SwapCanWrite(signer)
    /\ swapConfig' = [swapConfig EXCEPT !.raMint = raMint, !.vault = vault]
    /\ UNCHANGED <<batch, funds, vaultBalance, moved>>

\* The batch account is `init`: a seed is used once per mint.
Fresh(b) == batch[b].status = "Absent"

\* The batch remembers the vault configured when it was approved.
ApproveFundingBatch(signer, mint, seed, approved, planned) ==
    /\ SwapCanWrite(signer)
    /\ Fresh(<<mint, seed>>)
    /\ ~swapConfig.paused
    /\ approved >= planned
    /\ batch' = [batch EXCEPT ![<<mint, seed>>] =
         [status |-> "Approved", vault |-> swapConfig.vault,
          approved |-> approved, planned |-> planned, funded |-> 0]]
    /\ UNCHANGED <<swapConfig, funds, vaultBalance, moved>>

Ready(b) == batch[b].status = "Approved"

\* The vault passed to the instruction must be the batch's and, still, the
\* configured one: a vault replaced after the approval blocks the batch.
ConfiguredVault(b, vault) == vault = swapConfig.vault
VaultStands(b, vault) == vault = batch[b].vault /\ vault = swapConfig.vault

WithinPlan(b, amount) == amount > 0
WithinApproval(b, amount) == amount > 0 /\ amount <= batch[b].approved

Held(signer, mint, amount) == funds[signer][mint] >= amount

ExecuteFundingBatch(signer, mint, seed, vault, amount) ==
    LET b == <<mint, seed>> IN
    /\ SwapCanWrite(signer)
    /\ ~swapConfig.paused
    /\ Ready(b)
    /\ mint = swapConfig.raMint
    /\ VaultStands(b, vault)
    /\ VaultMint[vault] = swapConfig.raMint
    /\ mint \in PayoutMints
    /\ WithinApproval(b, amount)
    /\ Held(signer, mint, amount)                   \* transfer_checked
    /\ funds' = [funds EXCEPT ![signer][mint] = @ - amount]
    /\ vaultBalance' = [vaultBalance EXCEPT ![vault] = @ + amount]
    /\ batch' = [batch EXCEPT ![b] =
         [@ EXCEPT !.status = "Executed", !.funded = amount]]
    /\ moved' = [moved EXCEPT ![b] = @ + amount]
    /\ UNCHANGED swapConfig

\* Cancelling is allowed while the program is paused.
CancelFundingBatch(signer, mint, seed) ==
    /\ SwapCanWrite(signer)
    /\ Ready(<<mint, seed>>)
    /\ batch' = [batch EXCEPT ![<<mint, seed>>] =
         [@ EXCEPT !.status = "Cancelled"]]
    /\ UNCHANGED <<swapConfig, funds, vaultBalance, moved>>

SwapNext ==
    \/ \E op \in Signers, ms \in Signers, m \in RaMints, v \in Vaults :
         InitializeSwapNode(op, ms, m, v)
    \/ \E s \in Signers, m \in RaMints, v \in Vaults :
         UpdateSwapNodeConfig(s, m, v)
    \/ \E s \in Signers, m \in RaMints, seed \in BatchSeeds :
         \/ \E approved \in BatchAmounts, planned \in BatchAmounts :
              ApproveFundingBatch(s, m, seed, approved, planned)
         \/ \E v \in Vaults, amount \in BatchAmounts :
              ExecuteFundingBatch(s, m, seed, v, amount)
         \/ CancelFundingBatch(s, m, seed)

-----------------------------------------------------------------------------
(* Properties.                                                             *)

SwapTypeOK ==
    /\ swapConfig \in SwapConfigRecords
    /\ batch \in [BatchIds -> BatchRecords]
    /\ funds \in [Signers -> [RaMints -> Nat]]
    /\ vaultBalance \in [Vaults -> Nat]
    /\ moved \in [BatchIds -> Nat]

\* A batch moves RA once, when it is executed, and never more than was
\* approved; a batch that is pending or cancelled has moved none.
BatchPaysOnce ==
    \A b \in BatchIds :
        /\ moved[b] = batch[b].funded
        /\ batch[b].status = "Executed" => moved[b] \in 1..batch[b].approved
        /\ batch[b].status # "Executed" => moved[b] = 0

\* Terms of an existing batch are never rewritten, and an executed or cancelled
\* batch stays as it is (a step, over one batch).
BatchKept(b) ==
    /\ batch'[b].vault = batch[b].vault
    /\ batch'[b].approved = batch[b].approved
    /\ batch'[b].planned = batch[b].planned
    /\ batch[b].status # "Approved" => batch'[b] = batch[b]
=============================================================================
