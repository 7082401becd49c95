--------------------------- MODULE MCAdministration ---------------------------
(* What administrators do: the batches that fund the vaults (RewardFunding), *)
(* the accounts of administrators (AdminAccounts), and the tab of one of     *)
(* them with the panels it shows (AdminPanels).  The parts share no         *)
(* variable: every behaviour runs one of them while the others rest in one   *)
(* initial state, so that their states add up instead of multiplying.        *)
(*                                                                           *)
(* Two batches compete for funds that cover one and a half of them.  Two     *)
(* founders and two requests at once are what it takes for each to find the  *)
(* other still there.  Of every page two runs of its loads and handlers      *)
(* overlap, and others make changes meanwhile.                               *)
EXTENDS RewardFunding, AdminAccounts, AdminPanels, TLC

CONSTANTS v1, v2, ra

\* Both vaults hold RA and belong to the pool: an administrator may move from
\* one to the other in either program, at any time.
MCVaultMint == v1 :> ra @@ v2 :> ra
MCAprTables == {[p \in SupportedPeriods |-> 1]}

\* Accounts: disable, and give the custom role.
MCAsks == {[role |-> Unasked, active |-> FALSE], [role |-> "CUSTOM", active |-> Unasked]}

-----------------------------------------------------------------------------
VARIABLE part   \* which of them runs

AdministrationInit ==
    /\ FundingInit /\ AccountsInit /\ AdminSessionInit /\ PanelsInit
    /\ part \in {"funding", "accounts", "tab", "panels"}
    /\ part # "tab" => ~cookie
    /\ part # "panels" => page = "blog"

FundingPart ==
    /\ part = "funding" /\ FundingNext
    /\ UNCHANGED <<part, accountVars, adminSessionVars, panelVars>>
AccountsPart ==
    /\ part = "accounts" /\ AccountsNext
    /\ UNCHANGED <<part, allVars, adminSessionVars, panelVars>>
TabPart ==
    /\ part = "tab" /\ AdminSessionNext
    /\ UNCHANGED <<part, allVars, accountVars, panelVars>>
PanelsPart ==
    /\ part = "panels" /\ PanelsNext
    /\ UNCHANGED <<part, allVars, accountVars, adminSessionVars>>

AdministrationSpec ==
    /\ AdministrationInit
    /\ [][FundingPart \/ AccountsPart \/ TabPart \/ PanelsPart]_<<
            part, allVars, accountVars, adminSessionVars, panelVars>>

\* Every variable of every part keeps its shape.
AdministrationTypeOK ==
    FundingTypeOK /\ AccountsTypeOK /\ AdminSessionTypeOK /\ PanelsTypeOK

\* RA that executed batches brought to a vault, and what of it and of the first balance
\* is no longer there.
BroughtTo(v) ==
    SumFunction([b \in Swap!BatchIds |-> IF batch[b].vault = v THEN batch[b].funded ELSE 0])
Short(v) == InitialVault + BroughtTo(v) - vaultBalance[v]

\* A vault never gets RA that no executed batch names it for, though the
\* configuration may have changed between approval and execution; what is
\* short of that was paid to stakers.
VaultOwesNothing ==
    /\ \A v \in Vaults : Short(v) >= 0
    /\ SumFunction([v \in Vaults |-> Short(v)]) = SumFunction(paid)

\* Signing out of an administrator's tab and removing an administrator both last where
\* nothing was under way meanwhile: the tab stays signed out (use-admin-auth.ts), an
\* active SUPER_ADMIN remains, and an update changes what it names and nothing else
\* (ensureCanDemoteOrDeactivateSuperAdmin and updateAdmin of auth.service.ts).
AdminsStandUnraced ==
    [](SignedOutStays /\ SuperAdminRemainsUnraced) /\ UpdatesWhatWasAsked

\* The values of one part stand for those of another too.
Interchangeable == Permutations(BatchSeeds) \cup Permutations(Edits)
=============================================================================
