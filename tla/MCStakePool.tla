----------------------------- MODULE MCStakePool -----------------------------
(* A small instance of StakePool, and its accounts.                        *)
EXTENDS StakePool, FiniteSetsExt, TLC

CONSTANTS v1, v2, ra, rb

\* v1 and v2 belong to the pool and hold different mints, so that half of the
\* configurations an administrator can store name a vault of the other mint.
MCVaultMint == v1 :> ra @@ v2 :> rb

\* Rates rise with the period.
MCAprTables == {[p \in SupportedPeriods |-> IF p = 7 THEN 1 ELSE 2]}

SeedSymmetry == Permutations(Seeds)

\* Whatever administrators did to the token's configuration in the meantime,
\* a matured position can be claimed for its full payout as soon as the
\* configured vault is one the program accepts and holds enough
\* (claim_stake_position looks at no token configuration and at no pause).
MaturedIsClaimable ==
    \A o \in Owners, s \in Seeds :
        LET p == position[o, s]
        IN  (/\ p.status = "Active" /\ now >= p.unlockAt
             /\ VaultAccepted /\ config.raMint \in PayoutMints
             /\ vaultBalance[config.vault] >= p.payout)
            => \E fee \in RaAmounts :
                 ENABLED ClaimStakePosition(o, s,
                     [gross |-> p.payout, net |-> p.payout - fee, fee |-> fee])
=============================================================================
