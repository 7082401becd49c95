----------------------------- MODULE StakeLedger -----------------------------
(***************************************************************************)
(* What staking promises, without accounts, configurations or vaults: a    *)
(* promise of a fixed amount is opened once, and once its unlock time has  *)
(* come it is settled once, in full, part of it given to the owner and     *)
(* part of it kept as fee.  Between the two nothing about it changes.      *)
(***************************************************************************)
EXTENDS Integers

CONSTANTS
    Ids,        \* the promises that can be made
    Amounts,    \* what can be owed on one
    Times       \* when one can be settled

VARIABLES
    phase,      \* "none", "open" or "settled", of each promise
    amount,     \* what is owed on it
    unlock,     \* the time from which it can be settled
    given,      \* what the owner got for it
    kept,       \* what was kept of it
    clock

ledgerVars == <<phase, amount, unlock, given, kept, clock>>

LedgerInit ==
    /\ phase = [i \in Ids |-> "none"]
    /\ amount = [i \in Ids |-> 0]
    /\ unlock = [i \in Ids |-> 0]
    /\ given = [i \in Ids |-> 0]
    /\ kept = [i \in Ids |-> 0]
    /\ clock = 0

Open(i, owed, at) ==
    /\ phase[i] = "none"
    /\ at > clock
    /\ phase' = [phase EXCEPT ![i] = "open"]
    /\ amount' = [amount EXCEPT ![i] = owed]
    /\ unlock' = [unlock EXCEPT ![i] = at]
    /\ UNCHANGED <<given, kept, clock>>

Settle(i, net, fee) ==
    /\ phase[i] = "open"
    /\ clock >= unlock[i]
    /\ net + fee = amount[i]
    /\ phase' = [phase EXCEPT ![i] = "settled"]
    /\ given' = [given EXCEPT ![i] = net]
    /\ kept' = [kept EXCEPT ![i] = fee]
    /\ UNCHANGED <<amount, unlock, clock>>

Pass ==
    /\ clock' > clock
    /\ UNCHANGED <<phase, amount, unlock, given, kept>>

LedgerNext ==
    \/ \E i \in Ids : \/ \E owed \in Amounts, at \in Times : Open(i, owed, at)
                      \/ \E net, fee \in Amounts : Settle(i, net, fee)
    \/ Pass

LedgerSpec == LedgerInit /\ [][LedgerNext]_ledgerVars
=============================================================================
