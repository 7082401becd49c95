---------------------------- MODULE ConvertSession ----------------------------
(***************************************************************************)
(* One conversion of small balances (UsersConvertService): a session of    *)
(* legs, each a few transactions the wallet has signed and the API sends.  *)
(* The execute request goes through the legs in order and credits a leg    *)
(* with what the wallet's RA balance grew while it ran; it may be sent     *)
(* again, or twice at once, and may break off at every call it makes.      *)
(***************************************************************************)
EXTENDS Integers, FiniteSetsExt, Functions

CONSTANTS
    LegCount,       \* legs of the session, in the order of their sequence
    TxCount,        \* transactions of each leg; the last one swaps
    Calls,          \* execute requests, one after another or at once
    MaxOutside      \* times the wallet gets or spends RA elsewhere

Legs == 1 .. LegCount

ASSUME ConvertAssumption ==
    LegCount \in Nat \ {0} /\ TxCount \in [Legs -> Nat \ {0}] /\ MaxOutside \in Nat

VARIABLES
    status,     \* WalletConversionSession.status, "none" before it is prepared
    total,      \* its actualRaOut
    leg,        \* its legs: status, actualRaOut, completed with a warning
    activity,   \* per leg, the states of its CONVERT activities
    expired,    \* expiresAt has passed
    tx,         \* the transactions of each leg, on the chain
    received,   \* RA the wallet ever received,
    spent,      \* and spent
    call,       \* the execute requests
    overlapped, \* history: two of them ran at once
    misread     \* history: a leg began with a balance that could not be read

legVars == <<leg, activity>>
sessionVars == <<status, total, leg, activity>>
chainVars == <<expired, tx, received, spent>>
historyVars == <<overlapped, misread>>
convertVars == <<sessionVars, chainVars, call, historyVars>>

Balance == received - spent
SumLegs == SumFunction([l \in Legs |-> leg[l].out])

Idle == [pc |-> "idle", leg |-> 1, tx |-> 1, submitted |-> {}, pre |-> 0, out |-> 0,
         sent |-> FALSE, total |-> 0, completed |-> FALSE, failed |-> FALSE, warned |-> FALSE]

Over == [Idle EXCEPT !.pc = "over"]

ConvertInit ==
    /\ status = "none" /\ total = 0
    /\ leg = [l \in Legs |-> [status |-> "PREPARED", out |-> 0, warned |-> FALSE]]
    /\ activity = [l \in Legs |-> {}]
    /\ expired = FALSE
    /\ tx = [l \in Legs |-> [k \in 1 .. TxCount[l] |-> "unsent"]]
    /\ received = 0 /\ spent = 0
    /\ call = [c \in Calls |-> Idle]
    /\ overlapped = FALSE /\ misread = FALSE

-----------------------------------------------------------------------------
(* Preparing, and the start of an execute request.                          *)

\* The session and its legs are created in one statement.
Prepare ==
    /\ status = "none"
    /\ status' = "PREPARED"
    /\ UNCHANGED <<total, legVars, chainVars, call, historyVars>>

NeverSettled(s) == FALSE
Settled(s) == s # "PREPARED"
PreparedLegs == {l \in Legs : leg[l].status = "PREPARED"}

\* The session is read once; a request for a settled one is only answered, and
\* one that submits a leg which is not prepared is refused.
Begin(c) ==
    /\ status # "none" /\ ~Settled(status)
    /\ call[c].pc = "idle"
    /\ \/ /\ expired
          /\ call' = [call EXCEPT ![c].pc = "expiring"]
       \/ /\ ~expired
          /\ \E S \in SUBSET PreparedLegs \ {{}} :
                call' = [call EXCEPT ![c].pc = "leg", ![c].submitted = S]
    /\ overlapped' = (overlapped \/ \E d \in Calls : call[d].pc \notin {"idle", "over"})
    /\ UNCHANGED <<sessionVars, chainVars, misread>>

ExpireSession(c) ==
    /\ call[c].pc = "expiring"
    /\ status' = "EXPIRED"
    /\ leg' = [l \in Legs |-> IF leg[l].status = "PREPARED"
                              THEN [leg[l] EXCEPT !.status = "EXPIRED"] ELSE leg[l]]
    /\ call' = [call EXCEPT ![c] = Over]
    /\ UNCHANGED <<total, activity, chainVars, historyVars>>

\* Any call that is not inside a leg's try block, or that the catch block makes,
\* may throw, as does a leg with the wrong number of transactions: the session
\* stays as it is.
CallFails(c) ==
    /\ call[c].pc \in {"expiring", "leg", "caught", "log", "mark"}
    /\ call' = [call EXCEPT ![c] = Over]
    /\ UNCHANGED <<sessionVars, chainVars, historyVars>>

-----------------------------------------------------------------------------
(* One leg.                                                                 *)

Current(c) == call[c].leg
Moves(c, pc) == call' = [call EXCEPT ![c].pc = pc]
Throw(c) == call' = [call EXCEPT ![c] = [@ EXCEPT !.pc = "caught", !.tx = 1, !.out = 0]]

\* A leg that was not submitted, or no longer could be.
SkipLeg(c) ==
    LET l == Current(c) IN
    /\ call[c].pc = "leg" /\ l \in Legs \ call[c].submitted
    /\ leg' = [leg EXCEPT ![l].status = "FAILED"]
    /\ call' = [call EXCEPT ![c].leg = l + 1, ![c].failed = TRUE]
    /\ UNCHANGED <<status, total, activity, chainVars, historyVars>>

\* getTokenAccountUiBalance: a balance that cannot be read counts as none.
Readings == {Balance, 0}

ReadPre(c) ==
    /\ call[c].pc = "leg" /\ Current(c) \in call[c].submitted
    /\ \E before \in Readings :
         /\ call' = [call EXCEPT ![c] = [@ EXCEPT !.pc = "send", !.tx = 1, !.pre = before, !.sent = FALSE]]
         /\ misread' = (misread \/ before # Balance)
    /\ UNCHANGED <<sessionVars, chainVars, overlapped>>

Accepted(l, k) == tx[l][k] \in {"unsent", "pending"}

\* The answer may be lost, and a transaction that is refused changes nothing.
SendTransaction(c) ==
    LET l == Current(c)
        k == call[c].tx IN
    /\ call[c].pc = "send"
    /\ \/ /\ Accepted(l, k)
          /\ tx' = [tx EXCEPT ![l][k] = "pending"]
          /\ \/ call' = [call EXCEPT ![c].pc = "confirm", ![c].sent = TRUE]
             \/ Throw(c)
       \/ tx' = tx /\ Throw(c)
    /\ UNCHANGED <<sessionVars, expired, received, spent, historyVars>>

Confirmed(l, k) == tx[l][k] = "landed"

Confirm(c) ==
    LET l == Current(c)
        k == call[c].tx IN
    /\ call[c].pc = "confirm" /\ Confirmed(l, k)
    /\ call' = [call EXCEPT ![c] = IF k < TxCount[l]
                  THEN [@ EXCEPT !.pc = "send", !.tx = k + 1]
                  ELSE [@ EXCEPT !.pc = "measure", !.tx = 1]]
    /\ UNCHANGED <<sessionVars, chainVars, historyVars>>

SignedGain(after, before) == after - before
WholeBalance(after, before) == after
Gain(after, before) == Max({0, after - before})

Measure(c) ==
    /\ call[c].pc = "measure"
    /\ \E after \in Readings :
         call' = [call EXCEPT ![c].pc = "record", ![c].out = Gain(after, call[c].pre)]
    /\ UNCHANGED <<sessionVars, chainVars, historyVars>>

\* The confirmation reports an error or runs out of time, or the database refuses: the
\* leg goes to its catch block.
LegThrows(c) ==
    /\ call[c].pc \in {"confirm", "record"}
    /\ Throw(c)
    /\ UNCHANGED <<sessionVars, chainVars, historyVars>>

NextLeg(q, out, done, warns) ==
    [q EXCEPT !.pc = "leg", !.leg = @ + 1, !.out = 0, !.sent = FALSE, !.pre = 0, !.tx = 1,
              !.submitted = @ \ {q.leg},
              !.total = @ + out, !.completed = @ \/ done, !.failed = @ \/ ~done,
              !.warned = @ \/ warns]

\* Activity and leg are written in one transaction.
Record(c) ==
    LET l == Current(c)
        out == call[c].out IN
    /\ call[c].pc = "record"
    /\ activity' = [activity EXCEPT ![l] = @ \cup {"COMPLETED"}]
    /\ leg' = [leg EXCEPT ![l] = [status |-> "COMPLETED", out |-> out, warned |-> FALSE]]
    /\ call' = [call EXCEPT ![c] = NextLeg(call[c], out, TRUE, FALSE)]
    /\ UNCHANGED <<status, total, chainVars, historyVars>>

MeasureCaught(c) ==
    /\ call[c].pc = "caught"
    /\ \E after \in Readings : LET out == Gain(after, call[c].pre) IN
       call' = [call EXCEPT ![c] = [@ EXCEPT !.pre = 0, !.out = out, !.sent = FALSE,
                                       !.pc = IF call[c].sent \/ out > 0 THEN "log" ELSE "mark"]]
    /\ UNCHANGED <<sessionVars, chainVars, historyVars>>

Outcome(c) == IF call[c].out > 0 THEN "COMPLETED" ELSE "FAILED"

LogCaught(c) ==
    /\ call[c].pc = "log"
    /\ activity' = [activity EXCEPT ![Current(c)] = @ \cup {Outcome(c)}]
    /\ Moves(c, "mark")
    /\ UNCHANGED <<status, total, leg, chainVars, historyVars>>

MarkCaught(c) ==
    LET out == call[c].out
        done == Outcome(c) = "COMPLETED" IN
    /\ call[c].pc = "mark"
    /\ leg' = [leg EXCEPT ![Current(c)] = [status |-> Outcome(c), out |-> out, warned |-> done]]
    /\ call' = [call EXCEPT ![c] = NextLeg(call[c], out, done, done)]
    /\ UNCHANGED <<status, total, activity, chainVars, historyVars>>

NeverWarned(q) == FALSE
Warned(q) == q.warned

Result(q) ==
    IF q.completed /\ ~q.failed /\ ~Warned(q) THEN "COMPLETED"
    ELSE IF q.completed \/ q.total > 0 THEN "PARTIAL_SUCCESS" ELSE "FAILED"

Finish(c) ==
    /\ call[c].pc = "leg" /\ Current(c) > LegCount
    /\ status' = Result(call[c]) /\ total' = call[c].total
    /\ call' = [call EXCEPT ![c] = Over]
    /\ UNCHANGED <<legVars, chainVars, historyVars>>

-----------------------------------------------------------------------------
(* The chain, the wallet and the clock.                                     *)

\* A transaction needs the earlier ones of its leg.
Land(l, k) ==
    /\ tx[l][k] = "pending" /\ \A j \in 1 .. k - 1 : tx[l][j] = "landed"
    /\ tx' = [tx EXCEPT ![l][k] = "landed"]
    /\ received' = IF k = TxCount[l] THEN received + 1 ELSE received
    /\ UNCHANGED <<sessionVars, expired, spent, call, historyVars>>

\* It reverts, or its blockhash expires before it is sent or lands, and those that need
\* it with it.
FailOnChain(l, k) ==
    /\ tx[l][k] \in {"unsent", "pending"}
    /\ tx' = [tx EXCEPT ![l] = [j \in DOMAIN @ |-> IF j < k THEN @[j] ELSE "failed"]]
    /\ UNCHANGED <<sessionVars, expired, received, spent, call, historyVars>>

Outside == received - Cardinality({l \in Legs : tx[l][TxCount[l]] = "landed"}) + spent

ReceiveElsewhere ==
    /\ Outside < MaxOutside
    /\ received' = received + 1
    /\ UNCHANGED <<sessionVars, expired, tx, spent, call, historyVars>>

SpendElsewhere ==
    /\ Balance > 0 /\ Outside < MaxOutside
    /\ spent' = spent + 1
    /\ UNCHANGED <<sessionVars, expired, tx, received, call, historyVars>>

\* Only a request that is still to come looks at the time.
TimeUp ==
    /\ ~expired /\ expired' = TRUE /\ \E c \in Calls : call[c].pc = "idle"
    /\ UNCHANGED <<sessionVars, tx, received, spent, call, historyVars>>

ExecuteStep(c) ==
    \/ Begin(c) \/ ExpireSession(c) \/ CallFails(c)
    \/ SkipLeg(c) \/ ReadPre(c) \/ SendTransaction(c) \/ Confirm(c) \/ Measure(c)
    \/ LegThrows(c) \/ Record(c) \/ MeasureCaught(c) \/ LogCaught(c) \/ MarkCaught(c)
    \/ Finish(c)

ConvertNext ==
    \/ Prepare \/ ReceiveElsewhere \/ SpendElsewhere \/ TimeUp
    \/ \E c \in Calls : ExecuteStep(c)
    \/ \E l \in Legs : \E k \in 1 .. TxCount[l] : Land(l, k) \/ FailOnChain(l, k)

ConvertSpec == ConvertInit /\ [][ConvertNext]_convertVars

-----------------------------------------------------------------------------
(* Properties.                                                              *)

SessionStatuses == {"none", "PREPARED", "COMPLETED", "PARTIAL_SUCCESS", "FAILED", "EXPIRED"}
LegStatuses == {"PREPARED", "COMPLETED", "FAILED", "EXPIRED"}

\* Every variable keeps its shape; in particular no leg is ever credited with a
\* negative amount, although the wallet may spend RA while it runs.
ConvertTypeOK ==
    /\ status \in SessionStatuses /\ total \in Nat
    /\ leg \in [Legs -> [status: LegStatuses, out: Nat, warned: BOOLEAN]]
    /\ activity \in [Legs -> SUBSET {"COMPLETED", "FAILED"}]
    /\ {expired, overlapped, misread} \subseteq BOOLEAN
    /\ \A l \in Legs : tx[l] \in [1 .. TxCount[l] -> {"unsent", "pending", "landed", "failed"}]
    /\ received \in Nat /\ spent \in Nat
    /\ call \in [Calls ->
          [pc: {"idle", "expiring", "leg", "send", "confirm", "measure", "record", "caught", "log", "mark",
                "over"},
           leg: 1 .. LegCount + 1, tx: Nat \ {0}, submitted: SUBSET Legs, pre: Nat, out: Nat,
           sent: BOOLEAN, total: Nat, completed: BOOLEAN, failed: BOOLEAN, warned: BOOLEAN]]

\* Whatever is received and spent elsewhere, however late a swap lands and however
\* often an execution breaks off and is sent again: no RA is credited to two legs,
\* nor to a leg of a session that received none. Only two executions at once, which
\* measure the same balance, credit it twice, and a leg whose first reading of the
\* balance failed, to which the whole of it is credited.
CreditedOnce == overlapped \/ misread \/ (SumLegs <= received /\ total <= received)

\* What a session says agrees with its legs. A leg that is COMPLETED without a
\* warning swapped on the chain and has its activity, whoever ran it; and unless
\* executions overlapped a COMPLETED session has only such legs, and a FAILED one
\* has no leg that is still shown as completed and no RA.
StatusMatchesLegs ==
    /\ \A l \in Legs : leg[l].status = "COMPLETED" =>
          /\ "COMPLETED" \in activity[l]
          /\ leg[l].warned \/ tx[l][TxCount[l]] = "landed"
    /\ \/ overlapped
       \/ /\ status = "COMPLETED" =>
                \A l \in Legs : leg[l].status = "COMPLETED" /\ ~leg[l].warned
          /\ status = "FAILED" =>
                total = 0 /\ \A l \in Legs : leg[l].status = "FAILED"

\* A session that was settled, by an execution or by its expiry, is never changed
\* again, nor are its legs: only an execution that had read it before can do so.
SettledIsFinal ==
    [][status \notin {"none", "PREPARED"} /\ ~overlapped => UNCHANGED <<status, total, leg>>]_convertVars
=============================================================================
