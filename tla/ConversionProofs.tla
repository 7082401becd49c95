---------------------------- MODULE ConversionProofs ----------------------------
(***************************************************************************)
(* Why conversions are what MCConversion says, for any number of tokens,   *)
(* legs, transactions, prices and requests.                                *)
(*                                                                         *)
(* Of an execution (ConvertSession): that a settled session is final       *)
(* (RunInv); shapes (TypeInv); what each leg, and each request about its   *)
(* legs, stands for (LegInv), for requests that overlap; and for requests  *)
(* that do not, that the legs up to the current one are settled            *)
(* (ResultInv) and that the credit of all is within what was received      *)
(* (CreditInv).  Of a session's making (ConvertBuild): what the caches     *)
(* hold, and what a request knows after each of its reads (BuildInv).      *)
(***************************************************************************)
EXTENDS MCConversion, Sums

\* The part of the shape that the argument needs: what a request has come to.
CallShape ==
    /\ call = [c \in Calls |-> call[c]]
    /\ \A c \in Calls : "pc" \in DOMAIN call[c]

Running(c) == call[c].pc \notin {"idle", "over"}

\* Unless two requests ever ran at once, at most one runs, and while it does the session
\* is still as it was prepared: only the end of a request settles it.
OneRuns ==
    overlapped \/ \A c \in Calls : Running(c) =>
                      /\ status = "PREPARED"
                      /\ \A d \in Calls : Running(d) => d = c

RunInv == CallShape /\ OneRuns

LEMMA InitRunInv == ConvertInit => RunInv
  BY DEF ConvertInit, RunInv, CallShape, OneRuns, Running, Idle

LEMMA ShapeStep == CallShape /\ [ConvertNext]_convertVars => CallShape'
<1> SUFFICES ASSUME CallShape, [ConvertNext]_convertVars PROVE CallShape'
  OBVIOUS
<1> USE DEF CallShape, sessionVars, legVars, chainVars, historyVars
<1>1. CASE UNCHANGED convertVars
  BY <1>1 DEF convertVars
<1>2. ASSUME NEW c \in Calls, Begin(c) PROVE CallShape'
  BY <1>2 DEF Begin
<1>3. ASSUME NEW c \in Calls, ExpireSession(c) PROVE CallShape'
  BY <1>3 DEF ExpireSession, Over, Idle
<1>4. ASSUME NEW c \in Calls, CallFails(c) PROVE CallShape'
  BY <1>4 DEF CallFails, Over, Idle
<1>5. ASSUME NEW c \in Calls, SkipLeg(c) PROVE CallShape'
  BY <1>5 DEF SkipLeg, Current
<1>6. ASSUME NEW c \in Calls, ReadPre(c) PROVE CallShape'
  BY <1>6 DEF ReadPre, Readings, Balance, Current
<1>7. ASSUME NEW c \in Calls, SendTransaction(c) PROVE CallShape'
  BY <1>7 DEF SendTransaction, Throw, Accepted, Current
<1>8. ASSUME NEW c \in Calls, Confirm(c) PROVE CallShape'
  BY <1>8 DEF Confirm, Confirmed, Current
<1>9. ASSUME NEW c \in Calls, Measure(c) PROVE CallShape'
  BY <1>9 DEF Measure, Readings, Balance
<1>10. ASSUME NEW c \in Calls, LegThrows(c) PROVE CallShape'
  BY <1>10 DEF LegThrows, Throw
<1>11. ASSUME NEW c \in Calls, Record(c) PROVE CallShape'
  BY <1>11 DEF Record, NextLeg, Current
<1>12. ASSUME NEW c \in Calls, MeasureCaught(c) PROVE CallShape'
  BY <1>12 DEF MeasureCaught, Readings, Balance
<1>13. ASSUME NEW c \in Calls, LogCaught(c) PROVE CallShape'
  BY <1>13 DEF LogCaught, Moves, Current, Outcome
<1>14. ASSUME NEW c \in Calls, MarkCaught(c) PROVE CallShape'
  BY <1>14 DEF MarkCaught, NextLeg, Current, Outcome
<1>15. ASSUME NEW c \in Calls, Finish(c) PROVE CallShape'
  BY <1>15 DEF Finish, Over, Idle, Current
<1>16. CASE Prepare \/ ReceiveElsewhere \/ SpendElsewhere \/ TimeUp
  BY <1>16 DEF Prepare, ReceiveElsewhere, SpendElsewhere, TimeUp
<1>17. ASSUME NEW l \in Legs, NEW k \in 1 .. TxCount[l], Land(l, k) \/ FailOnChain(l, k)
      PROVE  CallShape'
  BY <1>17 DEF Land, FailOnChain
<1> QED
  BY <1>1, <1>2, <1>3, <1>4, <1>5, <1>6, <1>7, <1>8, <1>9, <1>10, <1>11, <1>12,
     <1>13, <1>14, <1>15, <1>16, <1>17
  DEF ConvertNext, ExecuteStep

LEMMA OneRunsStep == RunInv /\ [ConvertNext]_convertVars => OneRuns'
<1> SUFFICES ASSUME RunInv, [ConvertNext]_convertVars PROVE OneRuns'
  OBVIOUS
<1> USE DEF RunInv, OneRuns, Running, CallShape, sessionVars, legVars, chainVars, historyVars
<1>1. CASE UNCHANGED convertVars
  BY <1>1 DEF convertVars
<1>2. ASSUME NEW c \in Calls, Begin(c) PROVE OneRuns'
  <2>1. status = "PREPARED" /\ status' = status
    BY <1>2 DEF Begin, Settled
  <2>2. \A d \in Calls \ {c} : call'[d] = call[d]
    BY <1>2 DEF Begin
  <2>3. overlapped' = (overlapped \/ \E d \in Calls : Running(d))
    BY <1>2 DEF Begin
  <2> QED
    BY <2>1, <2>2, <2>3
<1>3. ASSUME NEW c \in Calls, ExpireSession(c) PROVE OneRuns'
  BY <1>3 DEF ExpireSession, Over, Idle
<1>4. ASSUME NEW c \in Calls, CallFails(c) PROVE OneRuns'
  BY <1>4 DEF CallFails, Over, Idle
<1>5. ASSUME NEW c \in Calls, SkipLeg(c) PROVE OneRuns'
  BY <1>5 DEF SkipLeg, Current
<1>6. ASSUME NEW c \in Calls, ReadPre(c) PROVE OneRuns'
  BY <1>6 DEF ReadPre, Readings, Balance, Current
<1>7. ASSUME NEW c \in Calls, SendTransaction(c) PROVE OneRuns'
  BY <1>7 DEF SendTransaction, Throw, Accepted, Current
<1>8. ASSUME NEW c \in Calls, Confirm(c) PROVE OneRuns'
  BY <1>8 DEF Confirm, Confirmed, Current
<1>9. ASSUME NEW c \in Calls, Measure(c) PROVE OneRuns'
  BY <1>9 DEF Measure, Readings, Balance
<1>10. ASSUME NEW c \in Calls, LegThrows(c) PROVE OneRuns'
  BY <1>10 DEF LegThrows, Throw
<1>11. ASSUME NEW c \in Calls, Record(c) PROVE OneRuns'
  BY <1>11 DEF Record, NextLeg, Current
<1>12. ASSUME NEW c \in Calls, MeasureCaught(c) PROVE OneRuns'
  BY <1>12 DEF MeasureCaught, Readings, Balance
<1>13. ASSUME NEW c \in Calls, LogCaught(c) PROVE OneRuns'
  BY <1>13 DEF LogCaught, Moves, Current, Outcome
<1>14. ASSUME NEW c \in Calls, MarkCaught(c) PROVE OneRuns'
  BY <1>14 DEF MarkCaught, NextLeg, Current, Outcome
<1>15. ASSUME NEW c \in Calls, Finish(c) PROVE OneRuns'
  BY <1>15 DEF Finish, Over, Idle, Current
<1>16. CASE Prepare \/ ReceiveElsewhere \/ SpendElsewhere \/ TimeUp
  BY <1>16 DEF Prepare, ReceiveElsewhere, SpendElsewhere, TimeUp
<1>17. ASSUME NEW l \in Legs, NEW k \in 1 .. TxCount[l], Land(l, k) \/ FailOnChain(l, k)
      PROVE  OneRuns'
  BY <1>17 DEF Land, FailOnChain
<1> QED
  BY <1>1, <1>2, <1>3, <1>4, <1>5, <1>6, <1>7, <1>8, <1>9, <1>10, <1>11, <1>12,
     <1>13, <1>14, <1>15, <1>16, <1>17
  DEF ConvertNext, ExecuteStep

LEMMA RunInvariant == ConvertSpec => []RunInv
<1>1. ConvertInit => RunInv
  BY InitRunInv
<1>2. RunInv /\ [ConvertNext]_convertVars => RunInv'
  BY ShapeStep, OneRunsStep DEF RunInv
<1> QED
  BY <1>1, <1>2, PTL DEF ConvertSpec

\* Every step of a request but its first is one of a running request.
LEMMA RestingRequests ==
  ASSUME NEW c \in Calls, ~Running(c), ExecuteStep(c)
  PROVE  Begin(c)
<1> USE DEF Running
<1>1. ~ExpireSession(c) /\ ~CallFails(c) /\ ~SkipLeg(c) /\ ~ReadPre(c) /\ ~SendTransaction(c)
  BY DEF ExpireSession, CallFails, SkipLeg, ReadPre, SendTransaction
<1>2. ~Confirm(c) /\ ~Measure(c) /\ ~LegThrows(c) /\ ~Record(c) /\ ~MeasureCaught(c)
  BY DEF Confirm, Measure, LegThrows, Record, MeasureCaught
<1>3. ~LogCaught(c) /\ ~MarkCaught(c) /\ ~Finish(c)
  BY DEF LogCaught, MarkCaught, Finish
<1> QED
  BY <1>1, <1>2, <1>3 DEF ExecuteStep

LEMMA FinalStep ==
  ASSUME RunInv, [ConvertNext]_convertVars, status \notin {"none", "PREPARED"}, ~overlapped
  PROVE  UNCHANGED <<status, total, leg>>
<1> USE DEF sessionVars, legVars
<1>1. \A c \in Calls : ~Running(c)
  BY DEF RunInv, OneRuns
<1>2. ASSUME NEW c \in Calls, ExecuteStep(c) PROVE UNCHANGED <<status, total, leg>>
  BY <1>1, <1>2, RestingRequests DEF Begin
<1>3. CASE UNCHANGED convertVars \/ Prepare \/ ReceiveElsewhere \/ SpendElsewhere \/ TimeUp
  BY <1>3 DEF convertVars, Prepare, ReceiveElsewhere, SpendElsewhere, TimeUp
<1>4. ASSUME NEW l \in Legs, NEW k \in 1 .. TxCount[l], Land(l, k) \/ FailOnChain(l, k)
      PROVE  UNCHANGED <<status, total, leg>>
  BY <1>4 DEF Land, FailOnChain
<1> QED
  BY <1>2, <1>3, <1>4 DEF ConvertNext

\* Once an execution or its expiry has settled a session, no later, repeated or late request
\* changes the session, its credited amount or one of its legs; only a request that had read
\* it before, and so overlapped, can (executeConversion).
THEOREM SettledStays == ConvertSpec => SettledIsFinal
<1>1. RunInv /\ [ConvertNext]_convertVars =>
        [status \notin {"none", "PREPARED"} /\ ~overlapped
            => UNCHANGED <<status, total, leg>>]_convertVars
  BY FinalStep
<1> QED
  BY <1>1, RunInvariant, PTL DEF ConvertSpec, SettledIsFinal

-----------------------------------------------------------------------------
(* Shapes, legs, status and credit.                                        *)

Places == 1 .. LegCount + 1
Positive == Nat \ {0}
CallRecords ==
    [pc: {"idle", "expiring", "leg", "send", "confirm", "measure", "record", "caught", "log", "mark",
          "over"},
     leg: Places, tx: Positive, submitted: SUBSET Legs, pre: Nat, out: Nat,
     sent: BOOLEAN, total: Nat, completed: BOOLEAN, failed: BOOLEAN, warned: BOOLEAN]
LegRecords == [status: LegStatuses, out: Nat, warned: BOOLEAN]
TxStates == {"unsent", "pending", "landed", "failed"}
InLeg == {"send", "confirm", "measure", "record", "caught", "log", "mark"}

\* The wallet never spends what it has not received; a request inside a leg is in one of
\* the session's.
Sound ==
    /\ tx = [l \in Legs |-> tx[l]] /\ spent <= received
    /\ \A c \in Calls : call[c].pc \in InLeg =>
          /\ call[c].leg \in Legs
          /\ call[c].pc \in {"send", "confirm"} => call[c].tx \in 1 .. TxCount[call[c].leg]

TypeInv == ConvertTypeOK /\ Sound

\* A request at rest has the shape of one.
LEMMA IdleIsTyped == Idle \in CallRecords /\ Over \in CallRecords
<1>1. 1 \in Places /\ 1 \in Positive
  BY ConvertAssumption DEF Places, Positive
<1>2. Idle \in CallRecords
  BY <1>1 DEF Idle, CallRecords
<1> QED
  BY <1>2 DEF Over, CallRecords

\* The place of the next leg, or the one past the last.
LEMMA NextPlace ==
  /\ \A l \in Legs : l \in Places /\ l + 1 \in Places
  /\ 1 \in Positive /\ \A k \in Positive : k + 1 \in Positive
  BY ConvertAssumption DEF Legs, Places, Positive

\* What is measured is an amount, whatever the other balances do.
LEMMA GainIsNat ==
  ASSUME NEW a \in Nat, NEW b \in Nat
  PROVE  Gain(a, b) = (IF a >= b THEN a - b ELSE 0) /\ Gain(a, b) \in Nat
<1>1. CASE a >= b
  <2>1. \A x \in {0, a - b} : (\A y \in {0, a - b} : x >= y) <=> x = a - b
    BY <1>1
  <2>2. (CHOOSE x \in {0, a - b} : \A y \in {0, a - b} : x >= y) = a - b
    BY <2>1
  <2> QED
    BY <1>1, <2>2 DEF Gain, Max
<1>2. CASE ~(a >= b)
  <2>1. \A x \in {0, a - b} : (\A y \in {0, a - b} : x >= y) <=> x = 0
    BY <1>2
  <2>2. (CHOOSE x \in {0, a - b} : \A y \in {0, a - b} : x >= y) = 0
    BY <2>1
  <2> QED
    BY <1>2, <2>2 DEF Gain, Max
<1> QED
  BY <1>1, <1>2

LEMMA InitTypeInv == ConvertInit => TypeInv
<1> SUFFICES ASSUME ConvertInit PROVE TypeInv
  OBVIOUS
<1> USE ConvertAssumption DEF ConvertInit
<1>1. call \in [Calls -> CallRecords]
  BY IdleIsTyped
<1>2. leg \in [Legs -> LegRecords]
  BY DEF LegRecords, LegStatuses
<1>3. \A l \in Legs : tx[l] \in [1 .. TxCount[l] -> TxStates]
  BY DEF TxStates
<1>4. Sound
  BY DEF Sound, Idle, InLeg
<1> QED
  BY <1>1, <1>2, <1>3, <1>4 DEF TypeInv, ConvertTypeOK, SessionStatuses, CallRecords, LegRecords, TxStates, Places, Positive

\* A request keeps its shape.
LEMMA CallsTyped ==
  ASSUME TypeInv, [ConvertNext]_convertVars
  PROVE  call' \in [Calls -> CallRecords]
<1> USE DEF chainVars, historyVars, legVars, sessionVars
<1>a. call \in [Calls -> CallRecords] /\ \A c \in Calls : call[c] \in CallRecords
  BY DEF TypeInv, ConvertTypeOK, CallRecords, Places, Positive
<1>b. \A b \in Readings : b \in Nat
  BY DEF TypeInv, ConvertTypeOK, Sound, Readings, Balance
<1>t. ASSUME NEW c \in Calls, Throw(c) PROVE call' \in [Calls -> CallRecords]
  <2>1. [call[c] EXCEPT !.pc = "caught", !.tx = 1, !.out = 0] \in CallRecords
    BY <1>a, NextPlace DEF CallRecords
  <2> QED
    BY <1>a, <1>t, <2>1 DEF Throw
<1>n. ASSUME NEW c \in Calls, call[c].pc \in InLeg, NEW done \in BOOLEAN, NEW warns \in BOOLEAN
      PROVE  NextLeg(call[c], call[c].out, done, warns) \in CallRecords
  <2>1. call[c].leg \in Legs
    BY <1>n DEF TypeInv, Sound
  <2>2. PICK q : q = call[c]
    OBVIOUS
  <2>3. q \in CallRecords /\ q.leg + 1 \in Places /\ 1 \in Positive
    BY <1>a, <2>1, <2>2, NextPlace
  <2>4. /\ q.total + q.out \in Nat /\ q.submitted \ {q.leg} \in SUBSET Legs
        /\ (q.completed \/ done) \in BOOLEAN /\ (q.failed \/ ~done) \in BOOLEAN
        /\ (q.warned \/ warns) \in BOOLEAN
    BY <2>3 DEF CallRecords
  <2>5. NextLeg(q, q.out, done, warns) \in CallRecords
    BY <2>3, <2>4 DEF NextLeg, CallRecords
  <2> QED
    BY <2>2, <2>5
<1> USE <1>a
<1>1. CASE UNCHANGED convertVars
  BY <1>1 DEF convertVars
<1>2. ASSUME NEW c \in Calls, Begin(c) PROVE call' \in [Calls -> CallRecords]
  <2>1. [call[c] EXCEPT !.pc = "expiring"] \in CallRecords
    BY <1>a DEF CallRecords
  <2>2. \A S \in SUBSET Legs : [call[c] EXCEPT !.pc = "leg", !.submitted = S] \in CallRecords
    BY <1>a DEF CallRecords
  <2>3. \/ call' = [call EXCEPT ![c] = [call[c] EXCEPT !.pc = "expiring"]]
        \/ \E S \in SUBSET Legs :
              call' = [call EXCEPT ![c] = [call[c] EXCEPT !.pc = "leg", !.submitted = S]]
    BY <1>2 DEF Begin, PreparedLegs
  <2> QED
    BY <2>1, <2>2, <2>3
<1>3. ASSUME NEW c \in Calls, ExpireSession(c) PROVE call' \in [Calls -> CallRecords]
  BY <1>3, IdleIsTyped DEF ExpireSession
<1>4. ASSUME NEW c \in Calls, CallFails(c) PROVE call' \in [Calls -> CallRecords]
  BY <1>4, IdleIsTyped DEF CallFails
<1>5. ASSUME NEW c \in Calls, SkipLeg(c) PROVE call' \in [Calls -> CallRecords]
  <2>1. [call[c] EXCEPT !.leg = call[c].leg + 1, !.failed = TRUE] \in CallRecords
    <3>1. call[c].leg + 1 \in Places
      BY <1>5, NextPlace DEF SkipLeg, Current
    <3> QED
      BY <1>a, <3>1 DEF CallRecords
  <2> QED
    BY <1>5, <2>1 DEF SkipLeg, Current
<1>6. ASSUME NEW c \in Calls, ReadPre(c) PROVE call' \in [Calls -> CallRecords]
  <2>1. PICK before \in Readings : call' = [call EXCEPT ![c] =
           [call[c] EXCEPT !.pc = "send", !.tx = 1, !.pre = before, !.sent = FALSE]]
    BY <1>6 DEF ReadPre
  <2>2. [call[c] EXCEPT !.pc = "send", !.tx = 1, !.pre = before, !.sent = FALSE] \in CallRecords
    BY <1>a, <1>b, NextPlace DEF CallRecords
  <2> QED
    BY <2>1, <2>2
<1>7. ASSUME NEW c \in Calls, SendTransaction(c) PROVE call' \in [Calls -> CallRecords]
  <2>1. [call[c] EXCEPT !.pc = "confirm", !.sent = TRUE] \in CallRecords
    BY <1>a DEF CallRecords
  <2>2. \/ call' = [call EXCEPT ![c] = [call[c] EXCEPT !.pc = "confirm", !.sent = TRUE]]
        \/ Throw(c)
    BY <1>7 DEF SendTransaction
  <2> QED
    BY <1>t, <2>1, <2>2
<1>8. ASSUME NEW c \in Calls, Confirm(c) PROVE call' \in [Calls -> CallRecords]
  <2>1. [call[c] EXCEPT !.pc = "send", !.tx = call[c].tx + 1] \in CallRecords
    <3>1. call[c].tx + 1 \in Positive
      BY NextPlace DEF CallRecords
    <3> QED
      BY <1>a, <3>1 DEF CallRecords
  <2>2. [call[c] EXCEPT !.pc = "measure", !.tx = 1] \in CallRecords
    BY <1>a, NextPlace DEF CallRecords
  <2>3. \/ call' = [call EXCEPT ![c] = [call[c] EXCEPT !.pc = "send", !.tx = call[c].tx + 1]]
        \/ call' = [call EXCEPT ![c] = [call[c] EXCEPT !.pc = "measure", !.tx = 1]]
    BY <1>8 DEF Confirm
  <2> QED
    BY <2>1, <2>2, <2>3
<1>9. ASSUME NEW c \in Calls, Measure(c) PROVE call' \in [Calls -> CallRecords]
  <2>1. PICK after \in Readings : call' = [call EXCEPT ![c] =
           [call[c] EXCEPT !.pc = "record", !.out = Gain(after, call[c].pre)]]
    BY <1>9 DEF Measure
  <2>2. Gain(after, call[c].pre) \in Nat
    BY <1>a, <1>b, GainIsNat DEF CallRecords
  <2>3. [call[c] EXCEPT !.pc = "record", !.out = Gain(after, call[c].pre)] \in CallRecords
    BY <1>a, <2>2 DEF CallRecords
  <2> QED
    BY <2>1, <2>3
<1>10. ASSUME NEW c \in Calls, LegThrows(c) PROVE call' \in [Calls -> CallRecords]
  BY <1>10, <1>t DEF LegThrows
<1>11. ASSUME NEW c \in Calls, Record(c) PROVE call' \in [Calls -> CallRecords]
  <2>1. /\ call' = [call EXCEPT ![c] = NextLeg(call[c], call[c].out, TRUE, FALSE)]
        /\ call[c].pc = "record"
    BY <1>11 DEF Record
  <2>2. NextLeg(call[c], call[c].out, TRUE, FALSE) \in CallRecords
    BY <2>1, <1>n DEF InLeg
  <2> QED
    BY <2>1, <2>2
<1>12. ASSUME NEW c \in Calls, MeasureCaught(c) PROVE call' \in [Calls -> CallRecords]
  <2>1. PICK after \in Readings : call' = [call EXCEPT ![c] =
           [call[c] EXCEPT !.pre = 0, !.out = Gain(after, call[c].pre), !.sent = FALSE,
              !.pc = IF call[c].sent \/ Gain(after, call[c].pre) > 0 THEN "log" ELSE "mark"]]
    BY <1>12 DEF MeasureCaught
  <2>2. Gain(after, call[c].pre) \in Nat
    BY <1>a, <1>b, GainIsNat DEF CallRecords
  <2>3. [call[c] EXCEPT !.pre = 0, !.out = Gain(after, call[c].pre), !.sent = FALSE,
           !.pc = IF call[c].sent \/ Gain(after, call[c].pre) > 0 THEN "log" ELSE "mark"] \in CallRecords
    BY <1>a, <2>2 DEF CallRecords
  <2> QED
    BY <2>1, <2>3
<1>13. ASSUME NEW c \in Calls, LogCaught(c) PROVE call' \in [Calls -> CallRecords]
  <2>1. [call[c] EXCEPT !.pc = "mark"] \in CallRecords
    BY <1>a DEF CallRecords
  <2> QED
    BY <1>13, <2>1 DEF LogCaught, Moves
<1>14. ASSUME NEW c \in Calls, MarkCaught(c) PROVE call' \in [Calls -> CallRecords]
  <2>1. PICK done \in BOOLEAN : /\ call' = [call EXCEPT ![c] = NextLeg(call[c], call[c].out, done, done)]
                                /\ call[c].pc = "mark"
    BY <1>14 DEF MarkCaught
  <2>2. NextLeg(call[c], call[c].out, done, done) \in CallRecords
    BY <2>1, <1>n DEF InLeg
  <2> QED
    BY <2>1, <2>2
<1>15. ASSUME NEW c \in Calls, Finish(c) PROVE call' \in [Calls -> CallRecords]
  BY <1>15, IdleIsTyped DEF Finish
<1>16. CASE Prepare
  BY <1>16 DEF Prepare
<1>17. CASE ReceiveElsewhere
  BY <1>17 DEF ReceiveElsewhere
<1>18. CASE SpendElsewhere
  BY <1>18 DEF SpendElsewhere
<1>19. CASE TimeUp
  BY <1>19 DEF TimeUp
<1>20. ASSUME NEW l \in Legs, NEW k \in 1 .. TxCount[l], Land(l, k) PROVE call' \in [Calls -> CallRecords]
  BY <1>20 DEF Land
<1>21. ASSUME NEW l \in Legs, NEW k \in 1 .. TxCount[l], FailOnChain(l, k) PROVE call' \in [Calls -> CallRecords]
  BY <1>21 DEF FailOnChain
<1> QED
  BY <1>1, <1>2, <1>3, <1>4, <1>5, <1>6, <1>7, <1>8, <1>9, <1>10, <1>11, <1>12,
     <1>13, <1>14, <1>15, <1>16, <1>17, <1>18, <1>19, <1>20, <1>21
  DEF ConvertNext, ExecuteStep

TxTyped ==
    /\ tx = [l \in Legs |-> tx[l]]
    /\ \A l \in Legs : tx[l] \in [1 .. TxCount[l] -> TxStates]
SessionShape ==
    /\ status \in SessionStatuses /\ total \in Nat
    /\ leg \in [Legs -> LegRecords]
    /\ activity \in [Legs -> SUBSET {"COMPLETED", "FAILED"}]
    /\ {expired, overlapped, misread} \subseteq BOOLEAN
    /\ TxTyped /\ received \in Nat /\ spent \in Nat /\ spent <= received

\* So do the session and what is around it.
LEMMA SessionTyped ==
  ASSUME TypeInv, [ConvertNext]_convertVars
  PROVE  SessionShape'
<1> USE DEF SessionShape, TxTyped, sessionVars, legVars, chainVars, historyVars
<1>a. SessionShape
  BY DEF TypeInv, Sound, ConvertTypeOK, LegRecords, TxStates
<1> USE <1>a
<1>1. CASE UNCHANGED convertVars
  BY <1>1 DEF convertVars
<1>2. ASSUME NEW c \in Calls, Begin(c) PROVE SessionShape'
  BY <1>2 DEF Begin
<1>3. ASSUME NEW c \in Calls, ExpireSession(c) PROVE SessionShape'
  <2>1. leg' = [l \in Legs |-> IF leg[l].status = "PREPARED" THEN [leg[l] EXCEPT !.status = "EXPIRED"] ELSE leg[l]]
    BY <1>3 DEF ExpireSession
  <2>2. \A l \in Legs : leg[l] \in LegRecords /\ [leg[l] EXCEPT !.status = "EXPIRED"] \in LegRecords
    BY DEF LegRecords, LegStatuses
  <2> QED
    BY <1>3, <2>1, <2>2 DEF ExpireSession, SessionStatuses
<1>4. ASSUME NEW c \in Calls, CallFails(c) PROVE SessionShape'
  BY <1>4 DEF CallFails
<1>5. ASSUME NEW c \in Calls, SkipLeg(c) PROVE SessionShape'
  <2>1. Current(c) \in Legs
    BY <1>5 DEF SkipLeg
  <2>2. [leg[Current(c)] EXCEPT !.status = "FAILED"] \in LegRecords
    BY <2>1 DEF LegRecords, LegStatuses
  <2> QED
    BY <1>5, <2>1, <2>2 DEF SkipLeg
<1>6. ASSUME NEW c \in Calls, ReadPre(c) PROVE SessionShape'
  BY <1>6 DEF ReadPre
<1>7. ASSUME NEW c \in Calls, SendTransaction(c) PROVE SessionShape'
  <2>1. call[c].leg \in Legs /\ call[c].tx \in 1 .. TxCount[call[c].leg]
    BY <1>7 DEF SendTransaction, TypeInv, Sound, InLeg
  <2>2. tx' = tx \/ tx' = [tx EXCEPT ![call[c].leg][call[c].tx] = "pending"]
    BY <1>7 DEF SendTransaction, Current
  <2>3. TxTyped'
    <3>1. CASE tx' = tx
      BY <3>1
    <3>2. CASE tx' = [tx EXCEPT ![call[c].leg][call[c].tx] = "pending"]
      BY <2>1, <3>2 DEF TxStates
    <3> QED
      BY <2>2, <3>1, <3>2
  <2> HIDE DEF TxTyped
  <2> QED
    BY <1>7, <2>3 DEF SendTransaction
<1>8. ASSUME NEW c \in Calls, Confirm(c) PROVE SessionShape'
  BY <1>8 DEF Confirm
<1>9. ASSUME NEW c \in Calls, Measure(c) PROVE SessionShape'
  BY <1>9 DEF Measure
<1>10. ASSUME NEW c \in Calls, LegThrows(c) PROVE SessionShape'
  BY <1>10 DEF LegThrows
<1>11. ASSUME NEW c \in Calls, Record(c) PROVE SessionShape'
  <2>1. call[c].leg \in Legs /\ call[c].out \in Nat
    BY <1>11 DEF Record, TypeInv, ConvertTypeOK, Sound, InLeg
  <2>2. [status |-> "COMPLETED", out |-> call[c].out, warned |-> FALSE] \in LegRecords
    BY <2>1 DEF LegRecords, LegStatuses
  <2>3. leg' \in [Legs -> LegRecords] /\ activity' \in [Legs -> SUBSET {"COMPLETED", "FAILED"}]
    BY <1>11, <2>1, <2>2 DEF Record, Current
  <2> QED
    BY <1>11, <2>3 DEF Record
<1>12. ASSUME NEW c \in Calls, MeasureCaught(c) PROVE SessionShape'
  BY <1>12 DEF MeasureCaught
<1>13. ASSUME NEW c \in Calls, LogCaught(c) PROVE SessionShape'
  <2>1. Outcome(c) \in {"COMPLETED", "FAILED"}
    BY DEF Outcome
  <2> QED
    BY <1>13, <2>1 DEF LogCaught
<1>14. ASSUME NEW c \in Calls, MarkCaught(c) PROVE SessionShape'
  <2>1. call[c].leg \in Legs /\ call[c].out \in Nat
    BY <1>14 DEF MarkCaught, TypeInv, ConvertTypeOK, Sound, InLeg
  <2>2. \A done \in BOOLEAN :
           [status |-> Outcome(c), out |-> call[c].out, warned |-> done] \in LegRecords
    BY <2>1 DEF LegRecords, LegStatuses, Outcome
  <2>3. leg' \in [Legs -> LegRecords]
    BY <1>14, <2>1, <2>2 DEF MarkCaught, Current
  <2> QED
    BY <1>14, <2>3 DEF MarkCaught
<1>15. ASSUME NEW c \in Calls, Finish(c) PROVE SessionShape'
  <2>1. call[c].total \in Nat
    BY DEF TypeInv, ConvertTypeOK
  <2> QED
    BY <1>15, <2>1 DEF Finish, Result, SessionStatuses
<1>16. CASE Prepare
  BY <1>16 DEF Prepare, SessionStatuses
<1>17. CASE ReceiveElsewhere
  BY <1>17 DEF ReceiveElsewhere
<1>18. CASE SpendElsewhere
  BY <1>18 DEF SpendElsewhere, Balance
<1>19. CASE TimeUp
  BY <1>19 DEF TimeUp
<1>20. ASSUME NEW l \in Legs, NEW k \in 1 .. TxCount[l], Land(l, k) PROVE SessionShape'
  <2>1. TxTyped'
    BY <1>20 DEF Land, TxStates
  <2> HIDE DEF TxTyped
  <2> QED
    BY <1>20, <2>1 DEF Land
<1>21. ASSUME NEW l \in Legs, NEW k \in 1 .. TxCount[l], FailOnChain(l, k) PROVE SessionShape'
  <2>1. TxTyped'
    BY <1>21 DEF FailOnChain, TxStates
  <2> HIDE DEF TxTyped
  <2> QED
    BY <1>21, <2>1 DEF FailOnChain
<1> QED
  BY <1>1, <1>2, <1>3, <1>4, <1>5, <1>6, <1>7, <1>8, <1>9, <1>10, <1>11, <1>12,
     <1>13, <1>14, <1>15, <1>16, <1>17, <1>18, <1>19, <1>20, <1>21
  DEF ConvertNext, ExecuteStep

\* The whole shape is kept.
LEMMA SessionIsTyped ==
  ASSUME TypeInv, [ConvertNext]_convertVars
  PROVE  ConvertTypeOK' /\ tx' = [l \in Legs |-> tx'[l]] /\ spent' <= received'
<1>1. call' \in [Calls -> CallRecords]
  BY CallsTyped
<1>2. SessionShape'
  BY SessionTyped
<1> QED
  BY <1>1, <1>2
  DEF SessionShape, TxTyped, ConvertTypeOK, CallRecords, LegRecords, TxStates, Places, Positive

\* What a request inside a leg knows: its last transaction has landed once it measures, and
\* what it is about to mark as completed has its activity.
CallKnows(c) ==
    LET q == call[c] IN
    /\ q.pc \in InLeg => q.leg \in Legs
    /\ q.pc \in {"send", "confirm"} => q.tx \in 1 .. TxCount[q.leg]
    /\ q.pc \in {"measure", "record"} => tx[q.leg][TxCount[q.leg]] = "landed"
    /\ q.pc = "mark" /\ q.out > 0 => "COMPLETED" \in activity[q.leg]

\* Transactions of a leg land in their order.
InOrder == \A l \in Legs : \A k \in 1 .. TxCount[l] :
    tx[l][k] = "landed" => \A j \in 1 .. k : tx[l][j] = "landed"

CompletedLegs == \A l \in Legs : leg[l].status = "COMPLETED" =>
    "COMPLETED" \in activity[l] /\ (leg[l].warned \/ tx[l][TxCount[l]] = "landed")

LegInv == TypeInv /\ InOrder /\ CompletedLegs /\ \A c \in Calls : CallKnows(c)

\* What a step does to the transactions, and that it takes no activity away.
Effects ==
    /\ \/ tx' = tx
       \/ \E l \in Legs, k \in Positive : tx[l][k] # "landed" /\ tx' = [tx EXCEPT ![l][k] = "pending"]
       \/ \E l \in Legs : \E k \in 1 .. TxCount[l] : Land(l, k) \/ FailOnChain(l, k)
    /\ \A l \in Legs : activity[l] \subseteq activity'[l]

\* What a step does to the transactions, the balance and the legs, in the few cases that the
\* later lemmas tell apart.
LEMMA EffectsOf ==
  ASSUME TypeInv, [ConvertNext]_convertVars
  PROVE  Effects
<1> USE DEF Effects, sessionVars, legVars, chainVars, historyVars
<1>a. activity \in [Legs -> SUBSET {"COMPLETED", "FAILED"}]
  BY DEF TypeInv, ConvertTypeOK
<1> USE <1>a
<1>1. CASE UNCHANGED convertVars
  BY <1>1 DEF convertVars
<1>2. ASSUME NEW c \in Calls, Begin(c) PROVE Effects
  BY <1>2 DEF Begin
<1>3. ASSUME NEW c \in Calls, ExpireSession(c) PROVE Effects
  BY <1>3 DEF ExpireSession
<1>4. ASSUME NEW c \in Calls, CallFails(c) PROVE Effects
  BY <1>4 DEF CallFails
<1>5. ASSUME NEW c \in Calls, SkipLeg(c) PROVE Effects
  BY <1>5 DEF SkipLeg
<1>6. ASSUME NEW c \in Calls, ReadPre(c) PROVE Effects
  BY <1>6 DEF ReadPre
<1>7. ASSUME NEW c \in Calls, SendTransaction(c) PROVE Effects
  <2>1. /\ activity' = activity
        /\ \/ tx' = tx
           \/ /\ tx[call[c].leg][call[c].tx] # "landed"
              /\ tx' = [tx EXCEPT ![call[c].leg][call[c].tx] = "pending"]
    BY <1>7 DEF SendTransaction, Current, Accepted
  <2>2. call[c].leg \in Legs /\ call[c].tx \in Positive
    BY <1>7 DEF SendTransaction, TypeInv, Sound, InLeg, ConvertTypeOK, Positive
  <2> QED
    BY <2>1, <2>2
<1>8. ASSUME NEW c \in Calls, Confirm(c) PROVE Effects
  BY <1>8 DEF Confirm
<1>9. ASSUME NEW c \in Calls, Measure(c) PROVE Effects
  BY <1>9 DEF Measure
<1>10. ASSUME NEW c \in Calls, LegThrows(c) PROVE Effects
  BY <1>10 DEF LegThrows
<1>11. ASSUME NEW c \in Calls, Record(c) PROVE Effects
  BY <1>11 DEF Record
<1>12. ASSUME NEW c \in Calls, MeasureCaught(c) PROVE Effects
  BY <1>12 DEF MeasureCaught
<1>13. ASSUME NEW c \in Calls, LogCaught(c) PROVE Effects
  BY <1>13 DEF LogCaught
<1>14. ASSUME NEW c \in Calls, MarkCaught(c) PROVE Effects
  BY <1>14 DEF MarkCaught
<1>15. ASSUME NEW c \in Calls, Finish(c) PROVE Effects
  BY <1>15 DEF Finish
<1>16. CASE Prepare
  BY <1>16 DEF Prepare
<1>17. CASE ReceiveElsewhere
  BY <1>17 DEF ReceiveElsewhere
<1>18. CASE SpendElsewhere
  BY <1>18 DEF SpendElsewhere
<1>19. CASE TimeUp
  BY <1>19 DEF TimeUp
<1>20. ASSUME NEW l \in Legs, NEW k \in 1 .. TxCount[l], Land(l, k) PROVE Effects
  <2>1. activity' = activity
    BY <1>20 DEF Land
  <2> QED
    BY <1>20, <2>1
<1>21. ASSUME NEW l \in Legs, NEW k \in 1 .. TxCount[l], FailOnChain(l, k) PROVE Effects
  <2>1. activity' = activity
    BY <1>21 DEF FailOnChain
  <2> QED
    BY <1>21, <2>1
<1> QED
  BY <1>1, <1>2, <1>3, <1>4, <1>5, <1>6, <1>7, <1>8, <1>9, <1>10, <1>11, <1>12,
     <1>13, <1>14, <1>15, <1>16, <1>17, <1>18, <1>19, <1>20, <1>21
  DEF ConvertNext, ExecuteStep

\* So what has landed has landed, and the order is kept.
LEMMA LandedStays ==
  ASSUME TypeInv, InOrder, [ConvertNext]_convertVars
  PROVE  /\ InOrder'
         /\ \A i \in Legs : tx[i][TxCount[i]] = "landed" => tx'[i][TxCount[i]] = "landed"
<1> DEFINE Lasts == \A i \in Legs : tx[i][TxCount[i]] = "landed" => tx'[i][TxCount[i]] = "landed"
<1>a. /\ tx = [l \in Legs |-> tx[l]]
      /\ \A l \in Legs : tx[l] \in [1 .. TxCount[l] -> TxStates] /\ TxCount[l] \in Nat \ {0}
  BY ConvertAssumption DEF TypeInv, Sound, ConvertTypeOK, TxStates
<1>1. CASE tx' = tx
  BY <1>1 DEF InOrder
<1>2. ASSUME NEW l \in Legs, NEW k \in Positive, tx[l][k] # "landed", tx' = [tx EXCEPT ![l][k] = "pending"]
      PROVE  InOrder' /\ Lasts
  <2>1. \A m \in Legs : \A i \in 1 .. TxCount[m] : tx'[m][i] = "landed" <=> tx[m][i] = "landed"
    BY <1>a, <1>2
  <2>2. ASSUME NEW m \in Legs, NEW i \in 1 .. TxCount[m], tx'[m][i] = "landed", NEW j \in 1 .. i
        PROVE  tx'[m][j] = "landed"
    <3>1. j \in 1 .. TxCount[m]
      BY <1>a
    <3> QED
      BY <2>1, <2>2, <3>1 DEF InOrder
  <2>3. \A m \in Legs : TxCount[m] \in 1 .. TxCount[m]
    BY <1>a
  <2> QED
    BY <2>1, <2>2, <2>3 DEF InOrder
<1>3. ASSUME NEW l \in Legs, NEW k \in 1 .. TxCount[l], Land(l, k) PROVE InOrder' /\ Lasts
  <2>1. tx' = [tx EXCEPT ![l][k] = "landed"] /\ \A j \in 1 .. k - 1 : tx[l][j] = "landed"
    BY <1>3 DEF Land
  <2>2. ASSUME NEW m \in Legs, NEW i \in 1 .. TxCount[m], tx'[m][i] = "landed", NEW j \in 1 .. i
        PROVE  tx'[m][j] = "landed"
    <3>1. j \in 1 .. TxCount[m]
      BY <1>a
    <3>2. CASE m = l /\ i = k
      BY <1>a, <2>1, <3>1, <3>2
    <3>3. CASE ~(m = l /\ i = k)
      <4>1. tx[m][i] = "landed"
        BY <1>a, <2>1, <2>2, <3>3
      <4>2. tx[m][j] = "landed"
        BY <4>1 DEF InOrder
      <4> QED
        BY <1>a, <2>1, <3>1, <4>2
    <3> QED
      BY <3>2, <3>3
  <2>3. Lasts
    BY <1>a, <2>1
  <2> QED
    BY <2>2, <2>3 DEF InOrder
<1>4. ASSUME NEW l \in Legs, NEW k \in 1 .. TxCount[l], FailOnChain(l, k) PROVE InOrder' /\ Lasts
  <2>1. /\ tx[l][k] # "landed"
        /\ tx' = [tx EXCEPT ![l] = [j \in 1 .. TxCount[l] |-> IF j < k THEN tx[l][j] ELSE "failed"]]
    BY <1>a, <1>4 DEF FailOnChain
  <2>2. ASSUME NEW m \in Legs, NEW i \in 1 .. TxCount[m], tx'[m][i] = "landed", NEW j \in 1 .. i
        PROVE  tx'[m][j] = "landed"
    <3>1. j \in 1 .. TxCount[m]
      BY <1>a
    <3>2. tx[m][i] = "landed" /\ (m = l => i < k)
      BY <1>a, <2>1, <2>2
    <3>3. tx[m][j] = "landed"
      BY <3>2 DEF InOrder
    <3> QED
      BY <1>a, <2>1, <3>1, <3>2, <3>3
  <2>3. ASSUME NEW i \in Legs, tx[i][TxCount[i]] = "landed" PROVE tx'[i][TxCount[i]] = "landed"
    <3>1. TxCount[i] \in 1 .. TxCount[i]
      BY <1>a
    <3>2. i = l => tx[i][k] = "landed"
      BY <2>3, <3>1 DEF InOrder
    <3> QED
      BY <1>a, <2>1, <2>3, <3>2
  <2> QED
    BY <2>2, <2>3 DEF InOrder
<1> QED
  BY <1>1, <1>2, <1>3, <1>4, EffectsOf DEF Effects

\* What a request knows of the legs it has passed stays true.
LEMMA KnowStep ==
  ASSUME LegInv, [ConvertNext]_convertVars
  PROVE  \A x \in Calls : CallKnows(x)'
<1> USE DEF sessionVars, legVars, chainVars, historyVars
<1>a. /\ call \in [Calls -> CallRecords] /\ \A x \in Calls : CallKnows(x)
      /\ TypeInv /\ InOrder
  BY DEF LegInv, TypeInv, ConvertTypeOK, CallRecords, Places, Positive
<1> USE <1>a
<1>s. \A i \in Legs : /\ tx[i][TxCount[i]] = "landed" => tx'[i][TxCount[i]] = "landed"
                     /\ activity[i] \subseteq activity'[i]
  BY LandedStays, EffectsOf DEF Effects
<1>o. \A x \in Calls : call'[x] = call[x] => CallKnows(x)'
  BY <1>s DEF CallKnows, InLeg
<1>u. call' = call => \A x \in Calls : CallKnows(x)'
  BY <1>o
<1>1. CASE UNCHANGED convertVars
  BY <1>1, <1>u DEF convertVars
<1>2. ASSUME NEW c \in Calls, Begin(c) PROVE \A x \in Calls : CallKnows(x)'
  <2>1. \A d \in Calls \ {c} : call'[d] = call[d]
    BY <1>2 DEF Begin
  <2>2. call'[c].pc \in {"expiring", "leg"}
    BY <1>2 DEF Begin, CallRecords
  <2> QED
    BY <1>o, <2>1, <2>2 DEF CallKnows, InLeg
<1>3. ASSUME NEW c \in Calls, ExpireSession(c) PROVE \A x \in Calls : CallKnows(x)'
  <2>1. call'[c].pc \in {"over", "expiring", "leg"} /\ \A d \in Calls \ {c} : call'[d] = call[d]
    BY <1>3 DEF ExpireSession, Over, Idle
  <2> QED
    BY <1>o, <2>1 DEF CallKnows, InLeg
<1>4. ASSUME NEW c \in Calls, CallFails(c) PROVE \A x \in Calls : CallKnows(x)'
  <2>1. call'[c].pc \in {"over", "expiring", "leg"} /\ \A d \in Calls \ {c} : call'[d] = call[d]
    BY <1>4 DEF CallFails, Over, Idle
  <2> QED
    BY <1>o, <2>1 DEF CallKnows, InLeg
<1>5. ASSUME NEW c \in Calls, SkipLeg(c) PROVE \A x \in Calls : CallKnows(x)'
  <2>1. call'[c].pc \in {"over", "expiring", "leg"} /\ \A d \in Calls \ {c} : call'[d] = call[d]
    BY <1>5 DEF SkipLeg
  <2> QED
    BY <1>o, <2>1 DEF CallKnows, InLeg
<1>6. ASSUME NEW c \in Calls, ReadPre(c) PROVE \A x \in Calls : CallKnows(x)'
  <2>1. call[c].leg \in Legs
    BY <1>6 DEF ReadPre, Current, CallRecords
  <2>2. TxCount[call[c].leg] \in Nat \ {0}
    BY <2>1, ConvertAssumption
  <2>3. call'[c].pc = "send" /\ call'[c].tx = 1 /\ call'[c].leg = call[c].leg
    BY <1>6 DEF ReadPre, CallRecords
  <2>4. \A d \in Calls \ {c} : call'[d] = call[d]
    BY <1>6 DEF ReadPre
  <2> QED
    BY <1>o, <2>1, <2>2, <2>3, <2>4 DEF CallKnows, InLeg
<1>7. ASSUME NEW c \in Calls, SendTransaction(c) PROVE \A x \in Calls : CallKnows(x)'
  <2>1. call[c].pc = "send" /\ \A d \in Calls \ {c} : call'[d] = call[d]
    BY <1>7 DEF SendTransaction, Throw
  <2>2. \/ call' = [call EXCEPT ![c] = [call[c] EXCEPT !.pc = "confirm", !.sent = TRUE]]
        \/ call' = [call EXCEPT ![c] = [call[c] EXCEPT !.pc = "caught", !.tx = 1, !.out = 0]]
    BY <1>7 DEF SendTransaction, Throw
  <2>3. \/ call'[c].pc = "confirm" /\ call'[c].leg = call[c].leg /\ call'[c].tx = call[c].tx
        \/ call'[c].pc = "caught" /\ call'[c].leg = call[c].leg
    <3>1. PICK q \in CallRecords : q = call[c]
      OBVIOUS
    <3>2. CASE call' = [call EXCEPT ![c] = [call[c] EXCEPT !.pc = "confirm", !.sent = TRUE]]
      <4>1. call'[c] = [q EXCEPT !.pc = "confirm", !.sent = TRUE]
        BY <3>1, <3>2
      <4> QED
        BY <3>1, <4>1 DEF CallRecords
    <3>3. CASE call' = [call EXCEPT ![c] = [call[c] EXCEPT !.pc = "caught", !.tx = 1, !.out = 0]]
      <4>1. call'[c] = [q EXCEPT !.pc = "caught", !.tx = 1, !.out = 0]
        BY <3>1, <3>3
      <4> QED
        BY <3>1, <4>1 DEF CallRecords
    <3> QED
      BY <2>2, <3>2, <3>3
  <2> QED
    BY <1>o, <2>1, <2>3 DEF CallKnows, InLeg
<1>8. ASSUME NEW c \in Calls, Confirm(c) PROVE \A x \in Calls : CallKnows(x)'
  <2>1. /\ call[c].pc = "confirm" /\ tx[call[c].leg][call[c].tx] = "landed"
        /\ \A d \in Calls \ {c} : call'[d] = call[d]
    BY <1>8 DEF Confirm, Confirmed, Current
  <2>2. call'[c].leg = call[c].leg
    BY <1>8 DEF Confirm, CallRecords
  <2>3. \/ /\ call'[c].pc = "send" /\ call'[c].tx = call[c].tx + 1
           /\ call[c].tx < TxCount[call[c].leg]
        \/ call'[c].pc = "measure" /\ ~(call[c].tx < TxCount[call[c].leg])
    BY <1>8 DEF Confirm, CallRecords, Current
  <2>4. call[c].leg \in Legs /\ call[c].tx \in 1 .. TxCount[call[c].leg]
    BY <2>1 DEF CallKnows, InLeg
  <2>5. TxCount[call[c].leg] \in Nat
    BY <2>4, ConvertAssumption
  <2>6. call'[c].pc = "send" => call'[c].tx \in 1 .. TxCount[call'[c].leg]
    BY <2>2, <2>3, <2>4, <2>5
  <2>7. call'[c].pc = "measure" => tx[call[c].leg][TxCount[call[c].leg]] = "landed"
    <3>1. ~(call[c].tx < TxCount[call[c].leg]) => call[c].tx = TxCount[call[c].leg]
      BY <2>4, <2>5
    <3> QED
      BY <2>1, <2>3, <3>1
  <2> QED
    BY <1>o, <1>s, <2>1, <2>2, <2>3, <2>4, <2>6, <2>7 DEF CallKnows, InLeg
<1>9. ASSUME NEW c \in Calls, Measure(c) PROVE \A x \in Calls : CallKnows(x)'
  <2>1. /\ call[c].pc = "measure" /\ call'[c].pc = "record"
        /\ call'[c].leg = call[c].leg /\ \A d \in Calls \ {c} : call'[d] = call[d]
    BY <1>9 DEF Measure, CallRecords
  <2> QED
    BY <1>o, <1>s, <2>1 DEF CallKnows, InLeg
<1>10. ASSUME NEW c \in Calls, LegThrows(c) PROVE \A x \in Calls : CallKnows(x)'
  <2>1. /\ call[c].pc \in {"confirm", "record"} /\ call'[c].pc = "caught"
        /\ call'[c].leg = call[c].leg /\ \A d \in Calls \ {c} : call'[d] = call[d]
    BY <1>10 DEF LegThrows, Throw, CallRecords
  <2> QED
    BY <1>o, <1>s, <2>1 DEF CallKnows, InLeg
<1>11. ASSUME NEW c \in Calls, Record(c) PROVE \A x \in Calls : CallKnows(x)'
  <2>1. call'[c].pc = "leg" /\ \A d \in Calls \ {c} : call'[d] = call[d]
    BY <1>11 DEF Record, NextLeg
  <2> QED
    BY <1>o, <2>1 DEF CallKnows, InLeg
<1>12. ASSUME NEW c \in Calls, MeasureCaught(c) PROVE \A x \in Calls : CallKnows(x)'
  <2>1. PICK after \in Readings : call' = [call EXCEPT ![c] =
           [call[c] EXCEPT !.pre = 0, !.out = Gain(after, call[c].pre), !.sent = FALSE,
              !.pc = IF call[c].sent \/ Gain(after, call[c].pre) > 0 THEN "log" ELSE "mark"]]
    BY <1>12 DEF MeasureCaught
  <2>2. /\ call'[c].leg = call[c].leg /\ call'[c].pc \in {"log", "mark"}
        /\ call'[c].pc = "mark" => ~(call'[c].out > 0)
        /\ \A d \in Calls \ {c} : call'[d] = call[d]
    BY <2>1 DEF CallRecords
  <2>3. call[c].pc = "caught"
    BY <1>12 DEF MeasureCaught
  <2> QED
    BY <1>o, <2>2, <2>3 DEF CallKnows, InLeg
<1>13. ASSUME NEW c \in Calls, LogCaught(c) PROVE \A x \in Calls : CallKnows(x)'
  <2>1. /\ call[c].pc = "log" /\ call'[c].pc = "mark" /\ call'[c].out = call[c].out
        /\ call'[c].leg = call[c].leg /\ \A d \in Calls \ {c} : call'[d] = call[d]
    BY <1>13 DEF LogCaught, Moves, CallRecords
  <2>2. call[c].leg \in Legs
    BY <2>1 DEF CallKnows, InLeg
  <2>3. call[c].out > 0 => "COMPLETED" \in activity'[call[c].leg]
    <3>1. activity' = [activity EXCEPT ![call[c].leg] = @ \cup {Outcome(c)}]
      BY <1>13 DEF LogCaught, Current
    <3>2. activity \in [Legs -> SUBSET {"COMPLETED", "FAILED"}]
      BY DEF TypeInv, ConvertTypeOK
    <3> QED
      BY <2>2, <3>1, <3>2 DEF Outcome
  <2> QED
    BY <1>o, <2>1, <2>2, <2>3 DEF CallKnows, InLeg
<1>14. ASSUME NEW c \in Calls, MarkCaught(c) PROVE \A x \in Calls : CallKnows(x)'
  <2>1. call'[c].pc = "leg" /\ \A d \in Calls \ {c} : call'[d] = call[d]
    BY <1>14 DEF MarkCaught, NextLeg
  <2> QED
    BY <1>o, <2>1 DEF CallKnows, InLeg
<1>15. ASSUME NEW c \in Calls, Finish(c) PROVE \A x \in Calls : CallKnows(x)'
  <2>1. call'[c].pc \in {"over", "expiring", "leg"} /\ \A d \in Calls \ {c} : call'[d] = call[d]
    BY <1>15 DEF Finish, Over, Idle
  <2> QED
    BY <1>o, <2>1 DEF CallKnows, InLeg
<1>16. CASE Prepare
  BY <1>u, <1>16 DEF Prepare
<1>17. CASE ReceiveElsewhere
  BY <1>u, <1>17 DEF ReceiveElsewhere
<1>18. CASE SpendElsewhere
  BY <1>u, <1>18 DEF SpendElsewhere
<1>19. CASE TimeUp
  BY <1>u, <1>19 DEF TimeUp
<1>20. ASSUME NEW l \in Legs, NEW k \in 1 .. TxCount[l], Land(l, k) PROVE \A x \in Calls : CallKnows(x)'
  BY <1>u, <1>20 DEF Land
<1>21. ASSUME NEW l \in Legs, NEW k \in 1 .. TxCount[l], FailOnChain(l, k) PROVE \A x \in Calls : CallKnows(x)'
  BY <1>u, <1>21 DEF FailOnChain
<1> QED
  BY <1>1, <1>2, <1>3, <1>4, <1>5, <1>6, <1>7, <1>8, <1>9, <1>10, <1>11, <1>12,
     <1>13, <1>14, <1>15, <1>16, <1>17, <1>18, <1>19, <1>20, <1>21
  DEF ConvertNext, ExecuteStep

\* A leg shown as completed has swapped, or is warned about, and has its activity.
LEMMA CompletedStep ==
  ASSUME LegInv, [ConvertNext]_convertVars
  PROVE  CompletedLegs'
<1> USE DEF CompletedLegs, sessionVars, legVars, chainVars, historyVars
<1>a. /\ CompletedLegs /\ TypeInv /\ InOrder /\ \A x \in Calls : CallKnows(x)
      /\ leg \in [Legs -> LegRecords] /\ activity \in [Legs -> SUBSET {"COMPLETED", "FAILED"}]
  BY DEF LegInv, TypeInv, ConvertTypeOK, LegRecords
<1> USE <1>a
<1>s. \A i \in Legs : /\ tx[i][TxCount[i]] = "landed" => tx'[i][TxCount[i]] = "landed"
                     /\ activity[i] \subseteq activity'[i]
  BY LandedStays, EffectsOf DEF Effects
<1>1. CASE UNCHANGED convertVars
  BY <1>1, <1>s DEF convertVars
<1>2. ASSUME NEW c \in Calls, Begin(c) PROVE CompletedLegs'
  <2>1. leg' = leg
    BY <1>2 DEF Begin
  <2> QED
    BY <1>s, <2>1
<1>3. ASSUME NEW c \in Calls, ExpireSession(c) PROVE CompletedLegs'
  <2>1. leg' = [l \in Legs |-> IF leg[l].status = "PREPARED"
                              THEN [leg[l] EXCEPT !.status = "EXPIRED"] ELSE leg[l]]
    BY <1>3 DEF ExpireSession
  <2>2. \A l \in Legs : leg'[l].status = "COMPLETED" => leg'[l] = leg[l]
    BY <2>1 DEF LegRecords
  <2> QED
    BY <1>s, <2>2
<1>4. ASSUME NEW c \in Calls, CallFails(c) PROVE CompletedLegs'
  <2>1. leg' = leg
    BY <1>4 DEF CallFails
  <2> QED
    BY <1>s, <2>1
<1>5. ASSUME NEW c \in Calls, SkipLeg(c) PROVE CompletedLegs'
  <2>1. call[c].leg \in Legs /\ leg' = [leg EXCEPT ![call[c].leg].status = "FAILED"]
    BY <1>5 DEF SkipLeg, Current
  <2>2. \A l \in Legs : leg'[l].status = "COMPLETED" => leg'[l] = leg[l]
    BY <2>1 DEF LegRecords
  <2> QED
    BY <1>s, <2>2
<1>6. ASSUME NEW c \in Calls, ReadPre(c) PROVE CompletedLegs'
  <2>1. leg' = leg
    BY <1>6 DEF ReadPre
  <2> QED
    BY <1>s, <2>1
<1>7. ASSUME NEW c \in Calls, SendTransaction(c) PROVE CompletedLegs'
  <2>1. leg' = leg
    BY <1>7 DEF SendTransaction
  <2> QED
    BY <1>s, <2>1
<1>8. ASSUME NEW c \in Calls, Confirm(c) PROVE CompletedLegs'
  <2>1. leg' = leg
    BY <1>8 DEF Confirm
  <2> QED
    BY <1>s, <2>1
<1>9. ASSUME NEW c \in Calls, Measure(c) PROVE CompletedLegs'
  <2>1. leg' = leg
    BY <1>9 DEF Measure
  <2> QED
    BY <1>s, <2>1
<1>10. ASSUME NEW c \in Calls, LegThrows(c) PROVE CompletedLegs'
  <2>1. leg' = leg
    BY <1>10 DEF LegThrows
  <2> QED
    BY <1>s, <2>1
<1>11. ASSUME NEW c \in Calls, Record(c) PROVE CompletedLegs'
  <2>1. call[c].leg \in Legs /\ tx[call[c].leg][TxCount[call[c].leg]] = "landed"
    BY <1>11 DEF Record, CallKnows, InLeg
  <2>2. /\ leg' = [leg EXCEPT ![call[c].leg] = [status |-> "COMPLETED", out |-> call[c].out, warned |-> FALSE]]
        /\ activity' = [activity EXCEPT ![call[c].leg] = activity[call[c].leg] \cup {"COMPLETED"}]
    BY <1>11 DEF Record, Current
  <2>3. ASSUME NEW l \in Legs, leg'[l].status = "COMPLETED"
        PROVE  "COMPLETED" \in activity'[l] /\ (leg'[l].warned \/ tx'[l][TxCount[l]] = "landed")
    <3>1. CASE l = call[c].leg
      BY <1>s, <2>1, <2>2, <3>1
    <3>2. CASE l # call[c].leg
      BY <1>s, <2>2, <2>3, <3>2
    <3> QED
      BY <3>1, <3>2
  <2> QED
    BY <2>3
<1>12. ASSUME NEW c \in Calls, MeasureCaught(c) PROVE CompletedLegs'
  <2>1. leg' = leg
    BY <1>12 DEF MeasureCaught
  <2> QED
    BY <1>s, <2>1
<1>13. ASSUME NEW c \in Calls, LogCaught(c) PROVE CompletedLegs'
  <2>1. leg' = leg
    BY <1>13 DEF LogCaught
  <2> QED
    BY <1>s, <2>1
<1>14. ASSUME NEW c \in Calls, MarkCaught(c) PROVE CompletedLegs'
  <2>1. /\ call[c].leg \in Legs /\ call[c].out > 0 => "COMPLETED" \in activity[call[c].leg]
    BY <1>14 DEF MarkCaught, CallKnows, InLeg
  <2>2. leg' = [leg EXCEPT ![call[c].leg] =
                  [status |-> Outcome(c), out |-> call[c].out, warned |-> Outcome(c) = "COMPLETED"]]
    BY <1>14 DEF MarkCaught, Current
  <2>3. Outcome(c) = "COMPLETED" => call[c].out > 0
    BY DEF Outcome
  <2>4. ASSUME NEW l \in Legs, leg'[l].status = "COMPLETED"
        PROVE  "COMPLETED" \in activity'[l] /\ (leg'[l].warned \/ tx'[l][TxCount[l]] = "landed")
    <3>1. CASE l = call[c].leg
      BY <1>s, <2>1, <2>2, <2>3, <2>4, <3>1
    <3>2. CASE l # call[c].leg
      BY <1>s, <2>2, <2>4, <3>2
    <3> QED
      BY <3>1, <3>2
  <2> QED
    BY <2>4
<1>15. ASSUME NEW c \in Calls, Finish(c) PROVE CompletedLegs'
  <2>1. leg' = leg
    BY <1>15 DEF Finish
  <2> QED
    BY <1>s, <2>1
<1>16. CASE Prepare
  <2>1. leg' = leg
    BY <1>16 DEF Prepare
  <2> QED
    BY <1>s, <2>1
<1>17. CASE ReceiveElsewhere
  <2>1. leg' = leg
    BY <1>17 DEF ReceiveElsewhere
  <2> QED
    BY <1>s, <2>1
<1>18. CASE SpendElsewhere
  <2>1. leg' = leg
    BY <1>18 DEF SpendElsewhere
  <2> QED
    BY <1>s, <2>1
<1>19. CASE TimeUp
  <2>1. leg' = leg
    BY <1>19 DEF TimeUp
  <2> QED
    BY <1>s, <2>1
<1>20. ASSUME NEW l \in Legs, NEW k \in 1 .. TxCount[l], Land(l, k) PROVE CompletedLegs'
  <2>1. leg' = leg
    BY <1>20 DEF Land
  <2> QED
    BY <1>s, <2>1
<1>21. ASSUME NEW l \in Legs, NEW k \in 1 .. TxCount[l], FailOnChain(l, k) PROVE CompletedLegs'
  <2>1. leg' = leg
    BY <1>21 DEF FailOnChain
  <2> QED
    BY <1>s, <2>1
<1> QED
  BY <1>1, <1>2, <1>3, <1>4, <1>5, <1>6, <1>7, <1>8, <1>9, <1>10, <1>11, <1>12,
     <1>13, <1>14, <1>15, <1>16, <1>17, <1>18, <1>19, <1>20, <1>21
  DEF ConvertNext, ExecuteStep

\* The invariant about shapes and legs, for any number of requests at once.
LEMMA LegInvariant == ConvertSpec => []LegInv
<1>1. ConvertInit => LegInv
  <2> SUFFICES ASSUME ConvertInit PROVE LegInv
    OBVIOUS
  <2>1. InOrder
    BY DEF ConvertInit, InOrder
  <2>2. CompletedLegs
    BY DEF ConvertInit, CompletedLegs
  <2>3. \A c \in Calls : CallKnows(c)
    BY DEF ConvertInit, CallKnows, InLeg, Idle
  <2> QED
    BY <2>1, <2>2, <2>3, InitTypeInv DEF LegInv
<1>2. LegInv /\ [ConvertNext]_convertVars => LegInv'
  <2> SUFFICES ASSUME LegInv, [ConvertNext]_convertVars PROVE LegInv'
    OBVIOUS
  <2>1. TypeInv /\ InOrder
    BY DEF LegInv
  <2>2. \A c \in Calls : CallKnows(c)'
    BY KnowStep
  <2>3. Sound'
    BY <2>1, <2>2, SessionIsTyped DEF Sound, CallKnows
  <2> QED
    BY <2>1, <2>2, <2>3, SessionIsTyped, LandedStays, CompletedStep DEF LegInv, TypeInv
<1> QED
  BY <1>1, <1>2, PTL DEF ConvertSpec

-----------------------------------------------------------------------------
(* Where no two requests overlap: what the one that runs has done so far.     *)

\* The legs before the current one are as its three results say; a request that has not
\* begun knows nothing yet.
Progress(c) ==
    LET q == call[c]
        before == 1 .. q.leg - 1
    IN  /\ q.pc = "idle" => q = Idle
        /\ Running(c) /\ ~q.failed /\ ~q.warned =>
              \A l \in before : leg[l].status = "COMPLETED" /\ ~leg[l].warned
        /\ Running(c) /\ ~q.completed => \A l \in before : leg[l].status = "FAILED"

SettledAsLegs ==
    /\ status = "COMPLETED" => \A l \in Legs : leg[l].status = "COMPLETED" /\ ~leg[l].warned
    /\ status = "FAILED" => total = 0 /\ \A l \in Legs : leg[l].status = "FAILED"

ResultInv == \/ overlapped
             \/ SettledAsLegs /\ \A c \in Calls : Progress(c)

JointInv == LegInv /\ RunInv

\* A request that takes a step without overlapping is the only one that runs.
LEMMA Alone ==
  ASSUME RunInv, NEW c \in Calls, ExecuteStep(c), ~overlapped'
  PROVE  /\ ~overlapped
         /\ \A d \in Calls \ {c} : ~Running(d) /\ call'[d] = call[d]
<1>1. overlapped' = overlapped \/ overlapped' = (overlapped \/ \E d \in Calls : Running(d))
  BY DEF ExecuteStep, Begin, ExpireSession, CallFails, SkipLeg, ReadPre, SendTransaction, Confirm, Measure,
     LegThrows, Record, MeasureCaught, LogCaught, MarkCaught, Finish, Running, historyVars
<1>2. ~overlapped
  BY <1>1
<1>3. \A d \in Calls \ {c} : call'[d] = call[d]
  <2> USE DEF RunInv, CallShape
  <2>1. CASE Begin(c)
    BY <2>1 DEF Begin
  <2>2. CASE SendTransaction(c)
    BY <2>2 DEF SendTransaction, Throw
  <2>3. CASE ReadPre(c) \/ Measure(c) \/ MeasureCaught(c)
    BY <2>3 DEF ReadPre, Measure, MeasureCaught
  <2>4. CASE ExpireSession(c) \/ CallFails(c) \/ SkipLeg(c) \/ Confirm(c) \/ LegThrows(c)
    BY <2>4 DEF ExpireSession, CallFails, SkipLeg, Confirm, LegThrows, Throw
  <2>5. CASE Record(c) \/ LogCaught(c) \/ MarkCaught(c) \/ Finish(c)
    BY <2>5 DEF Record, LogCaught, Moves, MarkCaught, Finish
  <2> QED
    BY <2>1, <2>2, <2>3, <2>4, <2>5 DEF ExecuteStep
<1>4. CASE Running(c)
  BY <1>2, <1>3, <1>4 DEF RunInv, OneRuns
<1>5. CASE ~Running(c)
  <2>1. Begin(c)
    BY <1>5, RestingRequests
  <2> QED
    BY <1>2, <1>3, <2>1 DEF Begin, Running
<1> QED
  BY <1>2, <1>4, <1>5

\* What a request says of the legs before it stays true with every step it takes.
Follows(c) ==
    /\ call'[c].pc # "idle" /\ call'[c].leg = call[c].leg
    /\ call'[c].completed = call[c].completed
    /\ call'[c].failed = call[c].failed /\ call'[c].warned = call[c].warned

\* The request that runs alone counts the legs it has settled.
LEMMA ProgressStep ==
  ASSUME JointInv, NEW c \in Calls, Progress(c), ExecuteStep(c)
  PROVE  Progress(c)'
<1>a. /\ call \in [Calls -> CallRecords] /\ \A x \in Calls : call[x] \in CallRecords
      /\ leg \in [Legs -> LegRecords] /\ \A l \in Legs : leg[l] \in LegRecords
      /\ \A x \in Calls : CallKnows(x)
  BY DEF JointInv, LegInv, TypeInv, ConvertTypeOK, CallRecords, Places, Positive, LegRecords
<1> USE <1>a DEF sessionVars, legVars
<1>k. leg' = leg /\ Running(c) /\ Follows(c) => Progress(c)'
  BY DEF Follows, Progress, Running
<1>1. CASE Begin(c)
  <2>1. call[c] = Idle
    BY <1>1 DEF Begin, Progress
  <2>2. call'[c].leg = call[c].leg /\ call'[c].pc # "idle"
    BY <1>1 DEF Begin, CallRecords
  <2>3. call[c].leg = 1
    BY <2>1 DEF Idle
  <2> QED
    BY <2>2, <2>3 DEF Progress
<1>2. CASE ExpireSession(c)
  BY <1>2 DEF ExpireSession, Over, Idle, Progress, Running
<1>3. CASE CallFails(c)
  BY <1>3 DEF CallFails, Over, Idle, Progress, Running
<1>4. CASE SkipLeg(c)
  <2>1. PICK l : l = call[c].leg
    OBVIOUS
  <2>2. /\ l \in Legs /\ leg' = [leg EXCEPT ![l].status = "FAILED"] /\ Running(c)
        /\ call'[c] = [call[c] EXCEPT !.leg = l + 1, !.failed = TRUE]
    BY <1>4, <2>1 DEF SkipLeg, Current, Running
  <2>3. /\ call'[c].leg = l + 1 /\ call'[c].failed /\ call'[c].pc # "idle"
        /\ call'[c].completed = call[c].completed
    BY <1>4, <2>2 DEF CallRecords, SkipLeg
  <2>4. \A i \in 1 .. l - 1 : i \in Legs /\ leg'[i] = leg[i]
    <3>1. \A i \in 1 .. l - 1 : i \in Legs /\ i # l
      BY <2>2, ConvertAssumption DEF Legs
    <3> QED
      BY <2>2, <3>1
  <2>5. leg'[l].status = "FAILED"
    BY <2>2 DEF LegRecords
  <2>6. 1 .. (l + 1) - 1 = (1 .. l - 1) \cup {l}
    BY <2>2 DEF Legs
  <2> QED
    BY <2>1, <2>2, <2>3, <2>4, <2>5, <2>6 DEF Progress
<1>5. CASE ReadPre(c)
  <2>1. leg' = leg /\ Running(c)
    BY <1>5 DEF ReadPre, Running
  <2>2. PICK before : call'[c] = [call[c] EXCEPT !.pc = "send", !.tx = 1, !.pre = before, !.sent = FALSE]
    BY <1>5 DEF ReadPre
  <2>3. Follows(c)
    BY <2>2 DEF Follows, CallRecords
  <2> QED
    BY <1>k, <2>1, <2>3
<1>6. CASE SendTransaction(c)
  <2>1. leg' = leg /\ Running(c)
    BY <1>6 DEF SendTransaction, Running
  <2>2. \/ call'[c] = [call[c] EXCEPT !.pc = "confirm", !.sent = TRUE]
        \/ call'[c] = [call[c] EXCEPT !.pc = "caught", !.tx = 1, !.out = 0]
    BY <1>6 DEF SendTransaction, Throw
  <2>3. Follows(c)
    BY <2>2 DEF Follows, CallRecords
  <2> QED
    BY <1>k, <2>1, <2>3
<1>7. CASE Confirm(c)
  <2>1. leg' = leg /\ Running(c)
    BY <1>7 DEF Confirm, Running
  <2>2. \/ call'[c] = [call[c] EXCEPT !.pc = "send", !.tx = call[c].tx + 1]
        \/ call'[c] = [call[c] EXCEPT !.pc = "measure", !.tx = 1]
    BY <1>7 DEF Confirm
  <2>3. Follows(c)
    BY <2>2 DEF Follows, CallRecords
  <2> QED
    BY <1>k, <2>1, <2>3
<1>8. CASE Measure(c)
  <2>1. leg' = leg /\ Running(c)
    BY <1>8 DEF Measure, Running
  <2>2. PICK gain : call'[c] = [call[c] EXCEPT !.pc = "record", !.out = gain]
    BY <1>8 DEF Measure
  <2>3. Follows(c)
    BY <2>2 DEF Follows, CallRecords
  <2> QED
    BY <1>k, <2>1, <2>3
<1>9. CASE LegThrows(c)
  <2>1. leg' = leg /\ Running(c)
    BY <1>9 DEF LegThrows, Running
  <2>2. Follows(c)
    BY <1>9 DEF LegThrows, Throw, Follows, CallRecords
  <2> QED
    BY <1>k, <2>1, <2>2
<1>10. CASE Record(c)
  <2>1. PICK l : l = call[c].leg
    OBVIOUS
  <2>2. /\ leg' = [leg EXCEPT ![l] = [status |-> "COMPLETED", out |-> call[c].out, warned |-> FALSE]] /\ Running(c)
        /\ call'[c] = NextLeg(call[c], call[c].out, TRUE, FALSE)
    BY <1>10, <2>1 DEF Record, Current, Running
  <2>3. l \in Legs
    BY <1>10, <2>1 DEF Record, CallKnows, InLeg
  <2>4. /\ call'[c].leg = l + 1 /\ call'[c].pc # "idle"
        /\ call'[c].completed = (call[c].completed \/ TRUE)
        /\ call'[c].failed = (call[c].failed \/ ~TRUE)
        /\ call'[c].warned = (call[c].warned \/ FALSE)
    BY <2>1, <2>2 DEF CallRecords, NextLeg
  <2>5. \A i \in 1 .. l - 1 : i \in Legs /\ leg'[i] = leg[i]
    <3>1. \A i \in 1 .. l - 1 : i \in Legs /\ i # l
      BY <2>3, ConvertAssumption DEF Legs
    <3> QED
      BY <2>2, <3>1
  <2>6. leg'[l] = [status |-> "COMPLETED", out |-> call[c].out, warned |-> FALSE]
    BY <2>2, <2>3
  <2>7. 1 .. (l + 1) - 1 = (1 .. l - 1) \cup {l}
    BY <2>3 DEF Legs
  <2>8. ~call'[c].failed /\ ~call'[c].warned =>
          \A i \in 1 .. l - 1 : leg'[i].status = "COMPLETED" /\ ~leg'[i].warned
    BY <2>1, <2>2, <2>4, <2>5 DEF Progress
  <2>9. ~call'[c].completed => \A i \in 1 .. l - 1 : leg'[i].status = "FAILED"
    BY <2>1, <2>2, <2>4, <2>5 DEF Progress
  <2>10. /\ ~call'[c].failed /\ ~call'[c].warned => leg'[l].status = "COMPLETED" /\ ~leg'[l].warned
         /\ ~call'[c].completed => leg'[l].status = "FAILED"
    <3>1. leg'[l].status = "COMPLETED" /\ leg'[l].warned = FALSE
      BY <2>6
    <3>2. call'[c].completed = TRUE
      BY <2>4
    <3> QED
      BY <3>1, <3>2
  <2> QED
    BY <2>4, <2>7, <2>8, <2>9, <2>10 DEF Progress
<1>11. CASE MeasureCaught(c)
  <2>1. leg' = leg /\ Running(c)
    BY <1>11 DEF MeasureCaught, Running
  <2>2. PICK gain : call'[c] = [call[c] EXCEPT !.pre = 0, !.out = gain, !.sent = FALSE,
                                  !.pc = IF call[c].sent \/ gain > 0 THEN "log" ELSE "mark"]
    BY <1>11 DEF MeasureCaught
  <2>3. Follows(c)
    BY <2>2 DEF Follows, CallRecords
  <2> QED
    BY <1>k, <2>1, <2>3
<1>12. CASE LogCaught(c)
  <2>1. leg' = leg /\ Running(c)
    BY <1>12 DEF LogCaught, Running
  <2>2. Follows(c)
    BY <1>12 DEF LogCaught, Moves, Follows, CallRecords
  <2> QED
    BY <1>k, <2>1, <2>2
<1>13. CASE MarkCaught(c)
  <2>1. PICK l : l = call[c].leg
    OBVIOUS
  <2>2. /\ leg' = [leg EXCEPT ![l] = [status |-> Outcome(c), out |-> call[c].out, warned |-> Outcome(c) = "COMPLETED"]] /\ Running(c)
        /\ call'[c] = NextLeg(call[c], call[c].out, Outcome(c) = "COMPLETED", Outcome(c) = "COMPLETED")
    BY <1>13, <2>1 DEF MarkCaught, Current, Running
  <2>3. l \in Legs
    BY <1>13, <2>1 DEF MarkCaught, CallKnows, InLeg
  <2>4. /\ call'[c].leg = l + 1 /\ call'[c].pc # "idle"
        /\ call'[c].completed = (call[c].completed \/ (Outcome(c) = "COMPLETED"))
        /\ call'[c].failed = (call[c].failed \/ ~(Outcome(c) = "COMPLETED"))
        /\ call'[c].warned = (call[c].warned \/ (Outcome(c) = "COMPLETED"))
    BY <2>1, <2>2 DEF CallRecords, NextLeg
  <2>5. \A i \in 1 .. l - 1 : i \in Legs /\ leg'[i] = leg[i]
    <3>1. \A i \in 1 .. l - 1 : i \in Legs /\ i # l
      BY <2>3, ConvertAssumption DEF Legs
    <3> QED
      BY <2>2, <3>1
  <2>6. leg'[l] = [status |-> Outcome(c), out |-> call[c].out, warned |-> Outcome(c) = "COMPLETED"]
    BY <2>2, <2>3
  <2>7. 1 .. (l + 1) - 1 = (1 .. l - 1) \cup {l}
    BY <2>3 DEF Legs
  <2>8. ~call'[c].failed /\ ~call'[c].warned =>
          \A i \in 1 .. l - 1 : leg'[i].status = "COMPLETED" /\ ~leg'[i].warned
    BY <2>1, <2>2, <2>4, <2>5 DEF Progress
  <2>9. ~call'[c].completed => \A i \in 1 .. l - 1 : leg'[i].status = "FAILED"
    BY <2>1, <2>2, <2>4, <2>5 DEF Progress
  <2>10. /\ ~call'[c].failed /\ ~call'[c].warned => leg'[l].status = "COMPLETED" /\ ~leg'[l].warned
         /\ ~call'[c].completed => leg'[l].status = "FAILED"
    <3>1. leg'[l].status = Outcome(c)
      BY <2>6
    <3>2. CASE Outcome(c) = "COMPLETED"
      <4>1. call'[c].completed = TRUE /\ call'[c].warned = TRUE
        BY <2>4, <3>2
      <4> QED
        BY <4>1
    <3>3. CASE Outcome(c) # "COMPLETED"
      <4>1. Outcome(c) = "FAILED"
        BY <3>3 DEF Outcome
      <4>2. call'[c].failed = TRUE
        BY <2>4, <3>3
      <4> QED
        BY <3>1, <4>1, <4>2
    <3> QED
      BY <3>2, <3>3
  <2> QED
    BY <2>4, <2>7, <2>8, <2>9, <2>10 DEF Progress
<1>14. CASE Finish(c)
  BY <1>14 DEF Finish, Over, Idle, Progress, Running
<1> QED
  BY <1>1, <1>2, <1>3, <1>4, <1>5, <1>6, <1>7, <1>8, <1>9, <1>10, <1>11, <1>12, <1>13, <1>14 DEF ExecuteStep

\* When it ends, the status it leaves is the one its legs call for.
LEMMA ResultStep ==
  ASSUME JointInv, ResultInv, [ConvertNext]_convertVars
  PROVE  ResultInv'
<1> USE DEF sessionVars, legVars, chainVars, historyVars
<1>1. ASSUME NEW c \in Calls, ExecuteStep(c), ~overlapped' PROVE ResultInv'
  <2>1. ~overlapped /\ \A d \in Calls \ {c} : ~Running(d) /\ call'[d] = call[d]
    BY <1>1, Alone DEF JointInv
  <2>2. SettledAsLegs /\ \A x \in Calls : Progress(x)
    BY <2>1 DEF ResultInv
  <2>3. Progress(c)'
    BY <1>1, <2>2, ProgressStep
  <2>4. ASSUME NEW d \in Calls \ {c} PROVE Progress(d)'
    BY <2>1, <2>2 DEF Progress, Running
  <2>5. SettledAsLegs'
    <3>1. CASE status \notin {"none", "PREPARED"}
      <4>1. UNCHANGED <<status, total, leg>>
        BY <2>1, <3>1, FinalStep DEF JointInv
      <4> QED
        BY <2>2, <4>1 DEF SettledAsLegs
    <3>2. CASE status \in {"none", "PREPARED"} /\ Finish(c)
      <4>1. PICK q : q = call[c]
        OBVIOUS
      <4>2. q \in CallRecords /\ ~(q.leg \in Legs) /\ q.leg \in Places /\ q.leg > LegCount
        <5>1. q \in CallRecords
          BY <4>1 DEF JointInv, LegInv, TypeInv, ConvertTypeOK, CallRecords, Places, Positive
        <5>2. q.leg \in Places /\ q.leg > LegCount
          BY <3>2, <4>1, <5>1 DEF Finish, Current, CallRecords
        <5> QED
          BY <5>1, <5>2, ConvertAssumption DEF Places, Legs
      <4>3. 1 .. q.leg - 1 = Legs
        BY <4>2, ConvertAssumption DEF Places, Legs
      <4>4. status' = Result(q) /\ total' = q.total /\ leg' = leg /\ Running(c) /\ q.total \in Nat
        BY <3>2, <4>1, <4>2 DEF Finish, Running, CallRecords
      <4>5. status' = "COMPLETED" => q.completed /\ ~q.failed /\ ~q.warned
        BY <4>4 DEF Result, Warned
      <4>6. status' = "FAILED" => ~q.completed /\ total' = 0
        BY <4>4 DEF Result
      <4> QED
        BY <2>2, <4>1, <4>3, <4>4, <4>5, <4>6 DEF SettledAsLegs, Progress
    <3>3. CASE status \in {"none", "PREPARED"} /\ ~Finish(c)
      <4>1. status' = status \/ status' = "EXPIRED"
        BY <1>1, <3>3
        DEF ExecuteStep, Begin, ExpireSession, CallFails, SkipLeg, ReadPre, SendTransaction, Confirm, Measure,
            LegThrows, Record, MeasureCaught, LogCaught, MarkCaught
      <4> QED
        BY <3>3, <4>1 DEF SettledAsLegs
    <3> QED
      BY <3>1, <3>2, <3>3
  <2> QED
    BY <2>3, <2>4, <2>5 DEF ResultInv
<1>2. ASSUME NEW c \in Calls, ExecuteStep(c), overlapped' PROVE ResultInv'
  BY <1>2 DEF ResultInv
<1>3. CASE Prepare
  BY <1>3 DEF Prepare, ResultInv, SettledAsLegs, Progress, Running
<1>4. CASE UNCHANGED convertVars \/ ReceiveElsewhere \/ SpendElsewhere \/ TimeUp
  BY <1>4 DEF convertVars, ReceiveElsewhere, SpendElsewhere, TimeUp, ResultInv, SettledAsLegs, Progress,
              Running
<1>5. ASSUME NEW l \in Legs, NEW k \in 1 .. TxCount[l], Land(l, k) \/ FailOnChain(l, k) PROVE ResultInv'
  BY <1>5 DEF Land, FailOnChain, ResultInv, SettledAsLegs, Progress, Running
<1> QED
  BY <1>1, <1>2, <1>3, <1>4, <1>5 DEF ConvertNext

-----------------------------------------------------------------------------
(* The credit of a leg, where no two requests overlap and every balance was   *)
(* read: RA received before the leg, less what was spent, is in the balance   *)
(* it began with.                                                             *)

Measured == {"send", "confirm", "measure", "record", "caught"}

\* Nothing credited so far is in what the balance grows by from here on; an output that was
\* worked out is no more than what has been received beyond it.
Credit(c) ==
    LET q == call[c] IN
    /\ q.total <= received
    /\ q.pc \in Measured => SumLegs <= q.pre + spent /\ q.total <= q.pre + spent
    /\ q.pc \in {"record", "log", "mark"} => SumLegs + q.out <= received /\ q.total + q.out <= received

Credited == SumLegs <= received /\ total <= received

CreditInv == \/ overlapped \/ misread
             \/ Credited /\ \A c \in Calls : Running(c) => Credit(c)

\* The sum of the outputs is a number, the same while no leg changes its output, and
\* changes with the one that does.
LEMMA SumLegsIsNat ==
  ASSUME leg \in [Legs -> LegRecords]
  PROVE  SumLegs \in Nat
<1>1. IsFiniteSet(Legs)
  BY ConvertAssumption, FS_Interval DEF Legs
<1>2. PICK f : f = [l \in Legs |-> leg[l].out]
  OBVIOUS
<1>3. \A l \in Legs : f[l] \in Nat
  BY <1>2 DEF LegRecords
<1> QED
  BY <1>1, <1>2, <1>3, SumIsNat DEF SumLegs, SumFunction

\* Legs with the same outputs have the same sum.
LEMMA SameOutputs ==
  ASSUME \A l \in Legs : leg'[l].out = leg[l].out
  PROVE  SumLegs' = SumLegs
<1>1. [l \in Legs |-> leg'[l].out] = [l \in Legs |-> leg[l].out]
  OBVIOUS
<1> QED
  BY <1>1 DEF SumLegs

\* A leg that is credited adds its output to the sum.
LEMMA OneOutput ==
  ASSUME leg \in [Legs -> LegRecords], NEW l \in Legs, NEW r \in LegRecords,
         leg' = [leg EXCEPT ![l] = r]
  PROVE  SumLegs' \in Nat /\ SumLegs' <= SumLegs + r.out
<1>1. IsFiniteSet(Legs)
  BY ConvertAssumption, FS_Interval DEF Legs
<1>2. PICK f : f = [i \in Legs |-> leg[i].out]
  OBVIOUS
<1>3. PICK h : h = [i \in Legs |-> leg'[i].out]
  OBVIOUS
<1>4. /\ f = [i \in Legs |-> f[i]] /\ h = [i \in Legs |-> h[i]]
      /\ \A i \in Legs : f[i] \in Nat /\ h[i] \in Nat
      /\ \A i \in Legs \ {l} : f[i] = h[i]
      /\ h[l] = r.out
  BY <1>2, <1>3 DEF LegRecords
<1>5. \A i \in Legs : f[i] \in Int /\ h[i] \in Int
  BY <1>4
<1>6. SumFunction(h) = SumFunction(f) + (h[l] - f[l]) /\ SumFunction(f) \in Int
  BY <1>1, <1>4, <1>5, WholeSumMoves
<1>7. SumLegs = SumFunction(f) /\ SumLegs' = SumFunction(h)
  BY <1>2, <1>3 DEF SumLegs
<1>8. leg' \in [Legs -> LegRecords]
  OBVIOUS
<1>9. SumFunction(h) \in Nat
  <2>1. SumFunctionOnSet(h, Legs) \in Nat
    BY <1>1, <1>4, SumIsNat
  <2> QED
    BY <1>4, <2>1 DEF SumFunction
<1> QED
  BY <1>4, <1>6, <1>7, <1>9

\* A step of the request that runs keeps the credit within what was received.
LEMMA CreditStep ==
  ASSUME JointInv, NEW c \in Calls, Progress(c), ExecuteStep(c), Credited, Running(c) => Credit(c), ~misread'
  PROVE  Credited' /\ (Running(c) => Credit(c))'
<1>a. /\ call \in [Calls -> CallRecords] /\ \A x \in Calls : call[x] \in CallRecords
      /\ leg \in [Legs -> LegRecords] /\ \A l \in Legs : leg[l] \in LegRecords
      /\ \A x \in Calls : CallKnows(x)
  BY DEF JointInv, LegInv, TypeInv, ConvertTypeOK, CallRecords, Places, Positive, LegRecords
<1>b. /\ received \in Nat /\ spent \in Nat /\ spent <= received /\ total \in Nat /\ SumLegs \in Nat
      /\ \A b \in Readings : b \in Nat
  BY <1>a, SumLegsIsNat DEF JointInv, LegInv, TypeInv, ConvertTypeOK, Sound, Readings, Balance
<1> USE <1>a, <1>b DEF sessionVars, legVars, chainVars, historyVars
<1>1. CASE Begin(c)
  <2>1. SumLegs' = SumLegs /\ received' = received
    BY <1>1, SameOutputs DEF Begin
  <2>2. call[c] = Idle
    BY <1>1 DEF Begin, Progress
  <2>3. call'[c].total = call[c].total /\ call'[c].pc \in {"expiring", "leg"}
    BY <1>1 DEF Begin, CallRecords
  <2>4. call'[c].total = 0
    BY <2>2, <2>3 DEF Idle
  <2> QED
    BY <1>1, <2>1, <2>3, <2>4 DEF Begin, Credited, Credit, Measured
<1>2. CASE ExpireSession(c)
  <2>1. \A l \in Legs : leg'[l].out = leg[l].out
    BY <1>2 DEF ExpireSession, LegRecords
  <2>2. SumLegs' = SumLegs /\ total' = total /\ received' = received
    BY <1>2, <2>1, SameOutputs DEF ExpireSession
  <2>3. ~Running(c)'
    BY <1>2 DEF ExpireSession, Over, Idle, Running
  <2> QED
    BY <2>2, <2>3 DEF Credited
<1>3. CASE CallFails(c)
  <2>1. SumLegs' = SumLegs /\ total' = total /\ received' = received
    BY <1>3, SameOutputs DEF CallFails
  <2>2. ~Running(c)'
    BY <1>3 DEF CallFails, Over, Idle, Running
  <2> QED
    BY <2>1, <2>2 DEF Credited
<1>4. CASE SkipLeg(c)
  <2>1. \A l \in Legs : leg'[l].out = leg[l].out
    BY <1>4 DEF SkipLeg, LegRecords
  <2>2. SumLegs' = SumLegs /\ total' = total /\ received' = received
    BY <1>4, <2>1, SameOutputs DEF SkipLeg
  <2>3. call'[c].total = call[c].total /\ call'[c].pc = "leg" /\ Running(c)
    BY <1>4 DEF SkipLeg, CallRecords, Running
  <2> QED
    BY <2>2, <2>3 DEF Credited, Credit, Measured
<1>5. CASE ReadPre(c)
  <2>1. PICK before \in Readings :
          /\ call' = [call EXCEPT ![c] = [call[c] EXCEPT !.pc = "send", !.tx = 1, !.pre = before, !.sent = FALSE]]
          /\ misread' = (misread \/ before # Balance)
    BY <1>5 DEF ReadPre
  <2>2. before = received - spent
    BY <2>1 DEF Balance
  <2>3. /\ SumLegs' = SumLegs /\ total' = total /\ received' = received /\ spent' = spent
        /\ Running(c)
    BY <1>5, SameOutputs DEF ReadPre, Running
  <2>4. call'[c].pc = "send" /\ call'[c].pre = before /\ call'[c].total = call[c].total
    BY <2>1 DEF CallRecords
  <2> QED
    BY <2>2, <2>3, <2>4 DEF Credited, Credit, Measured
<1>6. CASE SendTransaction(c)
  <2>1. SumLegs' = SumLegs /\ total' = total /\ received' = received /\ spent' = spent
    BY <1>6, SameOutputs DEF SendTransaction
  <2>2. /\ call[c].pc = "send"
        /\ \/ call'[c] = [call[c] EXCEPT !.pc = "confirm", !.sent = TRUE]
           \/ call'[c] = [call[c] EXCEPT !.pc = "caught", !.tx = 1, !.out = 0]
    BY <1>6 DEF SendTransaction, Throw
  <2>3. /\ call[c].pc \in {"send"} /\ call'[c].pc \in {"confirm", "caught"}
        /\ call'[c].pre = call[c].pre /\ call'[c].total = call[c].total
    BY <2>2 DEF CallRecords
  <2> QED
    BY <2>1, <2>3 DEF Credited, Credit, Measured, Running
<1>7. CASE Confirm(c)
  <2>1. SumLegs' = SumLegs /\ total' = total /\ received' = received /\ spent' = spent
    BY <1>7, SameOutputs DEF Confirm
  <2>2. /\ call[c].pc = "confirm"
        /\ \/ call'[c] = [call[c] EXCEPT !.pc = "send", !.tx = call[c].tx + 1]
           \/ call'[c] = [call[c] EXCEPT !.pc = "measure", !.tx = 1]
    BY <1>7 DEF Confirm
  <2>3. /\ call[c].pc \in {"confirm"} /\ call'[c].pc \in {"send", "measure"}
        /\ call'[c].pre = call[c].pre /\ call'[c].total = call[c].total
    BY <2>2 DEF CallRecords
  <2> QED
    BY <2>1, <2>3 DEF Credited, Credit, Measured, Running
<1>8. CASE Measure(c)
  <2>1. SumLegs' = SumLegs /\ total' = total /\ received' = received /\ spent' = spent
    BY <1>8, SameOutputs DEF Measure
  <2>2. PICK after \in Readings : call'[c] = [call[c] EXCEPT !.pc = "record", !.out = Gain(after, call[c].pre)]
    BY <1>8 DEF Measure
  <2>3. PICK out \in Nat : out = Gain(after, call[c].pre)
    BY <1>a, <1>b, GainIsNat DEF CallRecords
  <2>4. call[c].pc = "measure" /\ call[c].pre \in Nat /\ call[c].total \in Nat
    BY <1>8 DEF Measure, CallRecords
  <2>5. SumLegs <= call[c].pre + spent /\ call[c].total <= call[c].pre + spent /\ Credit(c)
    BY <2>4 DEF Credit, Measured, Running
  <2>6. SumLegs + out <= received /\ call[c].total + out <= received
    <3>1. after = received - spent \/ after = 0
      BY DEF Readings, Balance
    <3>2. out = (IF after >= call[c].pre THEN after - call[c].pre ELSE 0)
      BY <1>b, <2>3, <2>4, GainIsNat
    <3>3. call[c].total <= received
      BY <2>5 DEF Credit
    <3> QED
      BY <1>b, <2>4, <2>5, <3>1, <3>2, <3>3 DEF Credited
  <2>7. /\ call'[c].pc = "record" /\ call'[c].out = out /\ call'[c].pre = call[c].pre
        /\ call'[c].total = call[c].total
    BY <2>2, <2>3 DEF CallRecords
  <2> QED
    BY <2>1, <2>4, <2>5, <2>6, <2>7 DEF Credited, Credit, Measured
<1>9. CASE LegThrows(c)
  <2>1. SumLegs' = SumLegs /\ total' = total /\ received' = received /\ spent' = spent
    BY <1>9, SameOutputs DEF LegThrows
  <2>3. /\ call[c].pc \in {"confirm", "record"} /\ call'[c].pc \in {"caught"}
        /\ call'[c].pre = call[c].pre /\ call'[c].total = call[c].total
    BY <1>9 DEF LegThrows, CallRecords, Throw
  <2> QED
    BY <2>1, <2>3 DEF Credited, Credit, Measured, Running
<1>10. CASE Record(c)
  <2>1. PICK r \in LegRecords : r = [status |-> "COMPLETED", out |-> call[c].out, warned |-> FALSE]
    <3>1. call[c].out \in Nat
      BY DEF CallRecords
    <3> QED
      BY <3>1 DEF LegRecords, LegStatuses
  <2>2. call[c].leg \in Legs /\ leg' = [leg EXCEPT ![call[c].leg] = r]
    BY <1>10, <2>1 DEF Record, Current, CallKnows, InLeg
  <2>3. r.out = call[c].out
    BY <2>1
  <2>4. SumLegs' \in Nat /\ SumLegs' <= SumLegs + call[c].out
    BY <2>2, <2>3, OneOutput
  <2>5. total' = total /\ received' = received /\ call[c].pc = "record"
    BY <1>10 DEF Record
  <2>6. /\ SumLegs + call[c].out <= received /\ call[c].total + call[c].out <= received
    BY <2>5 DEF Credit, Running
  <2>7. call'[c].pc = "leg" /\ call'[c].total = call[c].total + call[c].out
    BY <1>10 DEF Record, NextLeg, CallRecords
  <2>8. call[c].out \in Nat
    BY DEF CallRecords
  <2> QED
    BY <1>b, <2>4, <2>5, <2>6, <2>7, <2>8 DEF Credited, Credit, Measured
<1>11. CASE MeasureCaught(c)
  <2>1. SumLegs' = SumLegs /\ total' = total /\ received' = received /\ spent' = spent
    BY <1>11, SameOutputs DEF MeasureCaught
  <2>2. PICK after \in Readings : call'[c] = 
           [call[c] EXCEPT !.pre = 0, !.out = Gain(after, call[c].pre), !.sent = FALSE,
              !.pc = IF call[c].sent \/ Gain(after, call[c].pre) > 0 THEN "log" ELSE "mark"]
    BY <1>11 DEF MeasureCaught
  <2>3. PICK out \in Nat : out = Gain(after, call[c].pre)
    BY <1>a, <1>b, GainIsNat DEF CallRecords
  <2>4. call[c].pc = "caught" /\ call[c].pre \in Nat /\ call[c].total \in Nat
    BY <1>11 DEF MeasureCaught, CallRecords
  <2>5. SumLegs <= call[c].pre + spent /\ call[c].total <= call[c].pre + spent /\ Credit(c)
    BY <2>4 DEF Credit, Measured, Running
  <2>6. SumLegs + out <= received /\ call[c].total + out <= received
    <3>1. after = received - spent \/ after = 0
      BY DEF Readings, Balance
    <3>2. out = (IF after >= call[c].pre THEN after - call[c].pre ELSE 0)
      BY <1>b, <2>3, <2>4, GainIsNat
    <3>3. call[c].total <= received
      BY <2>5 DEF Credit
    <3> QED
      BY <1>b, <2>4, <2>5, <3>1, <3>2, <3>3 DEF Credited
  <2>7. /\ call'[c].pc \in {"log", "mark"} /\ call'[c].out = out
        /\ call'[c].total = call[c].total
    BY <2>2, <2>3 DEF CallRecords
  <2> QED
    BY <2>1, <2>4, <2>5, <2>6, <2>7 DEF Credited, Credit, Measured
<1>12. CASE LogCaught(c)
  <2>1. SumLegs' = SumLegs /\ total' = total /\ received' = received /\ spent' = spent
    BY <1>12, SameOutputs DEF LogCaught
  <2>2. /\ call[c].pc = "log" /\ call'[c].pc = "mark" /\ call'[c].out = call[c].out
        /\ call'[c].total = call[c].total
    BY <1>12 DEF LogCaught, Moves, CallRecords
  <2> QED
    BY <2>1, <2>2 DEF Credited, Credit, Measured, Running
<1>13. CASE MarkCaught(c)
  <2>1. PICK r \in LegRecords : r = [status |-> Outcome(c), out |-> call[c].out, warned |-> Outcome(c) = "COMPLETED"]
    <3>1. call[c].out \in Nat
      BY DEF CallRecords
    <3>2. \A done \in BOOLEAN : [status |-> Outcome(c), out |-> call[c].out, warned |-> done] \in LegRecords
      BY <3>1 DEF LegRecords, LegStatuses, Outcome
    <3> QED
      BY <3>2
  <2>2. call[c].leg \in Legs /\ leg' = [leg EXCEPT ![call[c].leg] = r]
    BY <1>13, <2>1 DEF MarkCaught, Current, CallKnows, InLeg
  <2>3. r.out = call[c].out
    BY <2>1
  <2>4. SumLegs' \in Nat /\ SumLegs' <= SumLegs + call[c].out
    BY <2>2, <2>3, OneOutput
  <2>5. total' = total /\ received' = received /\ call[c].pc = "mark"
    BY <1>13 DEF MarkCaught
  <2>6. /\ SumLegs + call[c].out <= received /\ call[c].total + call[c].out <= received
    BY <2>5 DEF Credit, Running
  <2>7. call'[c].pc = "leg" /\ call'[c].total = call[c].total + call[c].out
    BY <1>13 DEF MarkCaught, NextLeg, CallRecords
  <2>8. call[c].out \in Nat
    BY DEF CallRecords
  <2> QED
    BY <1>b, <2>4, <2>5, <2>6, <2>7, <2>8 DEF Credited, Credit, Measured
<1>14. CASE Finish(c)
  <2>1. SumLegs' = SumLegs /\ total' = call[c].total /\ received' = received
    BY <1>14, SameOutputs DEF Finish
  <2>2. ~Running(c)' /\ Running(c)
    BY <1>14 DEF Finish, Over, Idle, Running
  <2> QED
    BY <2>1, <2>2 DEF Credited, Credit
<1> QED
  BY <1>1, <1>2, <1>3, <1>4, <1>5, <1>6, <1>7, <1>8, <1>9, <1>10, <1>11, <1>12, <1>13, <1>14 DEF ExecuteStep

\* So the credit is kept by every step.
LEMMA CreditInvStep ==
  ASSUME JointInv, ResultInv, CreditInv, [ConvertNext]_convertVars
  PROVE  CreditInv'
<1> USE DEF sessionVars, legVars, chainVars, historyVars
<1>b. received \in Nat /\ spent \in Nat /\ total \in Nat /\ SumLegs \in Nat /\ call \in [Calls -> CallRecords]
  BY SumLegsIsNat
  DEF JointInv, LegInv, TypeInv, ConvertTypeOK, LegRecords, CallRecords, Places, Positive
<1>1. ASSUME NEW c \in Calls, ExecuteStep(c) PROVE CreditInv'
  <2> SUFFICES ASSUME ~overlapped', ~misread' PROVE CreditInv'
    BY DEF CreditInv
  <2>1. ~overlapped /\ \A d \in Calls \ {c} : ~Running(d) /\ call'[d] = call[d]
    BY <1>1, Alone DEF JointInv
  <2>2. ~misread
    BY <1>1 DEF ExecuteStep, Begin, ExpireSession, CallFails, SkipLeg, ReadPre, SendTransaction, Confirm,
                Measure, LegThrows, Record, MeasureCaught, LogCaught, MarkCaught, Finish
  <2>3. Progress(c) /\ Credited /\ (Running(c) => Credit(c))
    BY <2>1, <2>2 DEF ResultInv, CreditInv
  <2>4. Credited' /\ (Running(c) => Credit(c))'
    BY <1>1, <2>3, CreditStep
  <2>5. \A d \in Calls \ {c} : ~Running(d)'
    BY <2>1 DEF Running
  <2> QED
    BY <2>4, <2>5 DEF CreditInv
<1>2. ASSUME UNCHANGED <<leg, total, call, overlapped, misread>>, received' \in Nat, spent' \in Nat,
             received <= received', spent <= spent'
      PROVE  CreditInv'
  <2>1. SumLegs' = SumLegs
    BY <1>2, SameOutputs
  <2>2. Credited => Credited'
    BY <1>b, <1>2, <2>1 DEF Credited
  <2>3. ASSUME NEW c \in Calls, Credit(c) PROVE Credit(c)'
    <3>1. call[c].total \in Nat /\ call[c].pre \in Nat /\ call[c].out \in Nat /\ call'[c] = call[c]
      BY <1>b, <1>2 DEF CallRecords
    <3> QED
      BY <1>b, <1>2, <2>1, <2>3, <3>1 DEF Credit
  <2> QED
    BY <1>2, <2>2, <2>3 DEF CreditInv, Running
<1>3. CASE Prepare
  BY <1>b, <1>2, <1>3 DEF Prepare
<1>4. CASE UNCHANGED convertVars \/ ReceiveElsewhere \/ SpendElsewhere \/ TimeUp
  <2>1. UNCHANGED <<leg, total, call, overlapped, misread>>
    BY <1>4 DEF convertVars, ReceiveElsewhere, SpendElsewhere, TimeUp
  <2>2. /\ received' \in Nat /\ spent' \in Nat /\ received <= received' /\ spent <= spent'
    BY <1>b, <1>4 DEF convertVars, ReceiveElsewhere, SpendElsewhere, TimeUp
  <2> QED
    BY <1>2, <2>1, <2>2
<1>5. ASSUME NEW l \in Legs, NEW k \in 1 .. TxCount[l], Land(l, k) \/ FailOnChain(l, k) PROVE CreditInv'
  BY <1>b, <1>2, <1>5 DEF Land, FailOnChain
<1> QED
  BY <1>1, <1>3, <1>4, <1>5 DEF ConvertNext

\* Where no two execute requests of a session overlap, its status agrees with its legs and,
\* where every balance was read, no RA is credited twice or without having been received;
\* and always a completed leg has swapped and has its activity (executeConversion).
LEMMA SessionAddsUp == ConvertSpec => [](CreditedOnce /\ StatusMatchesLegs)
<1>1. ConvertInit => ResultInv /\ CreditInv
  <2> SUFFICES ASSUME ConvertInit PROVE ResultInv /\ CreditInv
    OBVIOUS
  <2>1. ResultInv
    BY DEF ConvertInit, ResultInv, SettledAsLegs, Progress, Running, Idle
  <2>2. PICK f : f = [l \in Legs |-> leg[l].out]
    OBVIOUS
  <2>3. f = [l \in Legs |-> 0]
    BY <2>2 DEF ConvertInit
  <2>4. SumFunction(f) = 0
    BY <2>3, ConvertAssumption, FS_Interval, SumOfZeros DEF Legs
  <2>5. SumLegs = 0
    BY <2>2, <2>4 DEF SumLegs
  <2>6. CreditInv
    BY <2>5 DEF ConvertInit, CreditInv, Credited, Running, Idle
  <2> QED
    BY <2>1, <2>6
<1>2. JointInv /\ ResultInv /\ CreditInv /\ [ConvertNext]_convertVars => ResultInv' /\ CreditInv'
  BY ResultStep, CreditInvStep
<1>3. JointInv /\ ResultInv /\ CreditInv => CreditedOnce /\ StatusMatchesLegs
  BY DEF JointInv, LegInv, CompletedLegs, ResultInv, SettledAsLegs, CreditInv, Credited, CreditedOnce,
         StatusMatchesLegs
<1>4. ConvertSpec => []JointInv
  BY LegInvariant, RunInvariant, PTL DEF JointInv
<1> QED
  BY <1>1, <1>2, <1>3, <1>4, PTL DEF ConvertSpec

-----------------------------------------------------------------------------
(* What a session is made of.                                              *)

QuoteRecords == [promise : Promises, pool : ConvertPools] \cup {NoQuote}
SwapRecords == [token : Tokens, amount : Amounts, promise : Promises, pool : ConvertPools,
                landed : BOOLEAN, got : Nat]
BuiltLegs == [token : Tokens, amount : 0 .. MaxAmount, quote : QuoteRecords, opens : BOOLEAN,
              swap : SwapIds \cup {0}]
Stages == {"none", "balances", "account", "quoting", "building", "saved"}
RequestRecords ==
    [kind : {"none", "preview", "prepare"}, stage : Stages, asked : Seq(Tokens), pool : ConvertPools,
     amounts : [Tokens -> 0 .. MaxAmount], sol : Nat, needs : BOOLEAN, left : SUBSET Tokens,
     found : [Tokens -> QuoteRecords], legs : Seq(BuiltLegs), landed : SUBSET SwapIds,
     got : [Tokens -> Nat]]

WorldShape ==
    /\ wallet \in [amounts : [Tokens -> 0 .. MaxAmount], opened : BOOLEAN, sol : Nat]
    /\ pool \in ConvertPools /\ market \in [price : 1 .. MaxPrice, via : ConvertPools]
    /\ got \in [Tokens -> Nat] /\ repooled \in BOOLEAN
CacheShape ==
    /\ quotes \in [Tokens -> [Amounts -> QuoteRecords]]
    /\ built \in [Tokens -> [Amounts -> [Promises -> SwapIds \cup {0}]]]
    /\ swaps \in [SwapIds -> SwapRecords \cup {NoSwap}]
RequestShape == request \in [Requests -> RequestRecords]

\* A swap sells what its key says, or what a leg is about.
Sells(s, t, a, p) == s.token = t /\ s.amount = a /\ s.promise = p
CachesTrue ==
    \A t \in Tokens, a \in Amounts, p \in Promises :
        built[t][a][p] # 0 => Sells(swaps[built[t][a][p]], t, a, p)

\* Until something is changed there is one pool.
OnePool ==
    \/ repooled
    \/ /\ pool = FirstPool /\ market.via = FirstPool
       /\ \A t \in Tokens, a \in Amounts : quotes[t][a].pool = FirstPool
       /\ \A j \in SwapIds : swaps[j].pool = FirstPool
       /\ \A r \in Requests : request[r].pool = FirstPool

\* Since a swap was built from the balances, the wallet holds no more than them and what it
\* got; and less the amount, once the swap landed.
SwapsTake ==
    \A j \in SwapIds : LET s == swaps[j] IN
        s # NoSwap => wallet.amounts[s.token] + s.got + (IF s.landed THEN s.amount ELSE 0)
                          <= s.amount + got[s.token]

Distinct(s) == \A i, j \in DOMAIN s : i # j => s[i] # s[j]
PastBalances == {"account", "quoting", "building", "saved"}

\* A request: what was asked for; quotes of a positive amount through its pool; the balances
\* it read, in which every swap that had landed is missing; and legs as they were quoted,
\* with swaps that sell them.
AskedFor(q) == q.kind = "prepare" => q.asked # <<>> /\ Distinct(q.asked)
Quoted(q) ==
    /\ q.stage \in {"none", "balances", "account"} => q.left = {} /\ q.found = [t \in Tokens |-> NoQuote]
    /\ \A t \in q.left : q.amounts[t] \in Amounts
    /\ \A t \in Tokens : q.found[t] # NoQuote => q.found[t].pool = q.pool /\ q.amounts[t] \in Amounts
HasRead(q) ==
    q.stage \in PastBalances =>
        /\ \A t \in Tokens : wallet.amounts[t] + q.got[t] <= q.amounts[t] + got[t]
        /\ \A j \in q.landed : LET s == swaps[j] IN
              s # NoSwap /\ q.amounts[s.token] + s.got <= q.got[s.token]
LegFits(q, i) ==
    LET one == q.legs[i]  t == q.asked[i] IN
    /\ one.token = t /\ one.amount = q.amounts[t] /\ one.opens = q.needs
    /\ one.amount \in Amounts /\ one.quote # NoQuote /\ one.quote.pool = q.pool
    /\ one.swap # 0 => Sells(swaps[one.swap], t, one.amount, one.quote.promise)
    /\ q.stage = "saved" => one.swap # 0
LegsFit(q) ==
    q.stage \in {"building", "saved"} =>
        /\ q.kind = "prepare" /\ Len(q.legs) = Len(q.asked)
        /\ \A i \in DOMAIN q.asked : LegFits(q, i)
Knows(q) == AskedFor(q) /\ Quoted(q) /\ HasRead(q) /\ LegsFit(q)

BuildInv ==
    /\ WorldShape /\ CacheShape /\ RequestShape
    /\ CachesTrue /\ OnePool /\ SwapsTake /\ \A r \in Requests : Knows(request[r])

\* No swap has the shape of one that was built.
LEMMA NoSwapIsNone ==
  /\ NoSwap \notin SwapRecords /\ NoSwap.token = NoToken /\ NoSwap.pool = FirstPool
  /\ \A s \in SwapRecords : s # NoSwap
  BY BuildAssumption DEF NoSwap, SwapRecords

\* A request at rest has the shape of one, and nothing to know.
LEMMA NoRequestKnows == NoRequest \in RequestRecords /\ Knows(NoRequest)
<1>1. NoQuote \in QuoteRecords
  BY DEF QuoteRecords
<1>2. 0 \in 0 .. MaxAmount
  BY BuildAssumption
<1>3. <<>> \in Seq(Tokens) /\ <<>> \in Seq(BuiltLegs)
  OBVIOUS
<1>4. NoRequest \in RequestRecords
  BY <1>1, <1>2, <1>3, BuildAssumption DEF NoRequest, RequestRecords, Stages
<1>5. Knows(NoRequest)
  BY DEF NoRequest, Knows, AskedFor, Quoted, HasRead, LegsFit, PastBalances
<1> QED
  BY <1>4, <1>5

LEMMA InitBuildInv == BuildInit => BuildInv
<1> SUFFICES ASSUME BuildInit PROVE BuildInv
  OBVIOUS
<1> USE DEF BuildInit
<1>1. WorldShape
  <2>1. wallet \in [amounts : [Tokens -> 0 .. MaxAmount], opened : BOOLEAN, sol : Nat]
    <3>1. {0, 1} \subseteq 0 .. MaxAmount
      BY BuildAssumption
    <3>2. wallet.amounts \in [Tokens -> 0 .. MaxAmount]
      BY <3>1
    <3>3. wallet.opened \in BOOLEAN /\ wallet.sol \in Nat
      OBVIOUS
    <3>4. wallet = [amounts |-> wallet.amounts, opened |-> wallet.opened, sol |-> wallet.sol]
      OBVIOUS
    <3> QED
      BY <3>2, <3>3, <3>4
  <2>2. market \in [price : 1 .. MaxPrice, via : ConvertPools]
    BY BuildAssumption
  <2> QED
    BY <2>1, <2>2, BuildAssumption DEF WorldShape
<1>2. CacheShape
  BY DEF CacheShape, QuoteRecords
<1>3. RequestShape
  BY NoRequestKnows DEF RequestShape
<1>4. CachesTrue
  BY DEF CachesTrue
<1>5. OnePool
  BY NoSwapIsNone DEF OnePool, NoQuote, NoRequest
<1>6. SwapsTake
  BY DEF SwapsTake
<1>7. \A r \in Requests : Knows(request[r])
  BY NoRequestKnows
<1> QED
  BY <1>1, <1>2, <1>3, <1>4, <1>5, <1>6, <1>7 DEF BuildInv

-----------------------------------------------------------------------------
\* What a step leaves alone: a swap stays the swap it is, and the wallet gains no more than
\* what it is seen to get.
SwapsStay ==
    \A j \in SwapIds : swaps[j] # NoSwap =>
        /\ swaps'[j] # NoSwap /\ swaps'[j].token = swaps[j].token /\ swaps'[j].amount = swaps[j].amount
        /\ swaps'[j].promise = swaps[j].promise /\ swaps'[j].got = swaps[j].got
NoMoreThanGot ==
    \A t \in Tokens : wallet'.amounts[t] + got[t] <= wallet.amounts[t] + got'[t]

\* What a request knows stays true when other requests, the wallet and the chain go on.
LEMMA StillKnows ==
  ASSUME BuildInv, WorldShape', SwapsStay, NoMoreThanGot, NEW q \in RequestRecords, Knows(q)
  PROVE  Knows(q)'
<1> USE DEF BuildInv
<1>1. HasRead(q)'
  <2> SUFFICES ASSUME q.stage \in PastBalances PROVE HasRead(q)'
    BY DEF HasRead
  <2>1. \A t \in Tokens : wallet.amounts[t] + q.got[t] <= q.amounts[t] + got[t]
    BY DEF Knows, HasRead
  <2>2. ASSUME NEW t \in Tokens PROVE wallet'.amounts[t] + q.got[t] <= q.amounts[t] + got'[t]
    <3>1. wallet.amounts[t] + q.got[t] <= q.amounts[t] + got[t]
      BY <2>1
    <3>2. wallet'.amounts[t] + got[t] <= wallet.amounts[t] + got'[t]
      BY DEF NoMoreThanGot
    <3>3. /\ wallet.amounts[t] \in Nat /\ wallet'.amounts[t] \in Nat /\ got[t] \in Nat /\ got'[t] \in Nat
          /\ q.got[t] \in Nat /\ q.amounts[t] \in Nat
      BY DEF WorldShape, RequestRecords
    <3> QED
      BY <3>1, <3>2, <3>3
  <2>3. ASSUME NEW j \in q.landed
        PROVE  swaps'[j] # NoSwap /\ q.amounts[swaps'[j].token] + swaps'[j].got <= q.got[swaps'[j].token]
    <3>1. j \in SwapIds
      BY DEF RequestRecords
    <3>2. swaps[j] # NoSwap /\ q.amounts[swaps[j].token] + swaps[j].got <= q.got[swaps[j].token]
      BY DEF Knows, HasRead
    <3> QED
      BY <3>1, <3>2 DEF SwapsStay
  <2> QED
    BY <2>2, <2>3 DEF HasRead
<1>2. ASSUME NEW i \in DOMAIN q.asked, q.stage \in {"building", "saved"} PROVE LegFits(q, i)'
  <2>1. LegFits(q, i) /\ Len(q.legs) = Len(q.asked)
    BY <1>2 DEF Knows, LegsFit
  <2>2. q.asked[i] \in Tokens /\ q.legs[i] \in BuiltLegs
    BY <2>1 DEF RequestRecords
  <2>3. ASSUME q.legs[i].swap # 0
        PROVE  Sells(swaps'[q.legs[i].swap], q.asked[i], q.legs[i].amount, q.legs[i].quote.promise)
    <3>1. PICK j : j = q.legs[i].swap
      OBVIOUS
    <3>2. j \in SwapIds /\ Sells(swaps[j], q.asked[i], q.legs[i].amount, q.legs[i].quote.promise)
      BY <2>1, <2>2, <2>3, <3>1 DEF LegFits, BuiltLegs
    <3>3. swaps[j] # NoSwap
      BY <2>2, <3>2, NoSwapIsNone, BuildAssumption DEF Sells
    <3> QED
      BY <3>1, <3>2, <3>3 DEF SwapsStay, Sells
  <2> QED
    BY <2>1, <2>3 DEF LegFits
<1> QED
  BY <1>1, <1>2 DEF Knows, LegsFit, AskedFor, Quoted

\* So a step of one request leaves what the others know.
LEMMA OneRequest ==
  ASSUME BuildInv, WorldShape', SwapsStay, NoMoreThanGot,
         NEW r \in Requests, NEW q \in RequestRecords, request' = [request EXCEPT ![r] = q], Knows(q)'
  PROVE  RequestShape' /\ \A x \in Requests : Knows(request[x])'
<1>1. request \in [Requests -> RequestRecords] /\ \A x \in Requests : Knows(request[x])
  BY DEF BuildInv, RequestShape
<1>2. RequestShape'
  BY <1>1 DEF RequestShape
<1>3. ASSUME NEW x \in Requests \ {r} PROVE Knows(request[x])'
  <2>1. PICK p : p = request[x]
    OBVIOUS
  <2>2. p \in RequestRecords /\ Knows(p) /\ request'[x] = p
    BY <1>1, <2>1
  <2>3. Knows(p)'
    BY <2>2, StillKnows
  <2> QED
    BY <2>2, <2>3
<1>4. request'[r] = q
  BY <1>1
<1> QED
  BY <1>2, <1>3, <1>4

\* Most steps of a request read the world and the caches, and change nothing but it.
LEMMA RequestAlone ==
  ASSUME BuildInv, Caches, UNCHANGED <<wallet, pool, market, got, repooled>>,
         NEW r \in Requests, NEW q \in RequestRecords, Goes(r, q), Knows(q),
         q.pool = request[r].pool \/ q.pool = pool \/ q.pool = FirstPool
  PROVE  BuildInv'
<1> USE DEF Caches
<1>1. WorldShape' /\ CacheShape' /\ CachesTrue' /\ SwapsTake'
  BY DEF BuildInv, WorldShape, CacheShape, CachesTrue, SwapsTake
<1>2. SwapsStay /\ NoMoreThanGot
  <2>1. \A t \in Tokens : wallet.amounts[t] \in Nat /\ got[t] \in Nat
    BY DEF BuildInv, WorldShape
  <2> QED
    BY <2>1 DEF SwapsStay, NoMoreThanGot
<1>3. Knows(q)'
  BY <1>1, <1>2, StillKnows
<1>4. OnePool'
  <2>1. OnePool /\ request \in [Requests -> RequestRecords] /\ request' = [request EXCEPT ![r] = q]
    BY DEF BuildInv, RequestShape, Goes
  <2> QED
    BY <2>1 DEF OnePool
<1>5. RequestShape' /\ \A x \in Requests : Knows(request[x])'
  BY <1>1, <1>2, <1>3, OneRequest DEF Goes
<1> QED
  BY <1>1, <1>4, <1>5 DEF BuildInv

\* A request that ends.
LEMMA GivesUp ==
  ASSUME BuildInv, Caches, UNCHANGED <<wallet, pool, market, got, repooled>>,
         NEW r \in Requests, Goes(r, NoRequest)
  PROVE  BuildInv'
  BY NoRequestKnows, RequestAlone DEF NoRequest

LEMMA BeginKeeps == ASSUME BuildInv, NEW r \in Requests, BeginRequest(r) PROVE BuildInv'
<1>1. pool \in ConvertPools
  BY DEF BuildInv, WorldShape
<1>2. Caches /\ UNCHANGED <<wallet, pool, market, got, repooled>>
  BY DEF BeginRequest, Caches
<1>3. CASE Goes(r, [NoRequest EXCEPT !.kind = "preview", !.stage = "balances", !.pool = pool])
  <2>1. PICK q : q = [NoRequest EXCEPT !.kind = "preview", !.stage = "balances", !.pool = pool]
    OBVIOUS
  <2>2. q \in RequestRecords /\ q.pool = pool
    BY <1>1, <2>1, NoRequestKnows DEF RequestRecords, Stages
  <2>3. Knows(q)
    BY <2>1 DEF Knows, AskedFor, Quoted, HasRead, LegsFit, PastBalances, NoRequest
  <2> QED
    BY <1>2, <1>3, <2>1, <2>2, <2>3, RequestAlone
<1>4. ASSUME NEW wanted \in SUBSET Tokens, wanted # {}, NEW order \in SetToSeqs(wanted),
             Goes(r, [NoRequest EXCEPT !.kind = "prepare", !.stage = "balances", !.pool = pool, !.asked = order])
      PROVE  BuildInv'
  <2>1. PICK q : q = [NoRequest EXCEPT !.kind = "prepare", !.stage = "balances", !.pool = pool, !.asked = order]
    OBVIOUS
  <2>2. PICK n : n = Cardinality(wanted)
    OBVIOUS
  <2>3. n \in Nat /\ n # 0
    BY <1>4, <2>2, BuildAssumption, FS_Subset, FS_EmptySet, FS_CardinalityType
  <2>4. order \in [1 .. n -> wanted] /\ \A i, j \in 1 .. n : i # j => order[i] # order[j]
    BY <2>2 DEF SetToSeqs
  <2>5. order \in Seq(Tokens) /\ order # <<>> /\ Distinct(order)
    BY <2>3, <2>4 DEF Distinct
  <2>6. q \in RequestRecords /\ q.pool = pool
    BY <1>1, <2>1, <2>5, NoRequestKnows DEF RequestRecords, Stages
  <2>7. Knows(q)
    BY <2>1, <2>5 DEF Knows, AskedFor, Quoted, HasRead, LegsFit, PastBalances, NoRequest
  <2> QED
    BY <1>2, <1>4, <2>1, <2>6, <2>7, RequestAlone
<1> QED
  BY <1>3, <1>4 DEF BeginRequest

LEMMA ReadBalancesKeeps == ASSUME BuildInv, NEW r \in Requests, ReadBalances(r) PROVE BuildInv'
<1>1. PICK p : p = request[r]
  OBVIOUS
<1>2. p \in RequestRecords /\ Knows(p) /\ p.stage = "balances"
  BY <1>1 DEF BuildInv, RequestShape, ReadBalances, At
<1>3. PICK q : q = [p EXCEPT !.stage = "account", !.amounts = wallet.amounts, !.sol = wallet.sol,
                       !.landed = Landed, !.got = got]
  OBVIOUS
<1>4. Goes(r, q) /\ Caches /\ UNCHANGED <<wallet, pool, market, got, repooled>>
  BY <1>1, <1>3 DEF ReadBalances, Around
<1>5. q \in RequestRecords /\ q.pool = p.pool
  <2>1. /\ wallet.amounts \in [Tokens -> 0 .. MaxAmount] /\ wallet.sol \in Nat /\ got \in [Tokens -> Nat]
        /\ Landed \in SUBSET SwapIds
    BY DEF BuildInv, WorldShape, Landed
  <2> QED
    BY <1>2, <1>3, <2>1 DEF RequestRecords, Stages
<1>6. /\ q.stage = "account" /\ q.amounts = wallet.amounts /\ q.landed = Landed /\ q.got = got
      /\ q.kind = p.kind /\ q.asked = p.asked /\ q.left = p.left /\ q.found = p.found
  BY <1>2, <1>3 DEF RequestRecords
<1>7. HasRead(q)
  <2>1. \A t \in Tokens : wallet.amounts[t] \in Nat /\ got[t] \in Nat
    BY DEF BuildInv, WorldShape
  <2>2. ASSUME NEW j \in Landed
        PROVE  swaps[j] # NoSwap /\ q.amounts[swaps[j].token] + swaps[j].got <= q.got[swaps[j].token]
    <3>1. j \in SwapIds /\ swaps[j].landed /\ swaps[j] \in SwapRecords \cup {NoSwap}
      BY DEF Landed, BuildInv, CacheShape
    <3>2. swaps[j] # NoSwap
      BY <3>1 DEF NoSwap
    <3>3. PICK s : s = swaps[j]
      OBVIOUS
    <3>4. wallet.amounts[s.token] + s.got + s.amount <= s.amount + got[s.token]
      BY <3>1, <3>2, <3>3 DEF BuildInv, SwapsTake
    <3>5. s.token \in Tokens /\ s.got \in Nat /\ s.amount \in Nat
      BY <3>1, <3>2, <3>3 DEF SwapRecords, Amounts
    <3> QED
      BY <1>6, <2>1, <3>2, <3>3, <3>4, <3>5
  <2> QED
    BY <1>6, <2>1, <2>2 DEF HasRead
<1>8. Knows(q)
  BY <1>2, <1>6, <1>7 DEF Knows, AskedFor, Quoted, LegsFit
<1> QED
  BY <1>1, <1>4, <1>5, <1>8, RequestAlone

LEMMA ReadAccountKeeps == ASSUME BuildInv, NEW r \in Requests, ReadAccount(r) PROVE BuildInv'
<1>1. PICK p : p = request[r]
  OBVIOUS
<1>2. p \in RequestRecords /\ Knows(p) /\ p.stage = "account"
  BY <1>1 DEF BuildInv, RequestShape, ReadAccount, At
<1>3. PICK left : left = {t \in Tokens : p.amounts[t] > 0 /\ (p.kind = "prepare" => Contains(p.asked, t))}
  OBVIOUS
<1>4. PICK q : q = [p EXCEPT !.stage = "quoting", !.needs = ~wallet.opened, !.left = left]
  OBVIOUS
<1>5. Goes(r, q) /\ Caches /\ UNCHANGED <<wallet, pool, market, got, repooled>>
  BY <1>1, <1>3, <1>4 DEF ReadAccount, Around
<1>6. left \in SUBSET Tokens /\ \A t \in left : p.amounts[t] \in Amounts
  BY <1>2, <1>3 DEF RequestRecords, Amounts
<1>7. q \in RequestRecords /\ q.pool = p.pool
  BY <1>2, <1>4, <1>6 DEF RequestRecords, Stages
<1>8. /\ q.stage = "quoting" /\ q.amounts = p.amounts /\ q.landed = p.landed /\ q.got = p.got
      /\ q.kind = p.kind /\ q.asked = p.asked /\ q.left = left /\ q.found = p.found
  BY <1>2, <1>4 DEF RequestRecords
<1>9. Knows(q)
  <2>1. p.found = [t \in Tokens |-> NoQuote]
    BY <1>2 DEF Knows, Quoted
  <2>2. Quoted(q)
    BY <1>6, <1>8, <2>1 DEF Quoted
  <2> QED
    BY <1>2, <1>8, <2>2 DEF Knows, AskedFor, HasRead, LegsFit, PastBalances
<1> QED
  BY <1>1, <1>5, <1>7, <1>9, RequestAlone


-----------------------------------------------------------------------------
\* Quoting.

\* What a quote promises is in its range.
LEMMA ProductIsPromise == ASSUME NEW a \in Amounts, NEW p \in 1 .. MaxPrice PROVE a * p \in Promises
<1>1. a \in Int /\ p \in Int /\ MaxAmount \in Int /\ MaxPrice \in Int
  BY BuildAssumption DEF Amounts
<1>2. a >= 1 /\ p >= 1 /\ a <= MaxAmount /\ p <= MaxPrice
  BY BuildAssumption DEF Amounts
<1>3. (a - 1) * p >= 0 /\ (MaxAmount - a) * p >= 0 /\ MaxAmount * (MaxPrice - p) >= 0
  BY <1>1, <1>2
<1>4. (a - 1) * p = a * p - p /\ (MaxAmount - a) * p = MaxAmount * p - a * p
      /\ MaxAmount * (MaxPrice - p) = MaxAmount * MaxPrice - MaxAmount * p
  BY <1>1
<1>5. a * p \in Int /\ MaxAmount * p \in Int /\ MaxAmount * MaxPrice \in Int
  BY <1>1
<1>6. PICK x, y, z : x = a * p /\ y = MaxAmount * p /\ z = MaxAmount * MaxPrice
  OBVIOUS
<1>7. x \in Int /\ y \in Int /\ z \in Int /\ x - p >= 0 /\ y - x >= 0 /\ z - y >= 0
  BY <1>3, <1>4, <1>5, <1>6
<1>8. x \in 1 .. z
  BY <1>1, <1>2, <1>7
<1> QED
  BY <1>6, <1>8 DEF Promises

\* The request that has seen the quote of a token, or that it has none.
SeenQuote(p, q, t, quote) ==
    /\ q.stage = p.stage /\ q.amounts = p.amounts /\ q.landed = p.landed /\ q.got = p.got
    /\ q.kind = p.kind /\ q.asked = p.asked /\ q.pool = p.pool
    /\ q.left = p.left \ {t} /\ q.found \in {p.found, [p.found EXCEPT ![t] = quote]}

LEMMA QuoteFits ==
  ASSUME NEW p \in RequestRecords, Knows(p), p.stage = "quoting", NEW t \in p.left,
         NEW quote \in QuoteRecords, quote.pool = p.pool, NEW q, SeenQuote(p, q, t, quote)
  PROVE  Knows(q)
<1> USE DEF SeenQuote
<1>1. t \in Tokens /\ p.found \in [Tokens -> QuoteRecords]
  BY DEF RequestRecords
<1>2. Quoted(q)
  <2>1. \A x \in q.left : p.amounts[x] \in Amounts
    BY DEF Knows, Quoted
  <2>2. \A x \in Tokens : p.found[x] # NoQuote => p.found[x].pool = p.pool /\ p.amounts[x] \in Amounts
    BY DEF Knows, Quoted
  <2>3. p.amounts[t] \in Amounts
    BY DEF Knows, Quoted
  <2>4. \A x \in Tokens : q.found[x] # NoQuote => q.found[x].pool = p.pool /\ p.amounts[x] \in Amounts
    BY <1>1, <2>2, <2>3
  <2> QED
    BY <2>1, <2>4 DEF Quoted
<1> QED
  BY <1>2 DEF Knows, AskedFor, HasRead, LegsFit, PastBalances

LEMMA QuoteKeeps == ASSUME BuildInv, NEW r \in Requests, Quote(r) PROVE BuildInv'
<1>1. PICK p : p = request[r]
  OBVIOUS
<1>2. p \in RequestRecords /\ Knows(p) /\ p.stage = "quoting"
  BY <1>1 DEF BuildInv, RequestShape, Quote, At
<1>3. PICK t \in p.left :
        LET amount == p.amounts[t]
            kept == quotes[t][amount]
            fetched == [promise |-> amount * market.price, pool |-> market.via]
            Found(quote) == IF quote.pool = p.pool
                   THEN Goes(r, [p EXCEPT !.left = @ \ {t}, !.found[t] = quote])
                   ELSE Goes(r, [p EXCEPT !.left = @ \ {t}])
        IN \/ kept # NoQuote /\ Found(kept) /\ UNCHANGED quotes
           \/ /\ kept = NoQuote /\ Found(fetched)
              /\ quotes' = IF fetched.pool = p.pool THEN [quotes EXCEPT ![t][amount] = fetched]
                                                    ELSE quotes
           \/ kept = NoQuote /\ Goes(r, [p EXCEPT !.left = @ \ {t}]) /\ UNCHANGED quotes
  BY <1>1 DEF Quote, Policy
<1>4. t \in Tokens /\ p.amounts[t] \in Amounts /\ p.pool \in ConvertPools
  BY <1>2 DEF RequestRecords, Knows, Quoted
<1>5. PICK amount \in Amounts : amount = p.amounts[t]
  BY <1>4
<1>6. PICK fetched : fetched = [promise |-> amount * market.price, pool |-> market.via]
  OBVIOUS
<1>7. fetched \in QuoteRecords
  <2>1. market.price \in 1 .. MaxPrice /\ market.via \in ConvertPools
    BY DEF BuildInv, WorldShape
  <2>2. amount * market.price \in Promises
    BY <2>1, ProductIsPromise
  <2> QED
    BY <1>6, <2>1, <2>2 DEF QuoteRecords
<1>8. UNCHANGED <<built, swaps, wallet, pool, market, got, repooled>>
  BY DEF Quote, Around
<1>9. PICK kept : kept = quotes[t][amount]
  OBVIOUS
<1>10. kept \in QuoteRecords
  BY <1>4, <1>9 DEF BuildInv, CacheShape
<1>11. CASE UNCHANGED quotes
  <2>1. Caches
    BY <1>8, <1>11 DEF Caches
  <2>2. PICK quote \in QuoteRecords :
          \/ quote.pool = p.pool /\ Goes(r, [p EXCEPT !.left = @ \ {t}, !.found[t] = quote])
          \/ Goes(r, [p EXCEPT !.left = @ \ {t}])
    BY <1>3, <1>5, <1>6, <1>7, <1>9, <1>10
  <2>3. CASE quote.pool = p.pool /\ Goes(r, [p EXCEPT !.left = @ \ {t}, !.found[t] = quote])
    <3>1. PICK q : q = [p EXCEPT !.left = @ \ {t}, !.found[t] = quote]
      OBVIOUS
    <3>2. q \in RequestRecords /\ SeenQuote(p, q, t, quote)
      BY <1>2, <3>1 DEF RequestRecords, SeenQuote
    <3>3. q.pool = p.pool
      BY <3>2 DEF SeenQuote
    <3>4. Knows(q)
      BY <1>2, <2>3, <3>2, QuoteFits
    <3> QED
      BY <1>1, <1>8, <2>1, <2>3, <3>1, <3>2, <3>3, <3>4, RequestAlone
  <2>4. CASE Goes(r, [p EXCEPT !.left = @ \ {t}])
    <3>1. PICK q : q = [p EXCEPT !.left = @ \ {t}]
      OBVIOUS
    <3>2. PICK some : some = [promise |-> 1, pool |-> p.pool]
      OBVIOUS
    <3>3. some \in QuoteRecords /\ some.pool = p.pool
      <4>1. 1 \in Amounts /\ 1 \in 1 .. MaxPrice
        BY BuildAssumption DEF Amounts
      <4>2. 1 * 1 \in Promises
        BY <4>1, ProductIsPromise
      <4> QED
        BY <1>4, <3>2, <4>2 DEF QuoteRecords
    <3>4. q \in RequestRecords /\ SeenQuote(p, q, t, some)
      BY <1>2, <3>1 DEF RequestRecords, SeenQuote
    <3>5. q.pool = p.pool
      BY <3>4 DEF SeenQuote
    <3>6. Knows(q)
      BY <1>2, <3>3, <3>4, QuoteFits
    <3> QED
      BY <1>1, <1>8, <2>1, <2>4, <3>1, <3>4, <3>5, <3>6, RequestAlone
  <2> QED
    BY <2>2, <2>3, <2>4
<1>12. CASE /\ fetched.pool = p.pool /\ quotes' = [quotes EXCEPT ![t][amount] = fetched]
            /\ Goes(r, [p EXCEPT !.left = @ \ {t}, !.found[t] = fetched])
  <2>1. PICK q : q = [p EXCEPT !.left = @ \ {t}, !.found[t] = fetched]
    OBVIOUS
  <2>2. q \in RequestRecords /\ Knows(q) /\ q.pool = p.pool
    <3>1. q \in RequestRecords /\ SeenQuote(p, q, t, fetched)
      BY <1>2, <1>7, <2>1 DEF RequestRecords, SeenQuote
    <3>2. q.pool = p.pool
      BY <3>1 DEF SeenQuote
    <3>3. Knows(q)
      BY <1>2, <1>7, <1>12, <3>1, QuoteFits
    <3> QED
      BY <3>1, <3>2, <3>3
  <2>3. /\ quotes' \in [Tokens -> [Amounts -> QuoteRecords]]
        /\ \A x \in Tokens, a \in Amounts : quotes'[x][a] = quotes[x][a] \/ quotes'[x][a] = fetched
    <3>1. quotes \in [Tokens -> [Amounts -> QuoteRecords]]
      BY DEF BuildInv, CacheShape
    <3> QED
      BY <1>4, <1>7, <1>12, <3>1
  <2>4. WorldShape' /\ CacheShape' /\ CachesTrue' /\ SwapsTake'
    BY <1>8, <2>3 DEF BuildInv, WorldShape, CacheShape, CachesTrue, SwapsTake
  <2>5. SwapsStay /\ NoMoreThanGot
    <3>1. \A x \in Tokens : wallet.amounts[x] \in Nat /\ got[x] \in Nat
      BY DEF BuildInv, WorldShape
    <3> QED
      BY <1>8, <3>1 DEF SwapsStay, NoMoreThanGot
  <2>6. OnePool'
    <3>1. OnePool /\ request \in [Requests -> RequestRecords] /\ request' = [request EXCEPT ![r] = q]
      BY <1>12, <2>1 DEF BuildInv, RequestShape, Goes
    <3>2. fetched.pool = market.via
      BY <1>6
    <3> QED
      BY <1>1, <1>8, <2>2, <2>3, <3>1, <3>2 DEF OnePool
  <2>7. Knows(q)'
    BY <2>2, <2>4, <2>5, StillKnows
  <2>8. RequestShape' /\ \A x \in Requests : Knows(request[x])'
    BY <1>12, <2>1, <2>2, <2>4, <2>5, <2>7, OneRequest DEF Goes
  <2> QED
    BY <2>4, <2>6, <2>8 DEF BuildInv
<1> QED
  BY <1>3, <1>5, <1>6, <1>11, <1>12

-----------------------------------------------------------------------------
\* The legs, and the transactions they get.

\* A request is replaced, and what it had read stays true.
LEMMA RequestMoves ==
  ASSUME BuildInv, WorldShape', CacheShape', CachesTrue', OnePool', SwapsTake', SwapsStay, NoMoreThanGot,
         NEW r \in Requests, NEW q \in RequestRecords, Goes(r, q), Knows(q)'
  PROVE  BuildInv'
  BY OneRequest DEF BuildInv, Goes

LEMMA BeginLegsKeeps == ASSUME BuildInv, NEW r \in Requests, BeginLegs(r) PROVE BuildInv'
<1>1. PICK p : p = request[r]
  OBVIOUS
<1>2. p \in RequestRecords /\ Knows(p) /\ p.stage = "quoting"
  BY <1>1 DEF BuildInv, RequestShape, BeginLegs, At
<1>3. Caches /\ UNCHANGED <<wallet, pool, market, got, repooled>>
  BY DEF BeginLegs, Around
<1>4. CASE Goes(r, NoRequest)
  BY <1>3, <1>4, GivesUp
<1>5. PICK legs : legs = [i \in DOMAIN p.asked |->
                            [token |-> p.asked[i], amount |-> p.amounts[p.asked[i]],
                             quote |-> p.found[p.asked[i]], opens |-> p.needs, swap |-> 0]]
  OBVIOUS
<1>6. CASE p.kind = "prepare" /\ ToSet(p.asked) \subseteq Candidates(p)
           /\ Goes(r, [p EXCEPT !.stage = "building", !.legs = legs])
  <2>1. PICK q : q = [p EXCEPT !.stage = "building", !.legs = legs]
    OBVIOUS
  <2>2. PICK n \in Nat : n = Len(p.asked) /\ DOMAIN p.asked = 1 .. n
    BY <1>2 DEF RequestRecords
  <2>3. ASSUME NEW i \in 1 .. n
        PROVE  /\ p.asked[i] \in Tokens /\ p.found[p.asked[i]] # NoQuote /\ legs[i] \in BuiltLegs
               /\ legs[i].token = p.asked[i] /\ legs[i].amount = p.amounts[p.asked[i]]
               /\ legs[i].quote = p.found[p.asked[i]] /\ legs[i].opens = p.needs /\ legs[i].swap = 0
    <3>1. p.asked[i] \in Tokens
      BY <1>2, <2>2, <2>3 DEF RequestRecords
    <3>2. p.found[p.asked[i]] # NoQuote
      BY <1>6, <2>2, <2>3 DEF ToSet, Candidates
    <3>3. legs[i] = [token |-> p.asked[i], amount |-> p.amounts[p.asked[i]],
                     quote |-> p.found[p.asked[i]], opens |-> p.needs, swap |-> 0]
      BY <1>5, <2>2
    <3>4. /\ p.amounts[p.asked[i]] \in 0 .. MaxAmount /\ p.found[p.asked[i]] \in QuoteRecords
          /\ p.needs \in BOOLEAN
      BY <1>2, <3>1 DEF RequestRecords
    <3>5. legs[i] \in BuiltLegs
      BY <3>1, <3>3, <3>4 DEF BuiltLegs
    <3> QED
      BY <3>1, <3>2, <3>3, <3>5
  <2>4. legs \in Seq(BuiltLegs) /\ Len(legs) = n
    <3>1. legs \in [1 .. n -> BuiltLegs]
      BY <1>5, <2>2, <2>3
    <3> QED
      BY <3>1
  <2>5. q \in RequestRecords
    BY <1>2, <2>1, <2>4 DEF RequestRecords, Stages
  <2>6. /\ q.stage = "building" /\ q.amounts = p.amounts /\ q.landed = p.landed /\ q.got = p.got
        /\ q.kind = p.kind /\ q.asked = p.asked /\ q.left = p.left /\ q.found = p.found /\ q.pool = p.pool
        /\ q.legs = legs /\ q.needs = p.needs
    BY <1>2, <2>1 DEF RequestRecords
  <2>7. ASSUME NEW i \in 1 .. n PROVE LegFits(q, i)
    <3>1. \A t \in Tokens : p.found[t] # NoQuote => p.found[t].pool = p.pool /\ p.amounts[t] \in Amounts
      BY <1>2 DEF Knows, Quoted
    <3> QED
      BY <2>3, <2>6, <3>1 DEF LegFits
  <2>8. LegsFit(q)
    BY <1>6, <2>2, <2>4, <2>6, <2>7 DEF LegsFit
  <2>9. Knows(q)
    BY <1>2, <2>6, <2>8 DEF Knows, AskedFor, Quoted, HasRead, PastBalances
  <2> QED
    BY <1>1, <1>3, <1>6, <2>1, <2>5, <2>6, <2>9, RequestAlone
<1> QED
  <2>1. \/ Goes(r, NoRequest)
        \/ p.kind = "prepare" /\ ToSet(p.asked) \subseteq Candidates(p)
           /\ Goes(r, [p EXCEPT !.stage = "building",
                 !.legs = [i \in DOMAIN p.asked |->
                            [token |-> p.asked[i], amount |-> p.amounts[p.asked[i]],
                             quote |-> p.found[p.asked[i]], opens |-> p.needs, swap |-> 0]]])
    BY <1>1 DEF BeginLegs, Opens
  <2> QED
    BY <1>4, <1>5, <1>6, <2>1

\* A leg that gets a swap which sells what it is about.
LEMMA LegGetsSwap ==
  ASSUME BuildInv, NEW p \in RequestRecords, Knows(p)', p.stage = "building", NEW i \in DOMAIN p.legs,
         NEW j \in SwapIds, Sells(swaps'[j], p.legs[i].token, p.legs[i].amount, p.legs[i].quote.promise),
         NEW q, q = [p EXCEPT !.legs[i].swap = j]
  PROVE  q \in RequestRecords /\ q.pool = p.pool /\ Knows(q)'
<1>1. PICK item \in BuiltLegs : item = p.legs[i]
  BY DEF RequestRecords
<1>2. PICK one : one = [item EXCEPT !.swap = j]
  OBVIOUS
<1>3. one \in BuiltLegs
  BY <1>1, <1>2 DEF BuiltLegs
<1>4. one.token = item.token /\ one.amount = item.amount /\ one.quote = item.quote /\ one.opens = item.opens
      /\ one.swap = j
  BY <1>1, <1>2 DEF BuiltLegs
<1>5. PICK legs : legs = [p.legs EXCEPT ![i] = one]
  OBVIOUS
<1>6. PICK n \in Nat : n = Len(p.asked) /\ DOMAIN p.asked = 1 .. n
  <2>1. p.asked \in Seq(Tokens)
    BY DEF RequestRecords
  <2> QED
    BY <2>1
<1>7. Len(p.legs) = n /\ DOMAIN p.legs = 1 .. n /\ p.legs \in [1 .. n -> BuiltLegs]
  BY <1>6 DEF RequestRecords, Knows, LegsFit
<1>8. legs \in Seq(BuiltLegs) /\ Len(legs) = n /\ legs[i] = one /\ \A k \in 1 .. n : k # i => legs[k] = p.legs[k]
  <2>1. legs \in [1 .. n -> BuiltLegs]
    BY <1>3, <1>5, <1>7
  <2> QED
    BY <1>5, <1>7, <2>1
<1>9. q = [p EXCEPT !.legs = legs]
  BY <1>1, <1>2, <1>5
<1>10. q \in RequestRecords
  BY <1>8, <1>9 DEF RequestRecords
<1>11. /\ q.stage = "building" /\ q.amounts = p.amounts /\ q.landed = p.landed /\ q.got = p.got
       /\ q.kind = p.kind /\ q.asked = p.asked /\ q.left = p.left /\ q.found = p.found /\ q.pool = p.pool
       /\ q.legs = legs /\ q.needs = p.needs
  BY <1>9 DEF RequestRecords
<1>12. ASSUME NEW k \in 1 .. n PROVE LegFits(q, k)'
  <2>1. LegFits(p, k)'
    BY <1>6 DEF Knows, LegsFit
  <2>2. CASE k = i
    BY <1>1, <1>4, <1>8, <1>11, <2>1, <2>2 DEF LegFits
  <2>3. CASE k # i
    BY <1>8, <1>11, <2>1, <2>3 DEF LegFits
  <2> QED
    BY <2>2, <2>3
<1>13. LegsFit(q)'
  BY <1>6, <1>8, <1>11, <1>12 DEF LegsFit, Knows
<1>14. Knows(q)'
  BY <1>11, <1>13 DEF Knows, AskedFor, Quoted, HasRead, PastBalances
<1> QED
  BY <1>10, <1>11, <1>14

LEMMA BuildLegKeeps == ASSUME BuildInv, NEW r \in Requests, BuildLeg(r) PROVE BuildInv'
<1>1. PICK p : p = request[r]
  OBVIOUS
<1>2. p \in RequestRecords /\ Knows(p) /\ p.stage = "building"
  BY <1>1 DEF BuildInv, RequestShape, BuildLeg, At
<1>3. UNCHANGED <<quotes, wallet, pool, market, got, repooled>>
  BY DEF BuildLeg, Around
<1>4. WorldShape' /\ NoMoreThanGot
  <2>1. \A t \in Tokens : wallet.amounts[t] \in Nat /\ got[t] \in Nat
    BY DEF BuildInv, WorldShape
  <2> QED
    BY <1>3, <2>1 DEF BuildInv, WorldShape, NoMoreThanGot
<1>5. PICK i \in DOMAIN p.legs : LET item == p.legs[i]
                                     free == {j \in SwapIds : swaps[j] = NoSwap} IN
        \/ /\ KeptSwap(item) # 0 /\ Goes(r, [p EXCEPT !.legs[i].swap = KeptSwap(item)])
           /\ UNCHANGED <<built, swaps>>
        \/ \E j \in free :
             /\ swaps' = [swaps EXCEPT ![j] = [NoSwap EXCEPT !.token = item.token,
                   !.amount = item.amount, !.promise = item.quote.promise,
                   !.pool = item.quote.pool, !.got = p.got[item.token]]]
             /\ built' = [built EXCEPT ![item.token][item.amount][item.quote.promise] = j]
             /\ Goes(r, [p EXCEPT !.legs[i].swap = j])
  BY <1>1 DEF BuildLeg
<1>6. PICK item : item = p.legs[i]
  OBVIOUS
<1>7. /\ item \in BuiltLegs /\ LegFits(p, i) /\ p.asked[i] \in Tokens
  <2>1. p.asked \in Seq(Tokens) /\ p.legs \in Seq(BuiltLegs)
    BY <1>2 DEF RequestRecords
  <2>2. Len(p.legs) = Len(p.asked) /\ \A k \in DOMAIN p.asked : LegFits(p, k)
    BY <1>2 DEF Knows, LegsFit
  <2> QED
    BY <1>6, <2>1, <2>2
<1>8. PICK t \in Tokens, a \in Amounts, m \in Promises :
        /\ item.token = t /\ item.amount = a /\ item.quote.promise = m /\ item.quote.pool = p.pool
        /\ t = p.asked[i] /\ a = p.amounts[t]
  <2>1. /\ item.token = p.asked[i] /\ item.amount = p.amounts[p.asked[i]] /\ item.amount \in Amounts
        /\ item.quote # NoQuote /\ item.quote.pool = p.pool
    BY <1>6, <1>7 DEF LegFits
  <2>2. item.quote \in QuoteRecords
    BY <1>7 DEF BuiltLegs
  <2>3. item.quote.promise \in Promises
    BY <2>1, <2>2 DEF QuoteRecords
  <2> QED
    BY <1>7, <2>1, <2>3
<1>9. CASE KeptSwap(item) # 0 /\ Goes(r, [p EXCEPT !.legs[i].swap = KeptSwap(item)]) /\ UNCHANGED <<built, swaps>>
  <2>1. PICK j : j = KeptSwap(item)
    OBVIOUS
  <2>2. j = built[t][a][m] /\ j \in SwapIds
    <3>1. j = built[t][a][m]
      BY <1>8, <2>1 DEF KeptSwap
    <3>2. built[t][a][m] \in SwapIds \cup {0}
      BY DEF BuildInv, CacheShape
    <3> QED
      BY <1>9, <2>1, <3>1, <3>2
  <2>3. Sells(swaps[j], t, a, m)
    BY <1>9, <2>1, <2>2 DEF BuildInv, CachesTrue
  <2>4. Sells(swaps'[j], p.legs[i].token, p.legs[i].amount, p.legs[i].quote.promise)
    BY <1>6, <1>8, <1>9, <2>3
  <2>5. PICK q : q = [p EXCEPT !.legs[i].swap = j]
    OBVIOUS
  <2>6. CacheShape' /\ CachesTrue' /\ SwapsTake' /\ SwapsStay
    BY <1>3, <1>9 DEF BuildInv, CacheShape, CachesTrue, SwapsTake, SwapsStay
  <2>7. Knows(p)'
    BY <1>2, <1>4, <2>6, StillKnows
  <2>8. q \in RequestRecords /\ q.pool = p.pool /\ Knows(q)'
    BY <1>2, <2>2, <2>4, <2>5, <2>7, LegGetsSwap
  <2>9. OnePool'
    <3>1. OnePool /\ request \in [Requests -> RequestRecords] /\ request' = [request EXCEPT ![r] = q]
      BY <1>9, <2>1, <2>5 DEF BuildInv, RequestShape, Goes
    <3> QED
      BY <1>1, <1>3, <1>9, <2>8, <3>1 DEF OnePool
  <2> QED
    BY <1>4, <1>9, <2>1, <2>5, <2>6, <2>8, <2>9, RequestMoves
<1>10. ASSUME NEW j \in SwapIds, swaps[j] = NoSwap, NEW s,
              s = [NoSwap EXCEPT !.token = item.token, !.amount = item.amount, !.promise = item.quote.promise,
                      !.pool = item.quote.pool, !.got = p.got[item.token]],
              swaps' = [swaps EXCEPT ![j] = s],
              built' = [built EXCEPT ![item.token][item.amount][item.quote.promise] = j],
              Goes(r, [p EXCEPT !.legs[i].swap = j])
       PROVE  BuildInv'
  <2>1. /\ s.token = t /\ s.amount = a /\ s.promise = m /\ s.pool = p.pool /\ s.got = p.got[t]
        /\ s.landed = FALSE /\ s \in SwapRecords
    <3>1. p.got[t] \in Nat /\ p.pool \in ConvertPools
      BY <1>2 DEF RequestRecords
    <3>2. s = [token |-> t, amount |-> a, promise |-> m, pool |-> p.pool, landed |-> FALSE, got |-> p.got[t]]
      BY <1>8, <1>10 DEF NoSwap
    <3> QED
      BY <3>1, <3>2 DEF SwapRecords
  <2>2. swaps \in [SwapIds -> SwapRecords \cup {NoSwap}]
    BY DEF BuildInv, CacheShape
  <2>3. swaps'[j] = s /\ \A k \in SwapIds : k # j => swaps'[k] = swaps[k]
    BY <1>10, <2>2
  <2>4. /\ built' \in [Tokens -> [Amounts -> [Promises -> SwapIds \cup {0}]]] /\ built'[t][a][m] = j
        /\ \A x \in Tokens, y \in Amounts, z \in Promises : <<x, y, z>> # <<t, a, m>> => built'[x][y][z] = built[x][y][z]
    <3>1. built \in [Tokens -> [Amounts -> [Promises -> SwapIds \cup {0}]]]
      BY DEF BuildInv, CacheShape
    <3>2. built' = [built EXCEPT ![t][a][m] = j]
      BY <1>8, <1>10
    <3> QED
      BY <3>1, <3>2
  <2>5. CacheShape'
    BY <1>3, <2>1, <2>2, <2>4, <1>10 DEF BuildInv, CacheShape
  <2>6. SwapsStay
    BY <1>10, <2>3 DEF SwapsStay
  <2>7. CachesTrue'
    <3>1. ASSUME NEW x \in Tokens, NEW y \in Amounts, NEW z \in Promises, built'[x][y][z] # 0
          PROVE  Sells(swaps'[built'[x][y][z]], x, y, z)
      <4>1. CASE <<x, y, z>> = <<t, a, m>>
        BY <2>1, <2>3, <2>4, <4>1 DEF Sells
      <4>2. CASE <<x, y, z>> # <<t, a, m>>
        <5>1. PICK k : k = built[x][y][z]
          OBVIOUS
        <5>2. built'[x][y][z] = k /\ k \in SwapIds
          BY <2>4, <3>1, <4>2, <5>1
        <5>3. Sells(swaps[k], x, y, z)
          BY <3>1, <5>1, <5>2 DEF BuildInv, CachesTrue
        <5>4. k # j
          BY <1>10, <5>3, NoSwapIsNone, BuildAssumption DEF Sells
        <5> QED
          BY <2>3, <5>2, <5>3, <5>4
      <4> QED
        BY <4>1, <4>2
    <3> QED
      BY <3>1 DEF CachesTrue
  <2>8. SwapsTake'
    <3>1. wallet.amounts[t] + p.got[t] <= p.amounts[t] + got[t]
      BY <1>2 DEF Knows, HasRead, PastBalances
    <3>2. wallet.amounts[t] \in Nat /\ p.got[t] \in Nat /\ got[t] \in Nat /\ a \in Nat
      BY <1>2 DEF BuildInv, WorldShape, RequestRecords, Amounts
    <3>3. wallet.amounts[t] + p.got[t] + 0 <= a + got[t]
      BY <1>8, <3>1, <3>2
    <3>4. wallet.amounts[s.token] + s.got + (IF s.landed THEN s.amount ELSE 0) <= s.amount + got[s.token]
      BY <2>1, <3>3
    <3>5. ASSUME NEW k \in SwapIds, k # j, swaps[k] # NoSwap
          PROVE  wallet.amounts[swaps[k].token] + swaps[k].got + (IF swaps[k].landed THEN swaps[k].amount ELSE 0)
                   <= swaps[k].amount + got[swaps[k].token]
      BY <3>5 DEF BuildInv, SwapsTake
    <3> QED
      BY <1>3, <2>3, <3>4, <3>5 DEF SwapsTake
  <2>9. Sells(swaps'[j], p.legs[i].token, p.legs[i].amount, p.legs[i].quote.promise)
    BY <1>6, <1>8, <2>1, <2>3 DEF Sells
  <2>10. PICK q : q = [p EXCEPT !.legs[i].swap = j]
    OBVIOUS
  <2>11. Knows(p)'
    BY <1>2, <1>4, <2>6, StillKnows
  <2>12. q \in RequestRecords /\ q.pool = p.pool /\ Knows(q)'
    BY <1>2, <2>9, <2>10, <2>11, LegGetsSwap
  <2>13. OnePool'
    <3>1. OnePool /\ request \in [Requests -> RequestRecords] /\ request' = [request EXCEPT ![r] = q]
      BY <1>10, <2>10 DEF BuildInv, RequestShape, Goes
    <3> QED
      BY <1>1, <1>3, <2>1, <2>3, <2>12, <3>1 DEF OnePool
  <2> QED
    BY <1>4, <1>10, <2>5, <2>6, <2>7, <2>8, <2>10, <2>12, <2>13, RequestMoves
<1> QED
  BY <1>5, <1>6, <1>9, <1>10

LEMMA SaveKeeps == ASSUME BuildInv, NEW r \in Requests, Save(r) PROVE BuildInv'
<1>1. PICK p : p = request[r]
  OBVIOUS
<1>2. p \in RequestRecords /\ Knows(p) /\ p.stage = "building"
  BY <1>1 DEF BuildInv, RequestShape, Save, At
<1>3. PICK q : q = [p EXCEPT !.stage = "saved"]
  OBVIOUS
<1>4. Goes(r, q) /\ Caches /\ UNCHANGED <<wallet, pool, market, got, repooled>>
  BY <1>1, <1>3 DEF Save, Around
<1>5. q \in RequestRecords /\ q.pool = p.pool
  BY <1>2, <1>3 DEF RequestRecords, Stages
<1>6. /\ q.stage = "saved" /\ q.amounts = p.amounts /\ q.landed = p.landed /\ q.got = p.got
      /\ q.kind = p.kind /\ q.asked = p.asked /\ q.left = p.left /\ q.found = p.found /\ q.legs = p.legs
      /\ q.needs = p.needs
  BY <1>2, <1>3 DEF RequestRecords
<1>7. LegsFit(q)
  <2>1. p.asked \in Seq(Tokens) /\ p.legs \in Seq(BuiltLegs)
    BY <1>2 DEF RequestRecords
  <2>2. p.kind = "prepare" /\ Len(p.legs) = Len(p.asked) /\ \A k \in DOMAIN p.asked : LegFits(p, k)
    BY <1>2 DEF Knows, LegsFit
  <2>3. \A k \in DOMAIN p.asked : p.legs[k].swap # 0
    BY <1>1, <2>1, <2>2 DEF Save
  <2> QED
    BY <1>5, <1>6, <2>2, <2>3 DEF LegsFit, LegFits
<1>8. Knows(q)
  BY <1>2, <1>6, <1>5, <1>7 DEF Knows, AskedFor, Quoted, HasRead, PastBalances
<1> QED
  BY <1>1, <1>4, <1>5, <1>8, RequestAlone

-----------------------------------------------------------------------------
\* Meanwhile: the requests stay as they are.
LEMMA RequestsStay ==
  ASSUME BuildInv, WorldShape', CacheShape', CachesTrue', OnePool', SwapsTake', SwapsStay, NoMoreThanGot,
         UNCHANGED request
  PROVE  BuildInv'
<1>1. ASSUME NEW x \in Requests PROVE Knows(request[x])'
  <2>1. PICK p : p = request[x]
    OBVIOUS
  <2>2. p \in RequestRecords /\ Knows(p) /\ request'[x] = p
    BY <2>1 DEF BuildInv, RequestShape
  <2>3. Knows(p)'
    BY <2>2, StillKnows
  <2> QED
    BY <2>2, <2>3
<1> QED
  BY <1>1 DEF BuildInv, RequestShape

LEMMA SwapLandsKeeps == ASSUME BuildInv, SwapLands PROVE BuildInv'
<1>1. UNCHANGED <<pool, market, quotes, built, request, got, repooled>>
  BY DEF SwapLands
<1>2. PICK j \in SwapIds : /\ ~swaps[j].landed /\ swaps[j] # NoSwap
        /\ wallet.amounts[swaps[j].token] >= swaps[j].amount
        /\ swaps' = [swaps EXCEPT ![j].landed = TRUE]
        /\ wallet' = [wallet EXCEPT !.amounts[swaps[j].token] = @ - swaps[j].amount]
  BY DEF SwapLands, Landed
<1>3. PICK s : s = swaps[j]
  OBVIOUS
<1>4. swaps \in [SwapIds -> SwapRecords \cup {NoSwap}]
  BY DEF BuildInv, CacheShape
<1>5. s \in SwapRecords
  BY <1>2, <1>3, <1>4
<1>6. PICK one : one = [s EXCEPT !.landed = TRUE]
  OBVIOUS
<1>7. /\ one \in SwapRecords /\ one.token = s.token /\ one.amount = s.amount /\ one.promise = s.promise
      /\ one.pool = s.pool /\ one.got = s.got
  BY <1>5, <1>6 DEF SwapRecords
<1>8. one.landed = TRUE
  BY <1>5, <1>6 DEF SwapRecords
<1>9. swaps'[j] = one /\ \A k \in SwapIds : k # j => swaps'[k] = swaps[k]
  BY <1>2, <1>3, <1>4, <1>6
<1>10. PICK t \in Tokens, a \in Nat : t = s.token /\ a = s.amount
  BY <1>5 DEF SwapRecords, Amounts
<1>11. /\ wallet'.amounts \in [Tokens -> 0 .. MaxAmount] /\ wallet'.amounts[t] = wallet.amounts[t] - a
       /\ \A x \in Tokens : x # t => wallet'.amounts[x] = wallet.amounts[x]
       /\ wallet' \in [amounts : [Tokens -> 0 .. MaxAmount], opened : BOOLEAN, sol : Nat]
  <2>1. wallet \in [amounts : [Tokens -> 0 .. MaxAmount], opened : BOOLEAN, sol : Nat]
    BY DEF BuildInv, WorldShape
  <2>2. PICK amounts : amounts = [wallet.amounts EXCEPT ![t] = wallet.amounts[t] - a]
    OBVIOUS
  <2>3. wallet' = [wallet EXCEPT !.amounts = amounts]
    BY <1>2, <1>3, <1>10, <2>2
  <2>4. wallet.amounts[t] - a \in 0 .. MaxAmount
    <3>1. wallet.amounts[t] \in 0 .. MaxAmount /\ wallet.amounts[t] >= a
      BY <1>2, <1>3, <1>10, <2>1
    <3> QED
      BY <3>1, BuildAssumption
  <2>5. amounts \in [Tokens -> 0 .. MaxAmount]
    BY <2>1, <2>2, <2>4
  <2> QED
    BY <2>1, <2>2, <2>3, <2>5
<1>12. WorldShape' /\ CacheShape'
  BY <1>1, <1>2, <1>4, <1>7, <1>9, <1>11 DEF BuildInv, WorldShape, CacheShape
<1>13. SwapsStay
  BY <1>3, <1>5, <1>7, <1>9, NoSwapIsNone DEF SwapsStay
<1>14. \A x \in Tokens : wallet.amounts[x] \in Nat /\ wallet'.amounts[x] \in Nat /\ got[x] \in Nat
  BY <1>11 DEF BuildInv, WorldShape
<1>15. \A x \in Tokens : wallet'.amounts[x] <= wallet.amounts[x]
  <2>1. wallet'.amounts[t] <= wallet.amounts[t]
    BY <1>10, <1>11, <1>14
  <2> QED
    BY <1>11, <1>14, <2>1
<1>16. NoMoreThanGot
  BY <1>1, <1>14, <1>15 DEF NoMoreThanGot
<1>17. CachesTrue'
  <2>1. ASSUME NEW x \in Tokens, NEW y \in Amounts, NEW z \in Promises, built[x][y][z] # 0
        PROVE  Sells(swaps'[built[x][y][z]], x, y, z)
    <3>1. PICK k : k = built[x][y][z]
      OBVIOUS
    <3>2. k \in SwapIds /\ Sells(swaps[k], x, y, z)
      BY <2>1, <3>1 DEF BuildInv, CacheShape, CachesTrue
    <3>3. swaps[k] # NoSwap
      BY <3>2, NoSwapIsNone, BuildAssumption DEF Sells
    <3> QED
      BY <1>13, <3>1, <3>2, <3>3 DEF SwapsStay, Sells
  <2> QED
    BY <1>1, <2>1 DEF CachesTrue
<1>18. OnePool'
  BY <1>1, <1>3, <1>7, <1>9 DEF BuildInv, OnePool
<1>19. SwapsTake'
  <2>1. wallet'.amounts[one.token] + one.got + (IF one.landed THEN one.amount ELSE 0) <= one.amount + got[one.token]
    <3>1. wallet.amounts[t] + s.got + 0 <= a + got[t]
      BY <1>2, <1>3, <1>10 DEF BuildInv, SwapsTake
    <3>2. s.got \in Nat
      BY <1>5 DEF SwapRecords
    <3>3. wallet'.amounts[t] + s.got + a <= a + got[t]
      BY <1>10, <1>11, <1>14, <3>1, <3>2
    <3> QED
      BY <1>7, <1>8, <1>10, <3>3
  <2>2. ASSUME NEW k \in SwapIds, k # j, swaps[k] # NoSwap
        PROVE  wallet'.amounts[swaps[k].token] + swaps[k].got + (IF swaps[k].landed THEN swaps[k].amount ELSE 0)
                 <= swaps[k].amount + got[swaps[k].token]
    <3>1. PICK x : x = swaps[k]
      OBVIOUS
    <3>2. x \in SwapRecords
      BY <1>4, <2>2, <3>1
    <3>3. PICK taken : taken = IF x.landed THEN x.amount ELSE 0
      OBVIOUS
    <3>4. wallet.amounts[x.token] + x.got + taken <= x.amount + got[x.token]
      BY <2>2, <3>1, <3>3 DEF BuildInv, SwapsTake
    <3>5. x.token \in Tokens /\ x.got \in Nat /\ x.amount \in Nat /\ taken \in Nat
      BY <3>2, <3>3 DEF SwapRecords, Amounts
    <3>6. wallet'.amounts[x.token] + x.got + taken <= x.amount + got[x.token]
      BY <1>14, <1>15, <3>4, <3>5
    <3> QED
      BY <3>1, <3>3, <3>6
  <2> QED
    BY <1>1, <1>9, <2>1, <2>2 DEF SwapsTake
<1> QED
  BY <1>1, <1>12, <1>13, <1>16, <1>17, <1>18, <1>19, RequestsStay

LEMMA ReceiveKeeps == ASSUME BuildInv, Receive PROVE BuildInv'
<1>1. UNCHANGED <<pool, market, quotes, built, swaps, request, repooled>>
  BY DEF Receive
<1>2. CacheShape' /\ CachesTrue' /\ OnePool' /\ SwapsStay
  BY <1>1 DEF BuildInv, CacheShape, CachesTrue, OnePool, SwapsStay
<1>3. \A x \in Tokens : wallet.amounts[x] \in 0 .. MaxAmount /\ wallet.amounts[x] \in Nat /\ got[x] \in Nat
  BY DEF BuildInv, WorldShape
<1>4. /\ WorldShape'
      /\ \A x \in Tokens : /\ wallet'.amounts[x] \in Nat /\ got'[x] \in Nat
                           /\ wallet'.amounts[x] + got[x] = wallet.amounts[x] + got'[x]
  <2>1. /\ wallet \in [amounts : [Tokens -> 0 .. MaxAmount], opened : BOOLEAN, sol : Nat]
        /\ got \in [Tokens -> Nat]
    BY DEF BuildInv, WorldShape
  <2>2. ASSUME NEW t \in Tokens, wallet.amounts[t] < MaxAmount,
               wallet' = [wallet EXCEPT !.amounts[t] = @ + 1], got' = [got EXCEPT ![t] = @ + 1]
        PROVE  /\ wallet' \in [amounts : [Tokens -> 0 .. MaxAmount], opened : BOOLEAN, sol : Nat]
               /\ got' \in [Tokens -> Nat]
               /\ \A x \in Tokens : wallet'.amounts[x] + got[x] = wallet.amounts[x] + got'[x]
    <3>1. PICK amounts : amounts = [wallet.amounts EXCEPT ![t] = wallet.amounts[t] + 1]
      OBVIOUS
    <3>2. wallet' = [wallet EXCEPT !.amounts = amounts]
      BY <2>2, <3>1
    <3>3. wallet.amounts[t] + 1 \in 0 .. MaxAmount
      BY <1>3, <2>2, BuildAssumption
    <3>4. amounts \in [Tokens -> 0 .. MaxAmount]
      BY <2>1, <3>1, <3>3
    <3>5. wallet'.amounts = amounts /\ wallet' \in [amounts : [Tokens -> 0 .. MaxAmount], opened : BOOLEAN, sol : Nat]
      BY <2>1, <3>2, <3>4
    <3>6. got[t] + 1 \in Nat /\ got' = [got EXCEPT ![t] = got[t] + 1]
      BY <1>3, <2>2
    <3>7. got' \in [Tokens -> Nat] /\ got'[t] = got[t] + 1 /\ \A x \in Tokens : x # t => got'[x] = got[x]
      BY <2>1, <3>6
    <3>8. amounts[t] = wallet.amounts[t] + 1 /\ \A x \in Tokens : x # t => amounts[x] = wallet.amounts[x]
      BY <2>1, <3>1
    <3>9. amounts[t] + got[t] = wallet.amounts[t] + got'[t]
      BY <1>3, <3>7, <3>8
    <3> QED
      BY <3>5, <3>7, <3>8, <3>9
  <2>3. ASSUME wallet' = [wallet EXCEPT !.opened = TRUE], UNCHANGED got
        PROVE  /\ wallet' \in [amounts : [Tokens -> 0 .. MaxAmount], opened : BOOLEAN, sol : Nat]
               /\ got' \in [Tokens -> Nat]
               /\ \A x \in Tokens : wallet'.amounts[x] + got[x] = wallet.amounts[x] + got'[x]
    BY <2>1, <2>3
  <2>4. /\ wallet' \in [amounts : [Tokens -> 0 .. MaxAmount], opened : BOOLEAN, sol : Nat]
        /\ got' \in [Tokens -> Nat]
        /\ \A x \in Tokens : wallet'.amounts[x] + got[x] = wallet.amounts[x] + got'[x]
    BY <2>2, <2>3 DEF Receive
  <2> QED
    BY <1>1, <2>4 DEF BuildInv, WorldShape
<1>5. NoMoreThanGot
  BY <1>3, <1>4 DEF NoMoreThanGot
<1>6. SwapsTake'
  <2>1. ASSUME NEW k \in SwapIds, swaps[k] # NoSwap
        PROVE  wallet'.amounts[swaps[k].token] + swaps[k].got + (IF swaps[k].landed THEN swaps[k].amount ELSE 0)
                 <= swaps[k].amount + got'[swaps[k].token]
    <3>1. PICK x : x = swaps[k]
      OBVIOUS
    <3>2. x \in SwapRecords
      BY <2>1, <3>1 DEF BuildInv, CacheShape
    <3>3. PICK taken : taken = IF x.landed THEN x.amount ELSE 0
      OBVIOUS
    <3>4. wallet.amounts[x.token] + x.got + taken <= x.amount + got[x.token]
      BY <2>1, <3>1, <3>3 DEF BuildInv, SwapsTake
    <3>5. x.token \in Tokens /\ x.got \in Nat /\ x.amount \in Nat /\ taken \in Nat
      BY <3>2, <3>3 DEF SwapRecords, Amounts
    <3>6. wallet'.amounts[x.token] + x.got + taken <= x.amount + got'[x.token]
      BY <1>3, <1>4, <3>4, <3>5
    <3> QED
      BY <3>1, <3>3, <3>6
  <2> QED
    BY <1>1, <2>1 DEF SwapsTake
<1> QED
  BY <1>1, <1>2, <1>4, <1>5, <1>6, RequestsStay

LEMMA RetuneKeeps == ASSUME BuildInv, Retune PROVE BuildInv'
<1>1. UNCHANGED <<wallet, quotes, built, swaps, request, got>>
  BY DEF Retune
<1>2. WorldShape' /\ (repooled' = TRUE \/ (pool' = pool /\ market'.via = market.via /\ repooled' = repooled))
  <2>1. market \in [price : 1 .. MaxPrice, via : ConvertPools]
    BY DEF BuildInv, WorldShape
  <2>2. CASE \E p \in ConvertPools \ {pool} : pool' = p /\ repooled' = TRUE /\ UNCHANGED market
    BY <1>1, <2>2 DEF BuildInv, WorldShape
  <2>3. CASE \E p \in ConvertPools \ {market.via} :
               market' = [market EXCEPT !.via = p] /\ repooled' = TRUE /\ UNCHANGED pool
    BY <1>1, <2>1, <2>3 DEF BuildInv, WorldShape
  <2>4. CASE \E n \in (1 .. MaxPrice) \ {market.price} :
               market' = [market EXCEPT !.price = n] /\ UNCHANGED <<pool, repooled>>
    BY <1>1, <2>1, <2>4 DEF BuildInv, WorldShape
  <2> QED
    BY <2>2, <2>3, <2>4 DEF Retune
<1>3. CacheShape' /\ CachesTrue' /\ SwapsTake' /\ SwapsStay
  BY <1>1 DEF BuildInv, CacheShape, CachesTrue, SwapsTake, SwapsStay
<1>4. OnePool'
  BY <1>1, <1>2 DEF BuildInv, OnePool
<1>5. NoMoreThanGot
  <2>1. \A x \in Tokens : wallet.amounts[x] \in Nat /\ got[x] \in Nat
    BY DEF BuildInv, WorldShape
  <2> QED
    BY <1>1, <2>1 DEF NoMoreThanGot
<1> QED
  BY <1>1, <1>2, <1>3, <1>4, <1>5, RequestsStay

LEMMA CacheExpiresKeeps == ASSUME BuildInv, CacheExpires PROVE BuildInv'
<1>1. UNCHANGED <<wallet, pool, market, swaps, request, got, repooled>>
  BY DEF CacheExpires
<1>2. WorldShape' /\ SwapsTake' /\ SwapsStay
  BY <1>1 DEF BuildInv, WorldShape, SwapsTake, SwapsStay
<1>3. NoMoreThanGot
  <2>1. \A x \in Tokens : wallet.amounts[x] \in Nat /\ got[x] \in Nat
    BY DEF BuildInv, WorldShape
  <2> QED
    BY <1>1, <2>1 DEF NoMoreThanGot
<1>4. CacheShape' /\ CachesTrue' /\ OnePool'
  <2>1. PICK t \in Tokens, a \in Amounts :
          \/ quotes' = [quotes EXCEPT ![t][a] = NoQuote] /\ UNCHANGED built
          \/ \E p \in Promises : built' = [built EXCEPT ![t][a][p] = 0] /\ UNCHANGED quotes
    BY DEF CacheExpires
  <2>2. CASE quotes' = [quotes EXCEPT ![t][a] = NoQuote] /\ UNCHANGED built
    <3>1. quotes \in [Tokens -> [Amounts -> QuoteRecords]] /\ NoQuote \in QuoteRecords
      BY DEF BuildInv, CacheShape, QuoteRecords
    <3>2. /\ quotes' \in [Tokens -> [Amounts -> QuoteRecords]]
          /\ \A x \in Tokens, y \in Amounts : quotes'[x][y] = quotes[x][y] \/ quotes'[x][y] = NoQuote
      BY <2>2, <3>1
    <3>3. CacheShape' /\ CachesTrue'
      BY <1>1, <2>2, <3>2 DEF BuildInv, CacheShape, CachesTrue
    <3>4. NoQuote.pool = FirstPool
      BY DEF NoQuote
    <3>5. OnePool'
      BY <1>1, <3>2, <3>4 DEF BuildInv, OnePool
    <3> QED
      BY <3>3, <3>5
  <2>3. ASSUME NEW p \in Promises, built' = [built EXCEPT ![t][a][p] = 0], UNCHANGED quotes
        PROVE  CacheShape' /\ CachesTrue' /\ OnePool'
    <3>1. built \in [Tokens -> [Amounts -> [Promises -> SwapIds \cup {0}]]]
      BY DEF BuildInv, CacheShape
    <3>2. /\ built' \in [Tokens -> [Amounts -> [Promises -> SwapIds \cup {0}]]]
          /\ \A x \in Tokens, y \in Amounts, z \in Promises :
               built'[x][y][z] = built[x][y][z] \/ built'[x][y][z] = 0
      BY <2>3, <3>1
    <3>3. CacheShape'
      BY <1>1, <2>3, <3>2 DEF BuildInv, CacheShape
    <3>4. CachesTrue'
      BY <1>1, <3>2 DEF BuildInv, CachesTrue
    <3>5. OnePool'
      BY <1>1, <2>3 DEF BuildInv, OnePool
    <3> QED
      BY <3>3, <3>4, <3>5
  <2> QED
    BY <2>1, <2>2, <2>3
<1> QED
  BY <1>1, <1>2, <1>3, <1>4, RequestsStay

-----------------------------------------------------------------------------
\* Every step of the requests and of what is around them.
LEMMA BuildStep == BuildInv /\ [BuildNext]_buildVars => BuildInv'
<1> SUFFICES ASSUME BuildInv, [BuildNext]_buildVars PROVE BuildInv'
  OBVIOUS
<1>1. ASSUME NEW r \in Requests,
             \/ BeginRequest(r) \/ ReadBalances(r) \/ ReadAccount(r) \/ Quote(r) \/ BeginLegs(r)
             \/ BuildLeg(r) \/ Save(r)
      PROVE  BuildInv'
  BY <1>1, BeginKeeps, ReadBalancesKeeps, ReadAccountKeeps, QuoteKeeps, BeginLegsKeeps, BuildLegKeeps, SaveKeeps
<1>2. ASSUME NEW r \in Requests, BuildFails(r) \/ Answered(r) PROVE BuildInv'
  BY <1>2, GivesUp DEF BuildFails, Answered, Around
<1>3. CASE SwapLands \/ Receive \/ Retune \/ CacheExpires
  BY <1>3, SwapLandsKeeps, ReceiveKeeps, RetuneKeeps, CacheExpiresKeeps
<1>4. CASE UNCHANGED buildVars
  <2>1. UNCHANGED <<wallet, pool, market, quotes, built, swaps, request, got, repooled>>
    BY <1>4 DEF buildVars
  <2>2. WorldShape' /\ CacheShape' /\ CachesTrue' /\ OnePool' /\ SwapsTake' /\ SwapsStay
    BY <2>1 DEF BuildInv, WorldShape, CacheShape, CachesTrue, OnePool, SwapsTake, SwapsStay
  <2>3. NoMoreThanGot
    <3>1. \A x \in Tokens : wallet.amounts[x] \in Nat /\ got[x] \in Nat
      BY DEF BuildInv, WorldShape
    <3> QED
      BY <2>1, <3>1 DEF NoMoreThanGot
  <2> QED
    BY <2>1, <2>2, <2>3, RequestsStay
<1> QED
  BY <1>1, <1>2, <1>3, <1>4 DEF BuildNext

\* The invariant of what a conversion is made of, whatever is asked and changed meanwhile.
LEMMA BuildInvariant == BuildSpec => []BuildInv
  BY InitBuildInv, BuildStep, PTL DEF BuildSpec

\* The invariant has the types.
LEMMA BuildIsTyped == BuildInv => BuildTypeOK
<1> SUFFICES ASSUME BuildInv PROVE BuildTypeOK
  OBVIOUS
<1>1. ASSUME NEW t \in Tokens, NEW a \in Amounts
      PROVE  /\ quotes[t][a] = NoQuote \/ quotes[t][a].promise \in Promises
             /\ \A p \in Promises : built[t][a][p] \in SwapIds \cup {0}
  <2>1. quotes[t][a] \in QuoteRecords
    BY DEF BuildInv, CacheShape
  <2>2. quotes[t][a] = NoQuote \/ quotes[t][a].promise \in Promises
    BY <2>1 DEF QuoteRecords
  <2> QED
    BY <2>2 DEF BuildInv, CacheShape
<1>2. ASSUME NEW r \in Requests PROVE request[r].stage \in Stages
  BY DEF BuildInv, RequestShape, RequestRecords
<1> QED
  BY <1>1, <1>2 DEF BuildInv, WorldShape, BuildTypeOK, Stages

-----------------------------------------------------------------------------
\* A sequence without doubles is as long as its set of elements.
LEMMA AsManyAsAsked ==
  ASSUME NEW S, NEW s \in Seq(S), Distinct(s)
  PROVE  Cardinality(ToSet(s)) = Len(s)
<1>1. PICK n \in Nat : n = Len(s) /\ DOMAIN s = 1 .. n
  OBVIOUS
<1>2. s \in [1 .. n -> ToSet(s)]
  BY <1>1 DEF ToSet
<1>3. s \in Bijection(1 .. n, ToSet(s))
  <2>1. DOMAIN s = 1 .. n /\ \A i, j \in 1 .. n : s[i] = s[j] => i = j
    BY <1>1 DEF Distinct
  <2>2. s \in Injection(1 .. n, ToSet(s))
    BY <1>2, <2>1 DEF Injection, IsInjective
  <2>3. s \in Surjection(1 .. n, ToSet(s))
    BY <1>2, <2>1 DEF Surjection, ToSet
  <2> QED
    BY <2>2, <2>3 DEF Bijection
<1>4. ExistsBijection(1 .. n, ToSet(s))
  BY <1>3 DEF ExistsBijection
<1> QED
  BY <1>1, <1>4, FS_CountingElements

\* What a saved session is known to be, leg by leg.
LEMMA SavedLegs ==
  ASSUME BuildInv, NEW r \in Sessions
  PROVE  /\ request[r] \in RequestRecords /\ Knows(request[r]) /\ request[r].stage = "saved"
         /\ request[r].kind = "prepare" /\ Len(request[r].legs) = Len(request[r].asked)
         /\ \A i \in DOMAIN request[r].legs : LegFits(request[r], i) /\ request[r].legs[i] \in BuiltLegs
<1>1. PICK q : q = request[r]
  OBVIOUS
<1>2. q \in RequestRecords /\ Knows(q) /\ q.stage = "saved"
  BY <1>1 DEF BuildInv, RequestShape, Sessions, At
<1>3. q.kind = "prepare" /\ Len(q.legs) = Len(q.asked) /\ \A i \in DOMAIN q.asked : LegFits(q, i)
  BY <1>2 DEF Knows, LegsFit
<1>4. q.asked \in Seq(Tokens) /\ q.legs \in Seq(BuiltLegs)
  BY <1>2 DEF RequestRecords
<1>5. \A i \in DOMAIN q.legs : LegFits(q, i) /\ q.legs[i] \in BuiltLegs
  BY <1>3, <1>4
<1> QED
  BY <1>1, <1>2, <1>3, <1>5

\* The invariant makes the swaps of a session those that were asked for.
LEMMA SwapsFit == BuildInv => SwapsAreAsQuoted /\ QuotesFollowThePool /\ NoSwapTwice
<1> SUFFICES ASSUME BuildInv, NEW r \in Sessions, NEW item \in LegsOf(r)
             PROVE  LET s == swaps[item.swap] IN
                    /\ s.token = item.token /\ s.amount = item.amount /\ s.promise = item.quote.promise
                    /\ repooled \/ s.pool = item.quote.pool
                    /\ item.quote.pool = request[r].pool
                    /\ item.swap \in request[r].landed => request[r].got[item.token] > s.got
  BY DEF SwapsAreAsQuoted, QuotesFollowThePool, NoSwapTwice
<1>1. PICK q : q = request[r]
  OBVIOUS
<1>2. q \in RequestRecords /\ Knows(q) /\ q.stage = "saved"
  BY <1>1, SavedLegs
<1>3. PICK i \in DOMAIN q.legs : item = q.legs[i]
  BY <1>1 DEF LegsOf, ToSet
<1>4. LegFits(q, i) /\ item \in BuiltLegs
  BY <1>1, <1>3, SavedLegs
<1>5. PICK j \in SwapIds : j = item.swap
  BY <1>2, <1>3, <1>4 DEF LegFits, BuiltLegs
<1>6. PICK s : s = swaps[j]
  OBVIOUS
<1>7. /\ item.token = q.asked[i] /\ item.amount = q.amounts[item.token] /\ item.amount \in Amounts
      /\ item.quote.pool = q.pool /\ Sells(s, item.token, item.amount, item.quote.promise)
  <2>1. item.token = q.asked[i] /\ item.amount = q.amounts[q.asked[i]] /\ item.amount \in Amounts
        /\ item.quote.pool = q.pool
    BY <1>3, <1>4 DEF LegFits
  <2>2. Sells(swaps[item.swap], q.asked[i], item.amount, item.quote.promise)
    <3>1. item.swap # 0
      BY <1>2, <1>3, <1>4 DEF LegFits
    <3> QED
      BY <1>3, <1>4, <3>1 DEF LegFits
  <2> QED
    BY <1>5, <1>6, <2>1, <2>2
<1>8. item.token \in Tokens
  BY <1>4 DEF BuiltLegs
<1>9. s \in SwapRecords
  <2>1. s \in SwapRecords \cup {NoSwap}
    BY <1>6 DEF BuildInv, CacheShape
  <2> QED
    BY <1>7, <1>8, <2>1, NoSwapIsNone, BuildAssumption DEF Sells
<1>10. repooled \/ s.pool = item.quote.pool
  <2>1. ASSUME ~repooled PROVE s.pool = FirstPool /\ request[r].pool = FirstPool
    <3>1. r \in Requests
      BY DEF Sessions
    <3> QED
      BY <2>1, <3>1, <1>6 DEF BuildInv, OnePool
  <2> QED
    BY <1>1, <1>7, <2>1
<1>11. ASSUME j \in q.landed PROVE q.got[item.token] > s.got
  <2>1. q.amounts[s.token] + s.got <= q.got[s.token]
    BY <1>2, <1>6, <1>11 DEF Knows, HasRead, PastBalances
  <2>2. s.token = item.token /\ q.amounts[item.token] \in Nat /\ q.amounts[item.token] >= 1
    BY <1>7 DEF Sells, Amounts
  <2>3. s.got \in Nat /\ q.got[item.token] \in Nat
    BY <1>2, <1>8, <1>9 DEF SwapRecords, RequestRecords
  <2> QED
    BY <2>1, <2>2, <2>3
<1> QED
  BY <1>1, <1>5, <1>6, <1>7, <1>10, <1>11 DEF Sells

\* The invariant makes a session as long, and as dear, as it was estimated.
LEMMA SessionsFit == BuildInv => SessionsAreAsAsked
<1> SUFFICES ASSUME BuildInv, NEW r \in Sessions, NEW q, q = request[r]
    PROVE  LET count == Len(q.legs) + Cardinality({i \in DOMAIN q.legs : q.legs[i].opens}) IN
           /\ Len(q.legs) = Len(q.asked) /\ \A i \in DOMAIN q.legs : q.legs[i].token = q.asked[i]
           /\ q.needs => q.legs[1].opens
           /\ count = Estimate(q, ToSet(q.asked)) \/ (q.needs /\ Len(q.asked) > 1)
  BY DEF SessionsAreAsAsked
<1>1. /\ q \in RequestRecords /\ Knows(q) /\ q.kind = "prepare" /\ Len(q.legs) = Len(q.asked)
      /\ \A i \in DOMAIN q.legs : LegFits(q, i)
  BY SavedLegs
<1>2. q.asked \in Seq(Tokens) /\ q.legs \in Seq(BuiltLegs) /\ q.needs \in BOOLEAN
  BY <1>1 DEF RequestRecords
<1>3. q.asked # <<>> /\ Distinct(q.asked)
  BY <1>1 DEF Knows, AskedFor
<1>4. PICK n \in Nat : n = Len(q.asked) /\ n >= 1 /\ DOMAIN q.legs = 1 .. n
  BY <1>1, <1>2, <1>3
<1>5. \A i \in 1 .. n : q.legs[i].token = q.asked[i] /\ q.legs[i].opens = q.needs
  BY <1>1, <1>4 DEF LegFits
<1>6. Cardinality(ToSet(q.asked)) = n
  BY <1>2, <1>3, <1>4, AsManyAsAsked
<1>7. 1 \in 1 .. n /\ 1 \in DOMAIN q.asked /\ q.asked[1] \in ToSet(q.asked)
  <2>1. 1 \in 1 .. n /\ DOMAIN q.asked = 1 .. n
    BY <1>2, <1>4
  <2> QED
    BY <2>1 DEF ToSet
<1>8. PICK opens : opens = {i \in DOMAIN q.legs : q.legs[i].opens}
  OBVIOUS
<1>9. ASSUME q.needs, n = 1 PROVE Cardinality(opens) = 1
  <2>1. q.legs[1].opens
    BY <1>5, <1>7, <1>9, Zenon
  <2>2. opens = {1}
    BY <1>4, <1>8, <1>9, <2>1
  <2> QED
    BY <2>2, FS_Singleton
<1>10. ASSUME ~q.needs PROVE Cardinality(opens) = 0
  <2>1. \A i \in 1 .. n : ~q.legs[i].opens
    BY <1>5, <1>10
  <2>2. opens = {}
    BY <1>4, <1>8, <2>1
  <2> QED
    BY <2>2, FS_EmptySet
<1>11. n + Cardinality(opens) = Estimate(q, ToSet(q.asked)) \/ (q.needs /\ n > 1)
  <2>1. Estimate(q, ToSet(q.asked)) = n + (IF q.needs THEN 1 ELSE 0)
    BY <1>6, <1>7 DEF Estimate
  <2>2. CASE q.needs
    <3>1. Estimate(q, ToSet(q.asked)) = n + 1
      BY <2>1, <2>2, Zenon
    <3>2. n = 1 \/ n > 1
      <4>1. n \in Nat /\ n >= 1
        BY <1>4, Zenon
      <4> QED
        BY <4>1
    <3>3. CASE n > 1
      BY <2>2, <3>3, Zenon
    <3>4. CASE n = 1
      BY <1>9, <2>2, <3>1, <3>4, Zenon
    <3> QED
      BY <3>2, <3>3, <3>4, Zenon
  <2>3. CASE ~q.needs
    BY <1>10, <2>1, <2>3, Zenon
  <2> QED
    BY <2>2, <2>3
<1>12. q.needs => q.legs[1].opens
  BY <1>5, <1>7, Zenon
<1> QED
  BY <1>1, <1>4, <1>5, <1>8, <1>11, <1>12

-----------------------------------------------------------------------------
(* Both parts.                                                             *)

\* While one part runs the other rests: each takes steps of its own specification only.
LEMMA ConversionParts == ConversionSpec => ConvertSpec /\ BuildSpec
<1>1. ConversionInit => ConvertInit /\ BuildInit
  BY DEF ConversionInit
<1>2. [ConvertPart \/ BuildPart]_<<part, convertVars, buildVars>> => [ConvertNext]_convertVars
  BY DEF ConvertPart, BuildPart
<1>3. [ConvertPart \/ BuildPart]_<<part, convertVars, buildVars>> => [BuildNext]_buildVars
  BY DEF ConvertPart, BuildPart
<1> QED
  BY <1>1, <1>2, <1>3, PTL DEF ConversionSpec, ConvertSpec, BuildSpec

\* A conversion adds up: without overlapping executions nothing is credited twice or without
\* having been received, a leg is shown as completed only once its transactions landed, and the
\* status is the one the legs call for (executeWalletConvert).
THEOREM ConversionCredits == ConversionSpec => []ConversionAddsUp
  BY ConversionParts, SessionAddsUp, PTL DEF ConversionAddsUp

\* A session is made of swaps of the tokens, amounts and promises it was asked for and quoted,
\* through the pool configured when the request began, none of which had landed before,
\* whatever other requests leave in the caches (prepareWalletConvert, fetchRaydiumConvertQuote,
\* buildRaydiumSwapTransactions).
THEOREM SessionsHold == ConversionSpec => []SessionsAreAsQuoted
<1>1. BuildInv => SessionsAreAsQuoted
  BY SwapsFit, SessionsFit DEF SessionsAreAsQuoted
<1> QED
  BY <1>1, ConversionParts, BuildInvariant, PTL

\* Every variable of both parts keeps its shape, and no leg is credited a negative amount
\* (executeWalletConvert, prepareWalletConvert).
THEOREM ConversionTyped == ConversionSpec => []ConversionTypeOK
<1>1. LegInv => ConvertTypeOK
  BY DEF LegInv, TypeInv
<1> QED
  BY <1>1, ConversionParts, LegInvariant, BuildInvariant, BuildIsTyped, PTL DEF ConversionTypeOK
=============================================================================
