---------------------------- MODULE WalletSessions ----------------------------
(***************************************************************************)
(* Presence sessions of one wallet: start, heartbeat and end requests of   *)
(* its browsers, an administrator's block, and the sweep that closes what  *)
(* was not seen for ONLINE_TIMEOUT_MS.  Every handler reads the row, then  *)
(* writes it by id without looking again, so handlers work from rows that  *)
(* others have changed.  A write and the addition to totalSessionSeconds   *)
(* are one transaction, and one step.                                      *)
(***************************************************************************)
EXTENDS Integers, FiniteSets, Functions

CONSTANTS
    Sessions,   \* rows of WalletUserSession
    Callers,    \* requests in flight at once
    Sweepers,   \* API processes: each runs one sweep at a time
    Timeout,    \* ONLINE_TIMEOUT_MS, in ticks
    NoSession,  \* of a request that works on none
    MaxTime,    \* how far the clock is followed
    MaxCalls    \* how many requests are followed

ASSUME SessionAssumption ==
    /\ Timeout \in Nat /\ MaxTime \in Nat /\ MaxCalls \in Nat
    /\ NoSession \notin Sessions /\ IsFiniteSet(Sessions)

VARIABLES
    now,        \* the servers' clock
    blocked,    \* WalletUser.isBlocked
    total,      \* WalletUser.totalSessionSeconds
    row,        \* each WalletUserSession
    keyed,      \* the sessions that carry the browser's sessionKey
    call,       \* each request in flight
    sweep,      \* the stale rows each sweep has still to close, as it read them
    overlapped, \* history: two handlers that read one session open closed it
    late,       \* history: sessions created for a wallet already blocked
    calls       \* requests made so far

sessionVars == <<now, blocked, total, row, keyed, call, sweep, overlapped, late, calls>>

Time == 0 .. MaxTime

\* endedAt is kept as whether it is set.
RowRecords ==
    [exists: BOOLEAN, online: BOOLEAN, ended: BOOLEAN, started: Time, seen: Time,
     duration: Time]
NoRow ==
    [exists |-> FALSE, online |-> FALSE, ended |-> FALSE, started |-> 0, seen |-> 0,
     duration |-> 0]

Stages == {"idle", "starting", "finding", "touching", "creating",
           "beating", "refreshing", "barring", "ending", "closing"}
IdleCall == [stage |-> "idle", session |-> NoSession,
             at |-> 0, key |-> FALSE, open |-> FALSE]

SessionInit ==
    /\ now = 0 /\ blocked = FALSE /\ total = 0
    /\ row = [s \in Sessions |-> NoRow]
    /\ keyed = {}
    /\ call = [c \in Callers |-> IdleCall]
    /\ sweep = [w \in Sweepers |-> {}]
    /\ overlapped = FALSE /\ late = {} /\ calls = 0

OpenRow(s) == row[s].exists /\ ~row[s].ended

\* Who counts as online: getOnlineUserIdSet and getMetrics.
Online(s) == row[s].online /\ OpenRow(s) /\ row[s].seen >= now - Timeout

\* Both the row's duration and what is added to the total.  Every handler that
\* closes has read an open row, whose durationSeconds is still 0.
SpanUnclamped(from, to) == to - from
Span(from, to) == IF to > from THEN to - from ELSE 0

\* The transaction that closes one row, which its handler may have read open.
Close(s, seen, span, readOpen) ==
    /\ row' = [row EXCEPT ![s] =
         [@ EXCEPT !.online = FALSE, !.ended = TRUE, !.seen = seen, !.duration = span]]
    /\ total' = total + span
    /\ overlapped' = (overlapped \/ (row[s].ended /\ readOpen))

GoesTo(c, stage) == call' = [call EXCEPT ![c] = [@ EXCEPT !.stage = stage]]
Calls(c) == call[c].stage = "idle" /\ calls < MaxCalls /\ calls' = calls + 1
Ends(c) == call' = [call EXCEPT ![c] = IdleCall]

-----------------------------------------------------------------------------
(* startSession, which is also what a heartbeat of an ended session becomes. *)

\* assertWalletNotBlocked.
BeginStart(c) ==
    /\ Calls(c) /\ ~blocked
    /\ \E key \in BOOLEAN :
          call' = [call EXCEPT ![c] = [@ EXCEPT !.stage = "starting", !.key = key]]
    /\ UNCHANGED <<now, blocked, total, row, keyed, sweep, overlapped, late>>

\* Country, user row and on-chain balances are fetched before the time is taken.
TimeStart(c) ==
    /\ call[c].stage = "starting"
    /\ call' = [call EXCEPT ![c] =
         [@ EXCEPT !.stage = IF call[c].key THEN "finding" ELSE "creating", !.at = now]]
    /\ UNCHANGED <<now, blocked, total, row, keyed, sweep, overlapped, late, calls>>

FindByKey(c) ==
    /\ call[c].stage = "finding"
    /\ \/ /\ \E s \in keyed : OpenRow(s)
          /\ call' = [call EXCEPT ![c] =
               [@ EXCEPT !.stage = "touching", !.session = CHOOSE s \in keyed : TRUE]]
       \/ /\ ~\E s \in keyed : OpenRow(s)
          /\ GoesTo(c, "creating")
    /\ UNCHANGED <<now, blocked, total, row, keyed, sweep, overlapped, late, calls>>

ReopenedRow(r, at) == [r EXCEPT !.online = TRUE, !.ended = FALSE, !.seen = at]
TouchedRow(r, at) == [r EXCEPT !.online = TRUE, !.seen = at]

Touch(c) ==
    /\ call[c].stage = "touching"
    /\ row' = [row EXCEPT ![call[c].session] = TouchedRow(@, call[c].at)]
    /\ Ends(c)
    /\ UNCHANGED <<now, blocked, total, keyed, sweep, overlapped, late, calls>>

\* sessionKey is unique: with a key that is taken the insert throws, and the
\* request fails.
Create(c) ==
    /\ call[c].stage = "creating"
    /\ IF call[c].key /\ keyed # {}
       THEN UNCHANGED <<row, keyed, late>>
       ELSE \E s \in {x \in Sessions : ~row[x].exists} :
            /\ row' = [row EXCEPT ![s] =
                 [exists |-> TRUE, online |-> TRUE, ended |-> FALSE,
                  started |-> call[c].at, seen |-> call[c].at, duration |-> 0]]
            /\ keyed' = IF call[c].key THEN {s} ELSE keyed
            /\ late' = IF blocked THEN late \cup {s} ELSE late
    /\ Ends(c)
    /\ UNCHANGED <<now, blocked, total, sweep, overlapped, calls>>

-----------------------------------------------------------------------------
(* heartbeatSession.                                                       *)

BeginHeartbeat(c) ==
    /\ Calls(c)
    /\ \E s \in Sessions :
          /\ row[s].exists
          /\ call' = [call EXCEPT ![c] =
               [@ EXCEPT !.stage = "beating", !.session = s, !.at = now]]
    /\ UNCHANGED <<now, blocked, total, row, keyed, sweep, overlapped, late>>

\* The row is read with its user.  The session of an ended row is replaced, for
\* which startSession checks the block once more.
ReadForHeartbeat(c) ==
    /\ call[c].stage = "beating"
    /\ \/ /\ OpenRow(call[c].session)
          /\ call' = [call EXCEPT ![c] =
               [@ EXCEPT !.stage = IF blocked THEN "barring" ELSE "refreshing",
                         !.open = TRUE]]
       \/ /\ ~OpenRow(call[c].session) /\ ~blocked
          /\ GoesTo(c, "starting")
       \/ /\ ~OpenRow(call[c].session) /\ blocked
          /\ Ends(c)
    /\ UNCHANGED <<now, blocked, total, row, keyed, sweep, overlapped, late, calls>>

Refresh(c) ==
    /\ call[c].stage = "refreshing"
    /\ row' = [row EXCEPT ![call[c].session] = TouchedRow(@, call[c].at)]
    /\ Ends(c)
    /\ UNCHANGED <<now, blocked, total, keyed, sweep, overlapped, late, calls>>

\* The heartbeat of a blocked wallet closes its session.
Bar(c) ==
    LET s == call[c].session IN
    /\ call[c].stage = "barring"
    /\ Close(s, call[c].at, Span(row[s].started, call[c].at), call[c].open)
    /\ Ends(c)
    /\ UNCHANGED <<now, blocked, keyed, sweep, late, calls>>

-----------------------------------------------------------------------------
(* endSession.                                                             *)

BeginEnd(c) ==
    /\ Calls(c)
    /\ \E s \in Sessions :
          /\ row[s].exists
          /\ call' = [call EXCEPT ![c] =
               [@ EXCEPT !.stage = "ending", !.session = s, !.at = now]]
    /\ UNCHANGED <<now, blocked, total, row, keyed, sweep, overlapped, late>>

MayEndAnyRow(s) == row[s].exists
MayEnd(s) == OpenRow(s)

ReadForEnd(c) ==
    /\ call[c].stage = "ending"
    /\ IF MayEnd(call[c].session)
       THEN call' = [call EXCEPT ![c] =
              [@ EXCEPT !.stage = "closing", !.open = OpenRow(call[c].session)]]
       ELSE Ends(c)
    /\ UNCHANGED <<now, blocked, total, row, keyed, sweep, overlapped, late, calls>>

CloseAtEnd(c) ==
    LET s == call[c].session IN
    /\ call[c].stage = "closing"
    /\ Close(s, call[c].at, Span(row[s].started, call[c].at), call[c].open)
    /\ Ends(c)
    /\ UNCHANGED <<now, blocked, keyed, sweep, late, calls>>

\* A database or RPC call throws.
CallFails(c) ==
    /\ call[c].stage # "idle"
    /\ Ends(c)
    /\ UNCHANGED <<now, blocked, total, row, keyed, sweep, overlapped, late, calls>>

-----------------------------------------------------------------------------
(* finalizeStaleSessions: start, heartbeat and metrics requests all run it,  *)
(* and those of one process share the run.                                   *)

Stale(s) == OpenRow(s) /\ row[s].online /\ row[s].seen < now - Timeout

BeginSweep(w) ==
    /\ sweep[w] = {}
    /\ \E s \in Sessions : Stale(s)
    /\ sweep' = [sweep EXCEPT ![w] =
         {[session |-> s, seen |-> row[s].seen] : s \in {x \in Sessions : Stale(x)}}]
    /\ UNCHANGED <<now, blocked, total, row, keyed, call, overlapped, late, calls>>

\* Closed as of when it was last seen, according to the row the sweep read.
SweepOne(w) ==
    \E old \in sweep[w] :
        LET s == old.session
            seen == row[s].seen     \* lastSeenAt is not written
        IN  /\ Close(s, seen, Span(row[s].started, old.seen), TRUE)
            /\ sweep' = [sweep EXCEPT ![w] = @ \ {old}]
            /\ UNCHANGED <<now, blocked, keyed, call, late, calls>>

\* A write throws and the rest of the run is given up.
SweepFails(w) ==
    /\ sweep[w] # {}
    /\ sweep' = [sweep EXCEPT ![w] = {}]
    /\ UNCHANGED <<now, blocked, total, row, keyed, call, overlapped, late, calls>>

-----------------------------------------------------------------------------
(* updateWalletUserBlock: one transaction, which locks the user's row first, *)
(* so that no handler that adds to the total commits in the middle.          *)

ClosedByBlock == {s \in Sessions : OpenRow(s) /\ row[s].online}

Block ==
    LET SpanOf == [s \in Sessions |-> Span(row[s].started, now)] IN
    /\ blocked' = TRUE
    /\ row' = [s \in Sessions |->
         IF s \in ClosedByBlock
         THEN [row[s] EXCEPT !.online = FALSE, !.ended = TRUE, !.seen = now,
                             !.duration = SpanOf[s]]
         ELSE row[s]]
    /\ total' = total + SumFunctionOnSet(SpanOf, ClosedByBlock)
    /\ UNCHANGED <<now, keyed, call, sweep, overlapped, late, calls>>

Unblock ==
    /\ blocked /\ blocked' = FALSE
    /\ UNCHANGED <<now, total, row, keyed, call, sweep, overlapped, late, calls>>

Tick ==
    /\ now < MaxTime /\ now' = now + 1
    /\ UNCHANGED <<blocked, total, row, keyed, call, sweep, overlapped, late, calls>>

SessionNext ==
    \/ \E c \in Callers :
          \/ BeginStart(c) \/ TimeStart(c) \/ FindByKey(c) \/ Touch(c) \/ Create(c)
          \/ BeginHeartbeat(c) \/ ReadForHeartbeat(c) \/ Refresh(c) \/ Bar(c)
          \/ BeginEnd(c) \/ ReadForEnd(c) \/ CloseAtEnd(c) \/ CallFails(c)
    \/ \E w \in Sweepers : BeginSweep(w) \/ SweepOne(w) \/ SweepFails(w)
    \/ Block \/ Unblock \/ Tick

SessionSpec == SessionInit /\ [][SessionNext]_sessionVars

-----------------------------------------------------------------------------
(* Properties.                                                             *)

Counted == SumFunction([s \in Sessions |-> row[s].duration])

\* Every variable keeps its shape; at most one session carries the key; no
\* duration and no total is negative, although a start may stamp a row with a
\* time before the row's own.
SessionTypeOK ==
    /\ now \in Time /\ blocked \in BOOLEAN /\ total \in Nat
    /\ row \in [Sessions -> RowRecords]
    /\ keyed \subseteq Sessions /\ Cardinality(keyed) <= 1
    /\ call \in [Callers -> [stage: Stages, session: Sessions \cup {NoSession}, at: Time, key: BOOLEAN,
                        open: BOOLEAN]]
    /\ sweep \in [Sweepers -> SUBSET [session: Sessions, seen: Time]]
    /\ overlapped \in BOOLEAN /\ late \subseteq Sessions /\ calls \in 0 .. MaxCalls

\* An ended session stays ended, whatever starts and heartbeats still write to
\* it, so that it never counts as online again.
EndedForGood ==
    [][\A s \in Sessions : row[s].ended => row'[s].ended /\ ~Online(s)']_sessionVars

\* The total of a wallet is the sum of its sessions' durations, unless two
\* handlers that both read a session open both closed it; then it is never less.
TotalIsTheSum ==
    /\ total >= Counted
    /\ ~overlapped => total = Counted

\* A blocked wallet is online only through a session that a start was creating
\* while it was blocked: neither a heartbeat nor a session found by its key
\* brings it back.
BlockedIsOffline ==
    blocked => \A s \in Sessions : Online(s) => s \in late
=============================================================================
