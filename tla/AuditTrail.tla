------------------------------ MODULE AuditTrail ------------------------------
(***************************************************************************)
(* The record of what administrators do: the interceptor that reports each *)
(* change once its handler has ended, and audit-log.service.ts, which      *)
(* writes to a database of its own that may be away.  The service makes a  *)
(* connection pool, brings the schema up to date, retries on a timer, and  *)
(* gives the pool up when a write finds the connection gone.  Several of   *)
(* these may be under way at once: nothing but this.pool tells them of     *)
(* each other.                                                             *)
(***************************************************************************)
EXTENDS Naturals, FiniteSets, Sequences

CONSTANTS
    Officers,        \* requests of administrators under way at once
    LogPools, NoLogPool,
    Tries,           \* runs of initializePool under way at once
    Changes,         \* AUDIT_POOL_MIGRATIONS, in order
    MaxFlips         \* times the database of the log goes away or comes back
ASSUME AuditAssumption ==
    /\ NoLogPool \notin LogPools /\ Changes \in Nat /\ MaxFlips \in Nat

VARIABLES
    logDb,           \* whether the database answers
    migrated,        \* how many of the changes of its schema are made
    logPool,         \* this.pool
    openPools,       \* pools that have not been ended
    try,             \* runs of initializePool
    retryTimer, sweepTimer,   \* reconnectTimer, cleanupTimer
    act,             \* the request of each administrator, and its report
    listing,         \* listAdminLogs: "idle", "counted", or "broke" when the pool was gone
    poolsCrossed,    \* history: two runs, or two endings, overlapped
    flips

auditVars == <<logDb, migrated, logPool, openPools, try, retryTimer, sweepTimer, act, listing, poolsCrossed, flips>>
poolVars == <<logPool, openPools, retryTimer, sweepTimer>>

NoTry == [stage |-> "none", of |-> NoLogPool, boot |-> FALSE]
NoAct == [stage |-> "none", to |-> NoLogPool]

\* onModuleInit has begun the first run.
AuditInit ==
    /\ logDb \in BOOLEAN /\ migrated \in {0, Changes}
    /\ logPool = NoLogPool
    /\ \E t \in Tries, p \in LogPools :
         /\ try = [u \in Tries |-> IF u = t THEN [stage |-> "probe", of |-> p, boot |-> TRUE] ELSE NoTry]
         /\ openPools = {p}
    /\ retryTimer = FALSE /\ sweepTimer = FALSE
    /\ act = [o \in Officers |-> NoAct] /\ listing = "idle" /\ poolsCrossed = FALSE /\ flips = 0

DbFlips ==
    /\ flips < MaxFlips /\ flips' = flips + 1 /\ logDb' = ~logDb
    /\ UNCHANGED <<migrated, poolVars, try, act, listing, poolsCrossed>>

Trying(t) == try[t].stage # "none"
Ending(o) == act[o].stage = "ending"
Overlapped(o) == (\E p \in Officers \ {o} : Ending(p)) \/ (\E t \in Tries : Trying(t))
\* A pool whose end has begun takes no further statements.
Usable(p) == p \in openPools /\ ~\E o \in Officers : Ending(o) /\ act[o].to = p
Advances(t, stage) == try' = [try EXCEPT ![t].stage = stage]

-----------------------------------------------------------------------------
(* initializePool.                                                          *)

\* The timer fires; a pool that is there is kept.
Retry(t, p) ==
    /\ retryTimer /\ logPool = NoLogPool /\ ~Trying(t) /\ p \notin openPools
    /\ \A u \in Tries : try[u].of # p
    /\ \A o \in Officers : act[o].to # p
    /\ try' = [try EXCEPT ![t] = [stage |-> "probe", of |-> p, boot |-> FALSE]]
    /\ openPools' = openPools \cup {p}
    /\ poolsCrossed' = (poolsCrossed \/ \E u \in Tries : Trying(u))
    /\ UNCHANGED <<logDb, migrated, logPool, retryTimer, sweepTimer, act, listing, flips>>
\* SELECT 1 answers: the pool is in use from here on.
Probed(t) ==
    /\ try[t].stage = "probe" /\ logDb
    /\ logPool' = try[t].of /\ Advances(t, "schema")
    /\ UNCHANGED <<logDb, migrated, openPools, retryTimer, sweepTimer, act, listing, poolsCrossed, flips>>
\* ensureSchema: each change is made in a transaction of its own.
ChangeMade(t) ==
    /\ try[t].stage = "schema" /\ logDb /\ Usable(try[t].of) /\ migrated < Changes
    /\ migrated' = migrated + 1
    /\ UNCHANGED <<logDb, poolVars, try, act, listing, poolsCrossed, flips>>
\* The schema is found up to date.
SchemaReady(t) ==
    /\ try[t].stage = "schema" /\ logDb /\ Usable(try[t].of) /\ migrated = Changes
    /\ Advances(t, "sweep")
    /\ UNCHANGED <<logDb, migrated, poolVars, act, listing, poolsCrossed, flips>>
\* cleanupExpiredLogs has deleted old entries, or failed, and the run ends well.
Connected(t) ==
    /\ try[t].stage = "sweep"
    /\ retryTimer' = FALSE /\ sweepTimer' = TRUE
    /\ try' = [try EXCEPT ![t] = NoTry]
    /\ UNCHANGED <<logDb, migrated, logPool, openPools, act, listing, poolsCrossed, flips>>
\* Mutant: the pool of a run that failed is left open.
GivenUpNot(t) == openPools' = openPools
GivenUp(t) == openPools' = openPools \ {try[t].of}
\* A statement fails: the pool is ended, no pool is in use, and the first run starts the timer.
TryFails(t) ==
    /\ try[t].stage \in {"probe", "schema"} /\ ~(logDb /\ Usable(try[t].of))
    /\ GivenUp(t)
    /\ Advances(t, "failed")
    /\ UNCHANGED <<logDb, migrated, logPool, retryTimer, sweepTimer, act, listing, poolsCrossed, flips>>
TryFailed(t) ==
    /\ try[t].stage = "failed"
    /\ logPool' = NoLogPool
    /\ retryTimer' = (retryTimer \/ try[t].boot)
    /\ try' = [try EXCEPT ![t] = NoTry]
    /\ UNCHANGED <<logDb, migrated, openPools, sweepTimer, act, listing, poolsCrossed, flips>>

-----------------------------------------------------------------------------
(* The interceptor and logAdminAction.                                      *)

\* A request of an identified administrator that changes something reaches its handler.
Arrive(o) ==
    /\ act[o].stage = "none" /\ act' = [act EXCEPT ![o].stage = "handled"]
    /\ UNCHANGED <<logDb, migrated, poolVars, try, listing, poolsCrossed, flips>>
\* Mutant: a report that finds no pool does not set the timer.
ResumesNot == retryTimer' = retryTimer
Resumes == retryTimer' = TRUE
\* The handler ends, well or not, and reports: without a pool the report is dropped.
Report(o) ==
    /\ act[o].stage = "handled"
    /\ IF logPool = NoLogPool
       THEN Resumes /\ act' = [act EXCEPT ![o] = NoAct]
       ELSE retryTimer' = retryTimer /\ act' = [act EXCEPT ![o] = [stage |-> "writing", to |-> logPool]]
    /\ UNCHANGED <<logDb, migrated, logPool, openPools, sweepTimer, try, listing, poolsCrossed, flips>>
\* The entry is written, or is lost to an error that says nothing of the connection: no
\* table yet, a pool that is being ended.
Written(o) ==
    /\ act[o].stage = "writing" /\ (logDb \/ act[o].to \notin openPools)
    /\ act' = [act EXCEPT ![o] = NoAct]
    /\ UNCHANGED <<logDb, migrated, poolVars, try, listing, poolsCrossed, flips>>
\* The connection is gone: the sweeping stops and the pool in use, which may be another by
\* now, begins to end; without one the timer is set at once.
ConnectionLost(o) ==
    /\ act[o].stage = "writing" /\ ~logDb /\ act[o].to \in openPools
    /\ sweepTimer' = FALSE
    /\ IF logPool = NoLogPool
       THEN retryTimer' = TRUE /\ act' = [act EXCEPT ![o] = NoAct]
       ELSE retryTimer' = retryTimer /\ act' = [act EXCEPT ![o] = [stage |-> "ending", to |-> logPool]]
    /\ poolsCrossed' = (poolsCrossed \/ (logPool # NoLogPool /\ Overlapped(o)))
    /\ UNCHANGED <<logDb, migrated, logPool, openPools, try, listing, flips>>
\* The pool has ended (or another had ended it): none is in use and the timer is set.
PoolEnded(o) ==
    /\ Ending(o)
    /\ openPools' = openPools \ {act[o].to}
    /\ logPool' = NoLogPool /\ retryTimer' = TRUE
    /\ act' = [act EXCEPT ![o] = NoAct]
    /\ UNCHANGED <<logDb, migrated, sweepTimer, try, listing, poolsCrossed, flips>>

\* listAdminLogs counts the entries; without a pool it answers with none.
ListCount ==
    /\ listing # "counted" /\ logPool # NoLogPool /\ logDb /\ Usable(logPool)
    /\ listing' = "counted"
    /\ UNCHANGED <<logDb, migrated, poolVars, try, act, poolsCrossed, flips>>
\* It reads a page of them by the pool in use now: there may be none, and the call breaks.
ListRows ==
    /\ listing = "counted"
    /\ listing' = IF logPool = NoLogPool \/ ~logDb \/ ~Usable(logPool) THEN "broke" ELSE "idle"
    /\ UNCHANGED <<logDb, migrated, poolVars, try, act, poolsCrossed, flips>>

TryNext(t) ==
    \/ Probed(t) \/ ChangeMade(t) \/ SchemaReady(t) \/ Connected(t) \/ TryFails(t) \/ TryFailed(t)
    \/ \E p \in LogPools : Retry(t, p)
ReportNext(o) == Report(o) \/ Written(o) \/ ConnectionLost(o) \/ PoolEnded(o)
AuditNext ==
    \/ DbFlips \/ ListCount \/ ListRows \/ \E t \in Tries : TryNext(t)
    \/ \E o \in Officers : Arrive(o) \/ ReportNext(o)
\* Timers fire and statements end, one way or the other.
AuditFairness ==
    /\ \A t \in Tries : WF_auditVars(TryNext(t))
    /\ \A o \in Officers : WF_auditVars(ReportNext(o))
AuditSpec == AuditInit /\ [][AuditNext]_auditVars /\ AuditFairness

-----------------------------------------------------------------------------
\* A type invariant.
AuditTypeOK ==
    /\ migrated \in 0 .. Changes /\ logPool \in LogPools \cup {NoLogPool} /\ openPools \subseteq LogPools
    /\ try \in [Tries -> [stage : {"none", "probe", "schema", "sweep", "failed"},
                          of : LogPools \cup {NoLogPool}, boot : BOOLEAN]]
    /\ act \in [Officers -> [stage : {"none", "handled", "writing", "ending"},
                             to : LogPools \cup {NoLogPool}]]
    /\ listing \in {"idle", "counted", "broke"}
    /\ {logDb, retryTimer, sweepTimer, poolsCrossed} \subseteq BOOLEAN

\* A pool that is open is in use, being made or being ended: none is left behind, as long
\* as runs and endings do not overlap.
PoolsAreAccountedFor ==
    ~poolsCrossed => \A p \in openPools :
      p = logPool \/ (\E t \in Tries : try[t].of = p) \/ \E o \in Officers : Ending(o) /\ act[o].to = p

\* While administrators go on working and the database stays, reports are written again,
\* whatever runs and endings overlapped: a report that finds no pool sets the timer.
LoggingResumes ==
    <>[]logDb /\ (\A o \in Officers : []<><<Report(o)>>_auditVars) => <>[](logPool # NoLogPool)
=============================================================================
