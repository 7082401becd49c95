------------------------------- MODULE TabProofs -------------------------------
(***************************************************************************)
(* Invariants of a visitor's tab, each of one component alone: its         *)
(* presence session (SessionTracker), the wallet and its portfolio         *)
(* (WalletPortfolio), its cookie (WebCookies) and the activity feed        *)
(* (ExplorerFeed), for any number of accounts, sessions, runs, requests,   *)
(* activities and pages.  WebProofs puts them together with the rest.      *)
(***************************************************************************)
EXTENDS SessionTracker, WalletPortfolio, WebCookies, ExplorerFeed, Sums

-----------------------------------------------------------------------------
(* The tab and its presence session.                                         *)

TaskStages == {"idle", "gating", "checking", "starting", "beating", "pinging", "rechecking",
               "ending", "leaving", "dropping"}
Afterwards == {"done", "observe", "reauth", "bar", "disable"}
SessionOrNone == Ids \cup {0}
TaskRows == [stage : TaskStages, of : Maybe, session : SessionOrNone, then : Afterwards, holds : BOOLEAN]

\* What is under way is about a wallet, and about a session of it; what holds isStartingRef
\* works for the wallet that is connected.
TaskFits(r) ==
    /\ r \in TaskRows
    /\ r.stage \in {"gating", "checking", "starting", "beating", "pinging", "rechecking"} => r.of \in Accounts
    /\ r.then = "observe" => r.of \in Accounts /\ r.stage \in {"ending", "leaving"}
    /\ r.stage \in {"ending", "beating", "pinging"} => r.session # 0 /\ owner[r.session] # NoAccount
    /\ r.stage \in {"beating", "pinging"} => owner[r.session] = r.of
    /\ r.stage \in {"starting", "beating"} => r.holds
    /\ ~strayed /\ r.holds => r.of = wallet /\ starting
TasksInv == DOMAIN task = Tasks /\ \A t \in Tasks : TaskFits(task[t])

RestTyped ==
    /\ token \in Maybe /\ barred \subseteq Accounts /\ signed \subseteq Accounts /\ connectOn \in BOOLEAN
    /\ modal.of \in Maybe /\ (modal.stage # "none" => modal.of \in Accounts)
TabTyped ==
    /\ wallet \in Maybe /\ observed \in Maybe
    /\ starting \in BOOLEAN /\ had \in BOOLEAN /\ strayed \in BOOLEAN
    /\ saved \in [Accounts -> SessionOrNone] /\ owner \in [Ids -> Maybe]
    /\ active \in SessionOrNone /\ loop \in SessionOrNone /\ live \subseteq Ids /\ lost \subseteq Ids
\* Sessions have owners, and what is stored for a wallet is of it.
SessionsInv ==
    /\ \A w \in Accounts : saved[w] # 0 => owner[saved[w]] = w
    /\ active # 0 => owner[active] # NoAccount
    /\ \A s \in live : owner[s] # NoAccount
\* What is open is the session of the tab, or is being ended, or was lost.
OpenInv ==
    \A s \in live : \/ s = active \/ s \in lost
                    \/ \E t \in Tasks : task[t].stage = "ending" /\ task[t].session = s
\* A switch is to be observed to w.
WillObserve(t) == task[t].then = "observe"
\* While nothing strayed, the last wallet seen is the one connected or will be, and the session
\* is of the wallet connected unless a switch to another will be observed, which strays.
FollowInv ==
    ~strayed =>
      /\ \A t, u \in Tasks : task[t].holds /\ task[u].holds => t = u
      /\ observed = wallet \/ \E t \in Tasks : WillObserve(t) /\ task[t].of = wallet
      /\ active # 0 => \/ owner[active] = wallet
                       \/ \E t \in Tasks : WillObserve(t) /\ task[t].of # wallet
      /\ wallet = NoAccount => active = 0
TrackerInv == RestTyped /\ TabTyped /\ TasksInv /\ SessionsInv /\ OpenInv /\ FollowInv

LEMMA TaskFields ==
  ASSUME NEW r \in TaskRows
  PROVE  /\ r.stage \in TaskStages /\ r.of \in Maybe /\ r.session \in SessionOrNone
         /\ r.then \in Afterwards /\ r.holds \in BOOLEAN
  BY DEF TaskRows

LEMMA IdleFits ==
  /\ Idle \in TaskRows /\ Idle.stage = "idle" /\ Idle.of = NoAccount /\ Idle.session = 0
  /\ Idle.then = "done" /\ Idle.holds = FALSE
  /\ TaskFits(Idle)
<1>1. /\ Idle.stage = "idle" /\ Idle.of = NoAccount /\ Idle.session = 0
      /\ Idle.then = "done" /\ Idle.holds = FALSE
  BY DEF Idle
<1>2. Idle \in TaskRows
  BY DEF Idle, TaskRows, TaskStages, Afterwards, SessionOrNone, Maybe
<1> QED
  BY <1>1, <1>2 DEF TaskFits

LEMMA NoIdIsNone == 0 \notin Ids
  BY TrackerAssumption DEF Ids

LEMMA InitTrackerInv == TrackerInit => TrackerInv
<1> SUFFICES ASSUME TrackerInit PROVE TrackerInv
  OBVIOUS
<1>1. \A t \in Tasks : task[t] = Idle
  BY DEF TrackerInit
<1>2. TasksInv
  BY <1>1, IdleFits DEF TasksInv, TrackerInit
<1>3. RestTyped
  BY DEF RestTyped, TrackerInit, Maybe
<1>4. TabTyped
  BY DEF TabTyped, TrackerInit, Maybe, SessionOrNone
<1>5. SessionsInv /\ OpenInv
  BY DEF SessionsInv, OpenInv, TrackerInit
<1>6. FollowInv
  BY <1>1, IdleFits DEF FollowInv, TrackerInit
<1> QED
  BY <1>2, <1>3, <1>4, <1>5, <1>6 DEF TrackerInv

-----------------------------------------------------------------------------
\* What one step of one task may do.

OwnersStay == \A s \in Ids : owner[s] # NoAccount => owner'[s] = owner[s]

\* Another task fits as before, if what it holds is not let go under it.
LEMMA TaskStays ==
  ASSUME NEW r, TaskFits(r), OwnersStay,
         ~strayed' => ~strayed /\ (r.holds => starting' /\ wallet' = wallet)
  PROVE  TaskFits(r)'
<1>1. r.session \in Ids \cup {0}
  BY TaskFields DEF TaskFits, SessionOrNone
<1> QED
  BY <1>1 DEF TaskFits, OwnersStay

LEMMA TaskMoves ==
  ASSUME TrackerInv, NEW t \in Tasks, NEW r, task' = [task EXCEPT ![t] = r], TaskFits(r)', OwnersStay,
         ~strayed' => ~strayed /\ \A u \in Tasks \ {t} : task[u].holds => starting' /\ wallet' = wallet
  PROVE  TasksInv' /\ task'[t] = r /\ \A u \in Tasks \ {t} : task'[u] = task[u]
<1>1. /\ DOMAIN task' = Tasks /\ task'[t] = r /\ \A u \in Tasks \ {t} : task'[u] = task[u]
  BY DEF TrackerInv, TasksInv
<1>2. ASSUME NEW u \in Tasks \ {t} PROVE TaskFits(task[u])'
  <2>1. PICK q : q = task[u]
    OBVIOUS
  <2>2. TaskFits(q) /\ task'[u] = q
    BY <1>1, <2>1 DEF TrackerInv, TasksInv
  <2>3. TaskFits(q)'
    BY <2>1, <2>2, TaskStays
  <2> QED
    BY <2>2, <2>3
<1>3. TaskFits(task[t])'
  BY <1>1
<1> QED
  BY <1>1, <1>2, <1>3 DEF TasksInv

\* A step of a task that was neither ending a session nor about to observe a switch.
LEMMA TabMoves ==
  ASSUME TrackerInv, NEW t \in Tasks, NEW r, task' = [task EXCEPT ![t] = r], TaskFits(r)', OwnersStay,
         task[t].stage # "ending", task[t].then # "observe",
         RestTyped', TabTyped', SessionsInv', lost \subseteq lost',
         \A s \in live' : \/ s = active' \/ s \in lost' \/ (r.stage = "ending" /\ r.session = s)
                          \/ s \in live /\ s # active,
         ~strayed' => ~strayed /\ \A u \in Tasks \ {t} : task[u].holds => starting' /\ wallet' = wallet /\ ~r.holds,
         ~strayed' => \/ observed' = wallet' \/ (observed' = observed /\ wallet' = wallet)
                      \/ r.then = "observe" /\ r.of = wallet',
         ~strayed' /\ active' # 0 =>
            \/ owner'[active'] = wallet'
            \/ wallet' = wallet /\ active # 0 /\ owner'[active'] = owner[active]
            \/ \E u \in Tasks \ {t} : WillObserve(u) /\ task[u].of # wallet',
         ~strayed' /\ wallet' = NoAccount => active' = 0
  PROVE  TrackerInv'
<1>1. TasksInv' /\ task'[t] = r /\ \A u \in Tasks \ {t} : task'[u] = task[u]
  BY TaskMoves
<1>2. OpenInv'
  <2> SUFFICES ASSUME NEW s \in live'
               PROVE  \/ s = active' \/ s \in lost'
                      \/ \E u \in Tasks : task'[u].stage = "ending" /\ task'[u].session = s
    BY DEF OpenInv
  <2>1. CASE s \in live /\ s # active
    <3>1. s \in lost \/ \E u \in Tasks : task[u].stage = "ending" /\ task[u].session = s
      BY <2>1 DEF TrackerInv, OpenInv
    <3>2. \A u \in Tasks : task[u].stage = "ending" => u # t /\ task'[u] = task[u]
      BY <1>1
    <3> QED
      BY <3>1, <3>2
  <2>2. CASE r.stage = "ending" /\ r.session = s
    BY <1>1, <2>2
  <2> QED
    BY <2>1, <2>2
<1>3. FollowInv'
  <2> SUFFICES ASSUME ~strayed' PROVE FollowInv'
    BY DEF FollowInv
  <2>1. \A u \in Tasks : WillObserve(u) => u # t /\ task'[u] = task[u]
    BY <1>1 DEF WillObserve
  <2>2. \A u \in Tasks \ {t} : WillObserve(u) => task'[u].then = "observe" /\ task'[u].of = task[u].of
    BY <1>1 DEF WillObserve
  <2>3. ~strayed /\ \A u, v \in Tasks : task[u].holds /\ task[v].holds => u = v
    BY DEF TrackerInv, FollowInv
  <2>4. \A u, v \in Tasks : task'[u].holds /\ task'[v].holds => u = v
    <3>1. \A u \in Tasks \ {t} : task'[u].holds => task[u].holds /\ ~task'[t].holds
      BY <1>1
    <3> QED
      BY <2>3, <3>1
  <2>5. observed' = wallet' \/ \E u \in Tasks : task'[u].then = "observe" /\ task'[u].of = wallet'
    <3>1. CASE observed' = observed /\ wallet' = wallet
      BY <2>1, <2>3, <3>1 DEF TrackerInv, FollowInv, WillObserve
    <3>2. CASE r.then = "observe" /\ r.of = wallet'
      BY <1>1, <3>2
    <3> QED
      BY <3>1, <3>2
  <2>6. active' # 0 => \/ owner'[active'] = wallet'
                       \/ \E u \in Tasks : task'[u].then = "observe" /\ task'[u].of # wallet'
    <3>1. CASE wallet' = wallet /\ active # 0 /\ owner'[active'] = owner[active]
      BY <2>1, <2>3, <3>1 DEF TrackerInv, FollowInv, WillObserve
    <3>2. CASE \E u \in Tasks \ {t} : WillObserve(u) /\ task[u].of # wallet'
      BY <2>2, <3>2
    <3> QED
      BY <3>1, <3>2
  <2> QED
    BY <2>4, <2>5, <2>6 DEF FollowInv, WillObserve
<1> QED
  BY <1>1, <1>2, <1>3 DEF TrackerInv

LEMMA RowsFit ==
  ASSUME TrackerInv, NEW t \in Tasks
  PROVE  /\ TaskFits(task[t]) /\ task[t] \in TaskRows
         /\ task[t].stage \in TaskStages /\ task[t].of \in Maybe /\ task[t].session \in SessionOrNone
         /\ task[t].then \in Afterwards /\ task[t].holds \in BOOLEAN
  BY TaskFields DEF TrackerInv, TasksInv, TaskFits

LEMMA IdleWillFit == TaskFits(Idle)'
  BY IdleFits DEF TaskFits

\* Who holds isStartingRef is the only one, and works for the wallet connected.
LEMMA OneHolder ==
  ASSUME TrackerInv, ~strayed, NEW t \in Tasks, task[t].holds
  PROVE  /\ task[t].of = wallet /\ starting
         /\ \A u \in Tasks \ {t} : ~task[u].holds
  BY RowsFit DEF TaskFits, TrackerInv, FollowInv

\* closeActiveSession.
LEMMA ClosingFits ==
  ASSUME TrackerInv, owner' = owner, NEW w \in Maybe, NEW then \in Afterwards, NEW holds \in BOOLEAN,
         then = "observe" => w \in Accounts,
         ~strayed' /\ holds => w = wallet' /\ starting',
         NEW r, r = [stage |-> IF active = 0 THEN "leaving" ELSE "ending", of |-> w, session |-> active,
                     then |-> then, holds |-> holds]
  PROVE  /\ TaskFits(r)' /\ r.session = active /\ r.of = w /\ r.then = then /\ r.holds = holds
         /\ active # 0 => r.stage = "ending"
<1>1. PICK stage : stage = IF active = 0 THEN "leaving" ELSE "ending"
  OBVIOUS
<1>2. stage \in TaskStages
  BY <1>1 DEF TaskStages
<1>3. /\ active \in SessionOrNone /\ (active # 0 => owner[active] # NoAccount)
  BY DEF TrackerInv, TabTyped, SessionsInv
<1>4. r = [stage |-> stage, of |-> w, session |-> active, then |-> then, holds |-> holds]
  BY <1>1
<1>5. r \in TaskRows
  BY <1>2, <1>3, <1>4 DEF TaskRows
<1>6. /\ r.session = active /\ r.of = w /\ r.then = then /\ r.holds = holds /\ r.stage = stage
  BY <1>4
<1>7. /\ stage \in {"ending", "leaving"} /\ (stage = "ending" <=> active # 0)
  BY <1>1
<1>8. TaskFits(r)'
  BY <1>3, <1>5, <1>6, <1>7 DEF TaskFits
<1> QED
  BY <1>6, <1>7, <1>8

\* A task closes the session of the tab, for what but a switch.
LEMMA TabCloses ==
  ASSUME TrackerInv, NEW t \in Tasks, task[t].stage # "ending", task[t].then # "observe",
         NEW w \in Maybe, NEW then \in Afterwards \ {"observe"}, NEW holds \in BOOLEAN,
         holds => task[t].holds /\ task[t].of = w,
         Close(t, w, then, holds), RestTyped',
         UNCHANGED <<wallet, starting, observed, had, saved, owner, live, lost, strayed>>
  PROVE  TrackerInv'
<1>1. PICK r : r = [stage |-> IF active = 0 THEN "leaving" ELSE "ending", of |-> w, session |-> active,
                    then |-> then, holds |-> holds]
  OBVIOUS
<1>2. /\ active' = 0 /\ loop' = 0 /\ task' = [task EXCEPT ![t] = r]
  BY <1>1 DEF Close
<1>3. ~strayed /\ holds => w = wallet /\ starting
  BY OneHolder
<1>4. /\ TaskFits(r)' /\ r.session = active /\ r.of = w /\ r.then = then /\ r.holds = holds
      /\ active # 0 => r.stage = "ending"
  BY <1>1, <1>3, ClosingFits
<1>5. TabTyped'
  BY <1>2 DEF TrackerInv, TabTyped, SessionOrNone
<1>6. SessionsInv'
  BY <1>2 DEF TrackerInv, SessionsInv
<1>7. OwnersStay
  BY DEF OwnersStay
<1>8. \A s \in live' : \/ s = active' \/ s \in lost' \/ (r.stage = "ending" /\ r.session = s)
                       \/ s \in live /\ s # active
  BY <1>4, NoIdIsNone DEF TrackerInv, TabTyped
<1>9. ~strayed' => ~strayed /\ \A u \in Tasks \ {t} : task[u].holds => starting' /\ wallet' = wallet /\ ~r.holds
  <2> SUFFICES ASSUME ~strayed, NEW u \in Tasks \ {t}, task[u].holds PROVE starting /\ ~holds
    BY <1>4
  <2>1. starting /\ ~task[t].holds
    BY OneHolder
  <2> QED
    BY <2>1
<1> QED
  BY <1>2, <1>4, <1>5, <1>6, <1>7, <1>8, <1>9, TabMoves

\* A function ends.
LEMMA TabFinishes ==
  ASSUME TrackerInv, NEW t \in Tasks, task[t].stage # "ending", task[t].then # "observe",
         NEW holds \in BOOLEAN, holds => task[t].holds,
         task' = [task EXCEPT ![t] = Idle], starting' = (starting /\ ~holds),
         wallet' = wallet, observed' = observed, OwnersStay,
         RestTyped', TabTyped', SessionsInv', lost \subseteq lost',
         \A s \in live' : s = active' \/ s \in lost' \/ (s \in live /\ s # active),
         ~strayed' => ~strayed,
         ~strayed' /\ active' # 0 =>
            owner'[active'] = wallet' \/ (active # 0 /\ owner'[active'] = owner[active]),
         ~strayed' /\ wallet' = NoAccount => active' = 0
  PROVE  TrackerInv'
<1>1. ~strayed' => ~strayed /\ \A u \in Tasks \ {t} : task[u].holds => starting' /\ wallet' = wallet /\ ~Idle.holds
  <2> SUFFICES ASSUME ~strayed, NEW u \in Tasks \ {t}, task[u].holds PROVE starting /\ ~holds
    BY IdleFits
  <2>1. starting /\ ~task[t].holds
    BY OneHolder
  <2> QED
    BY <2>1
<1> QED
  BY <1>1, IdleWillFit, TabMoves

\* A forced logout.
LEMMA TabIsForcedOut ==
  ASSUME TrackerInv, NEW t \in Tasks, task[t].stage # "ending", task[t].then # "observe",
         NEW w \in Maybe, NEW what \in {"bar", "disable"}, NEW holds \in BOOLEAN,
         holds => task[t].holds /\ task[t].of = w,
         ForcedLogout(t, w, what, holds), RestTyped',
         UNCHANGED <<wallet, observed, had, saved, owner, live, lost, strayed>>
  PROVE  TrackerInv'
<1>1. CASE Handling(what)
  <2>1. /\ task' = [task EXCEPT ![t] = Idle] /\ UNCHANGED <<active, loop>>
        /\ starting' = (starting /\ ~holds)
    BY <1>1 DEF ForcedLogout
  <2>2. TabTyped'
    BY <2>1 DEF TrackerInv, TabTyped
  <2>3. SessionsInv'
    BY <2>1 DEF TrackerInv, SessionsInv
  <2>4. OwnersStay
    BY DEF OwnersStay
  <2>5. ~strayed /\ wallet = NoAccount => active = 0
    BY DEF TrackerInv, FollowInv
  <2> QED
    BY <2>1, <2>2, <2>3, <2>4, <2>5, TabFinishes
<1>2. CASE ~Handling(what)
  <2>1. Close(t, w, what, holds) /\ UNCHANGED starting
    BY <1>2 DEF ForcedLogout
  <2>2. what \in Afterwards \ {"observe"}
    BY DEF Afterwards
  <2> QED
    BY <2>1, <2>2, TabCloses
<1> QED
  BY <1>1, <1>2

-----------------------------------------------------------------------------
\* syncSession up to its first await.

\* A row that waits to look at the gate.
LEMMA GatingFits ==
  ASSUME NEW w \in Accounts, NEW r, r = [Idle EXCEPT !.stage = "gating", !.of = w]
  PROVE  /\ TaskFits(r)' /\ r.stage = "gating" /\ r.of = w /\ r.then = "done" /\ r.holds = FALSE
<1>1. /\ r.stage = "gating" /\ r.of = w /\ r.session = 0 /\ r.then = "done" /\ r.holds = FALSE
      /\ r \in TaskRows
  BY DEF Idle, TaskRows, TaskStages, Afterwards, SessionOrNone, Maybe
<1> QED
  BY <1>1 DEF TaskFits

LEMMA TabSyncs ==
  ASSUME TrackerInv, NEW t \in Tasks, task[t].stage # "ending", task[t].then # "observe",
         NEW w \in Maybe, wallet' = w, SyncBegins(t, w), RestTyped',
         UNCHANGED <<starting, owner, live, lost>>
  PROVE  TrackerInv'
<1>1. OwnersStay
  BY DEF OwnersStay
<1>2. ~strayed /\ ~starting => \A u \in Tasks : ~task[u].holds
  BY OneHolder
<1>3. \A s \in live' : s \in live
  OBVIOUS
<1>4. CASE starting /\ strayed' = TRUE /\ task' = [task EXCEPT ![t] = Idle]
           /\ UNCHANGED <<active, loop, observed, had, saved>>
  <2>1. TabTyped'
    BY <1>4 DEF TrackerInv, TabTyped
  <2>2. SessionsInv'
    BY <1>4 DEF TrackerInv, SessionsInv
  <2>3. strayed' /\ active' = active
    BY <1>4
  <2>4. task' = [task EXCEPT ![t] = Idle]
    BY <1>4
  <2> QED
    BY <1>1, <1>3, <2>1, <2>2, <2>3, <2>4, IdleWillFit, TabMoves
<1>5. CASE /\ ~starting /\ w = NoAccount /\ observed' = NoAccount /\ had' = FALSE /\ UNCHANGED <<saved, strayed>>
           /\ Close(t, w, "done", FALSE)
  <2>1. PICK r : r = [stage |-> IF active = 0 THEN "leaving" ELSE "ending", of |-> w, session |-> active,
                      then |-> "done", holds |-> FALSE]
    OBVIOUS
  <2>2. /\ active' = 0 /\ loop' = 0 /\ task' = [task EXCEPT ![t] = r]
    BY <1>5, <2>1 DEF Close
  <2>3. "done" \in Afterwards
    BY DEF Afterwards
  <2>4. PICK then : then = "done"
    OBVIOUS
  <2>5. PICK holds \in BOOLEAN : holds = FALSE
    OBVIOUS
  <2>6. r = [stage |-> IF active = 0 THEN "leaving" ELSE "ending", of |-> w, session |-> active,
             then |-> then, holds |-> holds]
    BY <2>1, <2>4, <2>5
  <2>7. /\ TaskFits(r)' /\ r.session = active /\ r.of = w /\ r.then = "done" /\ ~r.holds
        /\ active # 0 => r.stage = "ending"
    BY <2>3, <2>4, <2>5, <2>6, ClosingFits
  <2>8. TabTyped'
    BY <1>5, <2>2 DEF TrackerInv, TabTyped, SessionOrNone
  <2>9. SessionsInv'
    BY <1>5, <2>2 DEF TrackerInv, SessionsInv
  <2>10. \A s \in live' : \/ s = active' \/ s \in lost' \/ (r.stage = "ending" /\ r.session = s)
                          \/ s \in live /\ s # active
    BY <1>3, <2>7, NoIdIsNone DEF TrackerInv, TabTyped
  <2>11. strayed' = strayed /\ observed' = wallet' /\ ~starting
    BY <1>5
  <2> QED
    BY <1>1, <1>2, <2>2, <2>7, <2>8, <2>9, <2>10, <2>11, TabMoves
<1>6. CASE /\ ~starting /\ w = NoAccount /\ observed' = NoAccount /\ had' = FALSE /\ UNCHANGED <<saved, strayed>>
           /\ active = 0 /\ loop' = 0 /\ task' = [task EXCEPT ![t] = Idle] /\ UNCHANGED active
  <2>1. TabTyped'
    BY <1>6 DEF TrackerInv, TabTyped, SessionOrNone
  <2>2. SessionsInv'
    BY <1>6 DEF TrackerInv, SessionsInv
  <2>3. strayed' = strayed /\ observed' = wallet' /\ ~starting /\ active' = 0 /\ active = 0
    BY <1>6
  <2>4. task' = [task EXCEPT ![t] = Idle]
    BY <1>6
  <2> QED
    BY <1>1, <1>2, <1>3, <2>1, <2>2, <2>3, <2>4, IdleWillFit, IdleFits, TabMoves
<1>7. CASE /\ ~starting /\ w # NoAccount /\ ~Switched(w) /\ had' = TRUE /\ observed' = w
           /\ task' = [task EXCEPT ![t] = [Idle EXCEPT !.stage = "gating", !.of = w]]
           /\ UNCHANGED <<active, loop, saved, strayed>>
  <2>1. PICK r : r = [Idle EXCEPT !.stage = "gating", !.of = w]
    OBVIOUS
  <2>2. task' = [task EXCEPT ![t] = r]
    BY <1>7, <2>1
  <2>3. w \in Accounts
    BY <1>7 DEF Maybe
  <2>4. /\ TaskFits(r)' /\ r.stage = "gating" /\ r.of = w /\ r.then = "done" /\ r.holds = FALSE
    BY <2>1, <2>3, GatingFits
  <2>5. TabTyped'
    BY <1>7 DEF TrackerInv, TabTyped
  <2>6. SessionsInv'
    BY <1>7 DEF TrackerInv, SessionsInv
  <2>7. strayed' = strayed /\ observed' = wallet' /\ ~starting /\ active' = active /\ wallet' # NoAccount
    BY <1>7
  <2>8. ASSUME ~strayed, active # 0
        PROVE  wallet' = wallet \/ \E u \in Tasks \ {t} : WillObserve(u) /\ task[u].of # wallet'
    <3>1. CASE wallet = w
      BY <3>1
    <3>2. CASE wallet # w
      <4>1. wallet # NoAccount
        BY <2>8 DEF TrackerInv, FollowInv
      <4>2. observed # wallet
        BY <1>7, <3>2, <4>1 DEF Switched
      <4>3. PICK u \in Tasks : WillObserve(u) /\ task[u].of = wallet
        BY <2>8, <4>2 DEF TrackerInv, FollowInv
      <4>4. u # t
        BY <4>3 DEF WillObserve
      <4> QED
        BY <3>2, <4>3, <4>4
    <3> QED
      BY <3>1, <3>2
  <2>9. owner' = owner
    OBVIOUS
  <2> QED
    BY <1>1, <1>2, <1>3, <2>2, <2>4, <2>5, <2>6, <2>7, <2>8, <2>9, TabMoves
<1>8. CASE /\ ~starting /\ w # NoAccount /\ had' = TRUE /\ Stores(observed, 0)
           /\ Close(t, w, "observe", FALSE) /\ UNCHANGED <<observed, strayed>>
  <2>1. PICK r : r = [stage |-> IF active = 0 THEN "leaving" ELSE "ending", of |-> w, session |-> active,
                      then |-> "observe", holds |-> FALSE]
    OBVIOUS
  <2>2. /\ active' = 0 /\ loop' = 0 /\ task' = [task EXCEPT ![t] = r]
    BY <1>8, <2>1 DEF Close
  <2>3. "observe" \in Afterwards /\ w \in Accounts
    BY <1>8 DEF Afterwards, Maybe
  <2>4. PICK then : then = "observe"
    OBVIOUS
  <2>5. PICK holds \in BOOLEAN : holds = FALSE
    OBVIOUS
  <2>6. r = [stage |-> IF active = 0 THEN "leaving" ELSE "ending", of |-> w, session |-> active,
             then |-> then, holds |-> holds]
    BY <2>1, <2>4, <2>5
  <2>7. /\ TaskFits(r)' /\ r.session = active /\ r.of = w /\ r.then = "observe" /\ ~r.holds
        /\ active # 0 => r.stage = "ending"
    BY <2>3, <2>4, <2>5, <2>6, ClosingFits
  <2>8. saved' \in [Accounts -> SessionOrNone] /\ \A x \in Accounts : saved'[x] = saved[x] \/ saved'[x] = 0
    BY <1>8 DEF Stores, TrackerInv, TabTyped, SessionOrNone
  <2>9. TabTyped'
    BY <1>8, <2>2, <2>8 DEF TrackerInv, TabTyped, SessionOrNone
  <2>10. SessionsInv'
    BY <1>8, <2>2, <2>8 DEF TrackerInv, SessionsInv
  <2>11. \A s \in live' : \/ s = active' \/ s \in lost' \/ (r.stage = "ending" /\ r.session = s)
                          \/ s \in live /\ s # active
    BY <1>3, <2>7, NoIdIsNone DEF TrackerInv, TabTyped
  <2>12. strayed' = strayed /\ ~starting
    BY <1>8
  <2> QED
    BY <1>1, <1>2, <2>2, <2>7, <2>9, <2>10, <2>11, <2>12, TabMoves
<1>9. \/ starting /\ strayed' = TRUE /\ task' = [task EXCEPT ![t] = Idle]
         /\ UNCHANGED <<active, loop, observed, had, saved>>
      \/ /\ ~starting /\ w = NoAccount /\ observed' = NoAccount /\ had' = FALSE /\ UNCHANGED <<saved, strayed>>
         /\ Close(t, w, "done", FALSE)
      \/ /\ ~starting /\ w = NoAccount /\ observed' = NoAccount /\ had' = FALSE /\ UNCHANGED <<saved, strayed>>
         /\ active = 0 /\ loop' = 0 /\ task' = [task EXCEPT ![t] = Idle] /\ UNCHANGED active
      \/ /\ ~starting /\ w # NoAccount /\ ~Switched(w) /\ had' = TRUE /\ observed' = w
         /\ task' = [task EXCEPT ![t] = [Idle EXCEPT !.stage = "gating", !.of = w]]
         /\ UNCHANGED <<active, loop, saved, strayed>>
      \/ /\ ~starting /\ w # NoAccount /\ had' = TRUE /\ Stores(observed, 0)
         /\ Close(t, w, "observe", FALSE) /\ UNCHANGED <<observed, strayed>>
  BY DEF SyncBegins
<1> QED
  BY <1>4, <1>5, <1>6, <1>7, <1>8, <1>9

\* Tasks at these stages neither end a session nor wait to observe a switch.
LEMMA PlainTask ==
  ASSUME TrackerInv, NEW t \in Tasks, task[t].stage \notin {"ending", "leaving"}
  PROVE  task[t].stage # "ending" /\ task[t].then # "observe"
  BY RowsFit DEF TaskFits

LEMMA DropKeeps == ASSUME TrackerInv, NEW t \in Tasks, Drop(t) PROVE TrackerInv'
<1>1. task[t].stage # "ending" /\ task[t].then # "observe"
  BY PlainTask DEF Drop
<1>2. PICK w \in Maybe : w = NoAccount
  BY DEF Maybe
<1>3. wallet' = w /\ SyncBegins(t, w) /\ UNCHANGED <<starting, owner, live, lost>>
  BY <1>2 DEF Drop
<1>4. RestTyped'
  BY DEF Drop, TrackerInv, RestTyped
<1> QED
  BY <1>1, <1>3, <1>4, TabSyncs

LEMMA ChooseKeeps == ASSUME TrackerInv, NEW t \in Tasks, NEW w \in Maybe, Choose(t, w) PROVE TrackerInv'
<1>1. task[t].stage # "ending" /\ task[t].then # "observe"
  BY PlainTask DEF Choose, FreeTask
<1>2. wallet' = w /\ SyncBegins(t, w) /\ UNCHANGED <<starting, owner, live, lost>>
  BY DEF Choose, apiVars
<1>3. RestTyped'
  BY DEF Choose, TrackerInv, RestTyped, apiVars
<1> QED
  BY <1>1, <1>2, <1>3, TabSyncs

LEMMA MarkKeeps == ASSUME TrackerInv, NEW t \in Tasks, Mark(t) PROVE TrackerInv'
<1>1. task[t].stage # "ending" /\ task[t].then # "observe"
  BY PlainTask DEF Mark, FreeTask
<1>2. PICK w \in Maybe : w = wallet
  BY DEF TrackerInv, TabTyped
<1>3. wallet' = w /\ SyncBegins(t, w) /\ UNCHANGED <<starting, owner, live, lost>>
  BY <1>2 DEF Mark, apiVars
<1>4. modal.of \in Accounts
  BY DEF Mark, TrackerInv, RestTyped
<1>5. modal'.stage = "none" /\ modal'.of = NoAccount
  BY DEF Mark
<1>6. RestTyped'
  BY <1>4, <1>5 DEF Mark, TrackerInv, RestTyped, apiVars, Maybe
<1> QED
  BY <1>1, <1>3, <1>6, TabSyncs

LEMMA SignBarredKeeps == ASSUME TrackerInv, NEW t \in Tasks, SignBarred(t) PROVE TrackerInv'
<1>1. task[t].stage # "ending" /\ task[t].then # "observe"
  BY PlainTask DEF SignBarred, FreeTask
<1>2. PICK w \in Maybe : w = NoAccount
  BY DEF Maybe
<1>3. wallet' = w /\ SyncBegins(t, w) /\ UNCHANGED <<starting, owner, live, lost>>
  BY <1>2 DEF SignBarred, apiVars
<1>4. modal'.stage = "none" /\ modal'.of = NoAccount
  BY DEF SignBarred
<1>5. RestTyped'
  BY <1>4 DEF SignBarred, TrackerInv, RestTyped, apiVars, Maybe
<1> QED
  BY <1>1, <1>3, <1>5, TabSyncs

-----------------------------------------------------------------------------
\* Ending a session, and what comes after.

LEMMA RestStays ==
  ASSUME TrackerInv, UNCHANGED <<token, barred, signed, connectOn, modal>> PROVE RestTyped'
  BY DEF TrackerInv, RestTyped

\* A row goes on to another stage.
LEMMA StageMoves ==
  ASSUME TrackerInv, NEW t \in Tasks, NEW stage \in TaskStages, To(t, stage),
         NEW r, r = [task[t] EXCEPT !.stage = stage]
  PROVE  /\ task' = [task EXCEPT ![t] = r] /\ r \in TaskRows /\ r.stage = stage /\ r.of = task[t].of
         /\ r.session = task[t].session /\ r.then = task[t].then /\ r.holds = task[t].holds
<1>1. task' = [task EXCEPT ![t] = r]
  BY DEF To
<1>2. PICK q \in TaskRows : q = task[t]
  BY RowsFit
<1>3. /\ r \in TaskRows /\ r.stage = stage /\ r.of = q.of /\ r.session = q.session
      /\ r.then = q.then /\ r.holds = q.holds
  BY <1>2 DEF TaskRows
<1> QED
  BY <1>1, <1>2, <1>3

LEMMA EndSessionKeeps == ASSUME TrackerInv, NEW t \in Tasks, End(t) PROVE TrackerInv'
<1>1. PICK stage \in TaskStages : stage = "leaving"
  BY DEF TaskStages
<1>2. PICK r : r = [task[t] EXCEPT !.stage = stage]
  OBVIOUS
<1>3. PICK s : s = task[t].session
  OBVIOUS
<1>4. PICK q : q = task[t]
  OBVIOUS
<1>5. /\ q.stage = "ending" /\ s = q.session /\ To(t, stage) /\ Ended(s) /\ Stores(owner[s], 0)
      /\ UNCHANGED <<wallet, connectOn, barred, token, signed, active, loop, starting, observed,
                     had, modal, owner, strayed, moves>>
  BY <1>1, <1>3, <1>4 DEF End
<1>6. /\ TaskFits(q) /\ s # 0 /\ s \in Ids
  BY <1>3, <1>4, <1>5, RowsFit DEF TaskFits, SessionOrNone
<1>7. /\ task' = [task EXCEPT ![t] = r] /\ r \in TaskRows /\ r.stage = stage /\ r.of = q.of
      /\ r.session = q.session /\ r.then = q.then /\ r.holds = q.holds
  BY <1>2, <1>4, <1>5, StageMoves
<1>8. TaskFits(r)'
  BY <1>1, <1>5, <1>6, <1>7 DEF TaskFits
<1>9. OwnersStay
  BY <1>5 DEF OwnersStay
<1>10. ~strayed' => ~strayed /\ \A u \in Tasks \ {t} : task[u].holds => starting' /\ wallet' = wallet
  BY <1>5, OneHolder
<1>11. TasksInv' /\ task'[t] = r /\ \A u \in Tasks \ {t} : task'[u] = task[u]
  BY <1>7, <1>8, <1>9, <1>10, TaskMoves
<1>12. /\ saved' \in [Accounts -> SessionOrNone] /\ \A x \in Accounts : saved'[x] = saved[x] \/ saved'[x] = 0
  BY <1>5 DEF Stores, TrackerInv, TabTyped, SessionOrNone
<1>13. live' \subseteq live /\ lost \subseteq lost' /\ lost' \subseteq Ids /\ (s \notin live' \/ s \in lost')
  BY <1>5, <1>6 DEF Ended, TrackerInv, TabTyped
<1>14. TabTyped'
  BY <1>5, <1>12, <1>13 DEF TrackerInv, TabTyped
<1>15. SessionsInv'
  BY <1>5, <1>12, <1>13 DEF TrackerInv, SessionsInv
<1>16. OpenInv'
  <2> SUFFICES ASSUME NEW x \in live', x # active, x \notin lost'
               PROVE  \E u \in Tasks : task'[u].stage = "ending" /\ task'[u].session = x
    BY <1>5 DEF OpenInv
  <2>1. PICK u \in Tasks : task[u].stage = "ending" /\ task[u].session = x
    BY <1>13 DEF TrackerInv, OpenInv
  <2>2. u # t
    BY <1>3, <1>13, <2>1
  <2> QED
    BY <1>11, <2>1, <2>2
<1>17. FollowInv'
  <2>1. \A u \in Tasks : task'[u].then = task[u].then /\ task'[u].of = task[u].of /\ task'[u].holds = task[u].holds
    BY <1>4, <1>7, <1>11
  <2> QED
    BY <1>5, <2>1 DEF TrackerInv, FollowInv, WillObserve
<1>18. RestTyped'
  BY <1>5, RestStays
<1> QED
  BY <1>11, <1>14, <1>15, <1>16, <1>17, <1>18 DEF TrackerInv

\* Leaving for good, or before the tab is dropped.
LEMMA LeaveKeeps == ASSUME TrackerInv, NEW t \in Tasks, Leave(t) PROVE TrackerInv'
<1>1. PICK w : w = task[t].of
  OBVIOUS
<1>2. /\ task[t].stage = "leaving" /\ token' \in {token, NoAccount} /\ w \in Maybe
      /\ UNCHANGED <<wallet, connectOn, barred, active, loop, had, modal, owner, live, lost, moves>>
  BY <1>1, RowsFit DEF Leave
<1>3. OwnersStay
  BY <1>2 DEF OwnersStay
<1>4. token' \in Maybe
  BY <1>2 DEF TrackerInv, RestTyped, Maybe
<1>5. \A s \in live' : s = active' \/ s \in lost' \/ (s \in live /\ s # active)
  BY <1>2
<1>6. PICK holds \in BOOLEAN : holds = task[t].holds
  BY RowsFit
<1>7. ~strayed /\ wallet = NoAccount => active = 0
  BY DEF TrackerInv, FollowInv
<1>8. ASSUME task[t].then = "done", Finish(t), UNCHANGED <<signed, saved, observed, strayed>>
      PROVE  TrackerInv'
  <2>1. /\ task' = [task EXCEPT ![t] = Idle] /\ starting' = (starting /\ ~holds)
    BY <1>6, <1>8 DEF Finish
  <2>2. RestTyped'
    BY <1>2, <1>4, <1>8 DEF TrackerInv, RestTyped
  <2>3. TabTyped'
    BY <1>2, <1>8, <2>1 DEF TrackerInv, TabTyped
  <2>4. SessionsInv'
    BY <1>2, <1>8 DEF TrackerInv, SessionsInv
  <2> QED
    BY <1>2, <1>3, <1>5, <1>6, <1>7, <1>8, <2>1, <2>2, <2>3, <2>4, TabFinishes
<1>9. ASSUME task[t].then = "observe", observed' = w,
             task' = [task EXCEPT ![t] = [Idle EXCEPT !.stage = "gating", !.of = w]],
             strayed' = (strayed \/ wallet # w), UNCHANGED <<signed, saved, starting>>
      PROVE  TrackerInv'
  <2>1. PICK r : r = [Idle EXCEPT !.stage = "gating", !.of = w]
    OBVIOUS
  <2>2. w \in Accounts
    BY <1>1, <1>9, RowsFit DEF TaskFits
  <2>3. /\ TaskFits(r)' /\ r.stage = "gating" /\ r.of = w /\ r.then = "done" /\ r.holds = FALSE
    BY <2>1, <2>2, GatingFits
  <2>4. ~strayed' => ~strayed /\ wallet = w
    BY <1>9
  <2>5. ~strayed' => ~strayed /\ \A u \in Tasks \ {t} : task[u].holds => starting' /\ wallet' = wallet
    BY <1>2, <1>9, <2>4, OneHolder
  <2>6. task' = [task EXCEPT ![t] = r]
    BY <1>9, <2>1
  <2>7. TasksInv' /\ task'[t] = r /\ \A u \in Tasks \ {t} : task'[u] = task[u]
    BY <1>3, <2>3, <2>5, <2>6, TaskMoves
  <2>8. RestTyped'
    BY <1>2, <1>4, <1>9 DEF TrackerInv, RestTyped
  <2>9. TabTyped'
    BY <1>2, <1>9 DEF TrackerInv, TabTyped
  <2>10. SessionsInv'
    BY <1>2, <1>9 DEF TrackerInv, SessionsInv
  <2>11. OpenInv'
    <3> SUFFICES ASSUME NEW x \in live', x # active, x \notin lost
                 PROVE  \E u \in Tasks : task'[u].stage = "ending" /\ task'[u].session = x
      BY <1>2 DEF OpenInv
    <3>1. PICK u \in Tasks : task[u].stage = "ending" /\ task[u].session = x
      BY <1>2 DEF TrackerInv, OpenInv
    <3>2. u # t
      BY <1>2, <3>1
    <3> QED
      BY <2>7, <3>1, <3>2
  <2>12. FollowInv'
    <3> SUFFICES ASSUME ~strayed' PROVE FollowInv'
      BY DEF FollowInv
    <3>1. ~strayed /\ wallet = w
      BY <2>4
    <3>2. \A u, v \in Tasks : task'[u].holds /\ task'[v].holds => u = v
      <4>1. \A u \in Tasks : task'[u].holds => u # t /\ task[u].holds
        BY <2>3, <2>7
      <4> QED
        BY <3>1, <4>1 DEF TrackerInv, FollowInv
    <3>3. active # 0 /\ owner[active] # wallet =>
            \E u \in Tasks : task'[u].then = "observe" /\ task'[u].of # wallet
      <4> SUFFICES ASSUME active # 0, owner[active] # wallet
                   PROVE  \E u \in Tasks : task'[u].then = "observe" /\ task'[u].of # wallet
        OBVIOUS
      <4>1. PICK u \in Tasks : WillObserve(u) /\ task[u].of # wallet
        BY <3>1 DEF TrackerInv, FollowInv
      <4>2. u # t
        BY <1>1, <3>1, <4>1
      <4> QED
        BY <2>7, <4>1, <4>2 DEF WillObserve
    <3> QED
      BY <1>2, <1>7, <1>9, <3>1, <3>2, <3>3 DEF FollowInv, WillObserve
  <2> QED
    BY <2>7, <2>8, <2>9, <2>10, <2>11, <2>12 DEF TrackerInv
<1>10. ASSUME task[t].then \in {"reauth", "bar", "disable"}, signed' = signed \ {w}, Stores(w, 0),
              UNCHANGED <<observed, strayed>>, NEW r, task' = [task EXCEPT ![t] = r],
              TaskFits(r)', r.stage \in {"idle", "dropping"}, r.then = "done", r.holds = FALSE,
              starting' = (starting /\ ~holds)
       PROVE  TrackerInv'
  <2>1. /\ saved' \in [Accounts -> SessionOrNone] /\ \A x \in Accounts : saved'[x] = saved[x] \/ saved'[x] = 0
    BY <1>10 DEF Stores, TrackerInv, TabTyped, SessionOrNone
  <2>2. RestTyped'
    BY <1>2, <1>4, <1>10 DEF TrackerInv, RestTyped
  <2>3. TabTyped'
    BY <1>2, <1>10, <2>1 DEF TrackerInv, TabTyped
  <2>4. SessionsInv'
    BY <1>2, <2>1 DEF TrackerInv, SessionsInv
  <2>5. ~strayed' => ~strayed /\ \A u \in Tasks \ {t} : task[u].holds => starting' /\ wallet' = wallet /\ ~r.holds
    <3> SUFFICES ASSUME ~strayed, NEW u \in Tasks \ {t}, task[u].holds PROVE starting'
      BY <1>2, <1>10
    <3>1. starting /\ ~holds
      BY <1>6, OneHolder
    <3> QED
      BY <1>10, <3>1
  <2>6. \A s \in live' : s = active' \/ s \in lost' \/ (s \in live /\ s # active)
    BY <1>5
  <2> QED
    BY <1>2, <1>3, <1>7, <1>10, <2>2, <2>3, <2>4, <2>5, <2>6, TabMoves
<1>11. CASE /\ task[t].then \in {"reauth", "bar", "disable"} /\ signed' = signed \ {w} /\ Stores(w, 0)
            /\ UNCHANGED <<observed, strayed>>
            /\ Finish(t)
  <2>1. PICK r : r = Idle
    OBVIOUS
  <2>2. TaskFits(r)' /\ r.stage \in {"idle", "dropping"} /\ r.then = "done" /\ r.holds = FALSE
    BY <2>1, IdleFits, IdleWillFit
  <2>3. task' = [task EXCEPT ![t] = r] /\ starting' = (starting /\ ~holds)
    BY <1>6, <1>11, <2>1 DEF Finish
  <2> QED
    BY <1>10, <1>11, <2>2, <2>3
<1>12. CASE /\ task[t].then \in {"reauth", "bar", "disable"} /\ signed' = signed \ {w} /\ Stores(w, 0)
            /\ UNCHANGED <<observed, strayed>>
            /\ task' = [task EXCEPT ![t] = [Idle EXCEPT !.stage = "dropping"]]
            /\ starting' = (starting /\ ~task[t].holds)
  <2>1. PICK r : r = [Idle EXCEPT !.stage = "dropping"]
    OBVIOUS
  <2>2. /\ r.stage = "dropping" /\ r.of = NoAccount /\ r.session = 0 /\ r.then = "done" /\ r.holds = FALSE
        /\ r \in TaskRows
    BY <2>1 DEF Idle, TaskRows, TaskStages, Afterwards, SessionOrNone, Maybe
  <2>3. TaskFits(r)'
    BY <2>2 DEF TaskFits
  <2>4. task' = [task EXCEPT ![t] = r] /\ starting' = (starting /\ ~holds)
    BY <1>6, <1>12, <2>1
  <2> QED
    BY <1>10, <1>12, <2>2, <2>3, <2>4
<1> QED
  BY <1>1, <1>8, <1>9, <1>11, <1>12 DEF Leave

-----------------------------------------------------------------------------
\* A run after its first await.

\* A row that goes on, while nothing but the rows changes.
LEMMA TabGoesOn ==
  ASSUME TrackerInv, NEW t \in Tasks, task[t].stage # "ending", task[t].then # "observe",
         NEW r, task' = [task EXCEPT ![t] = r], TaskFits(r)', r.stage # "ending", r.then # "observe",
         r.holds => task[t].holds,
         UNCHANGED <<wallet, observed, had, saved, starting, active, loop, owner, live, lost, strayed>>,
         RestTyped'
  PROVE  TrackerInv'
<1>1. OwnersStay
  BY DEF OwnersStay
<1>2. TabTyped'
  BY DEF TrackerInv, TabTyped
<1>3. SessionsInv'
  BY DEF TrackerInv, SessionsInv
<1>4. \A s \in live' : \/ s = active' \/ s \in lost' \/ (r.stage = "ending" /\ r.session = s)
                       \/ s \in live /\ s # active
  OBVIOUS
<1>5. ~strayed' => ~strayed /\ \A u \in Tasks \ {t} : task[u].holds => starting' /\ wallet' = wallet /\ ~r.holds
  <2> SUFFICES ASSUME ~strayed, NEW u \in Tasks \ {t}, task[u].holds PROVE starting /\ ~r.holds
    OBVIOUS
  <2>1. starting /\ ~task[t].holds
    BY OneHolder
  <2> QED
    BY <2>1
<1>6. ~strayed /\ wallet = NoAccount => active = 0
  BY DEF TrackerInv, FollowInv
<1> QED
  BY <1>1, <1>2, <1>3, <1>4, <1>5, <1>6, TabMoves

LEMMA GateKeeps == ASSUME TrackerInv, NEW t \in Tasks, Gate(t) PROVE TrackerInv'
<1>1. task[t].stage = "gating" /\ task[t].stage # "ending" /\ task[t].then # "observe"
  BY PlainTask DEF Gate
<1>2. /\ UNCHANGED <<wallet, connectOn, barred, token, signed, saved, observed, had, modal, owner,
                     live, lost, strayed, moves>>
  BY DEF Gate
<1>3. RestTyped'
  BY <1>2, RestStays
<1>4. CASE To(t, "checking") /\ UNCHANGED <<active, loop, starting>>
  <2>1. PICK stage \in TaskStages : stage = "checking"
    BY DEF TaskStages
  <2>2. PICK r : r = [task[t] EXCEPT !.stage = stage]
    OBVIOUS
  <2>3. PICK q : q = task[t]
    OBVIOUS
  <2>4. /\ task' = [task EXCEPT ![t] = r] /\ r \in TaskRows /\ r.stage = "checking" /\ r.of = q.of
        /\ r.session = q.session /\ r.then = q.then /\ r.holds = q.holds
    BY <1>4, <2>1, <2>2, <2>3, StageMoves
  <2>5. q.stage = "gating" /\ TaskFits(q)
    BY <1>1, <2>3, RowsFit
  <2>6. TaskFits(r)'
    BY <1>2, <1>4, <2>4, <2>5 DEF TaskFits
  <2>7. r.stage # "ending" /\ r.then # "observe" /\ (r.holds => task[t].holds)
    BY <1>1, <2>3, <2>4
  <2>8. UNCHANGED <<wallet, observed, had, saved, starting, active, loop, owner, live, lost, strayed>>
    BY <1>2, <1>4
  <2> QED
    BY <1>1, <1>3, <2>4, <2>6, <2>7, <2>8, TabGoesOn
<1>5. CASE ForcedLogout(t, task[t].of, "disable", FALSE)
  <2>1. PICK w \in Maybe : w = task[t].of
    BY RowsFit
  <2>2. PICK holds \in BOOLEAN : holds = FALSE
    OBVIOUS
  <2>3. PICK what \in {"bar", "disable"} : what = "disable"
    OBVIOUS
  <2>4. ForcedLogout(t, w, what, holds) /\ (holds => task[t].holds /\ task[t].of = w)
    BY <1>5, <2>1, <2>2, <2>3
  <2>5. UNCHANGED <<wallet, observed, had, saved, owner, live, lost, strayed>>
    BY <1>2
  <2> QED
    BY <1>1, <1>3, <2>4, <2>5, TabIsForcedOut
<1> QED
  BY <1>4, <1>5 DEF Gate

LEMMA CheckKeeps == ASSUME TrackerInv, NEW t \in Tasks, Check(t) PROVE TrackerInv'
<1>1. task[t].stage = "checking" /\ task[t].stage # "ending" /\ task[t].then # "observe"
  BY PlainTask DEF Check
<1>2. PICK w : w = task[t].of
  OBVIOUS
<1>3. w \in Accounts /\ w \in Maybe
  BY <1>1, <1>2, RowsFit DEF TaskFits
<1>4. UNCHANGED <<wallet, connectOn, barred, token, signed, saved, observed, had, modal, owner,
                  live, lost, moves>>
  BY DEF Check
<1>5. RestTyped'
  BY <1>4, RestStays
<1>6. OwnersStay
  BY <1>4 DEF OwnersStay
<1>7. ~strayed /\ wallet = NoAccount => active = 0
  BY DEF TrackerInv, FollowInv
<1>8. CASE ForcedLogout(t, w, "bar", FALSE) /\ UNCHANGED strayed
  <2>1. PICK holds \in BOOLEAN : holds = FALSE
    OBVIOUS
  <2>2. PICK what \in {"bar", "disable"} : what = "bar"
    OBVIOUS
  <2>3. ForcedLogout(t, w, what, holds) /\ (holds => task[t].holds /\ task[t].of = w)
    BY <1>8, <2>1, <2>2
  <2>4. UNCHANGED <<wallet, observed, had, saved, owner, live, lost, strayed>>
    BY <1>4, <1>8
  <2> QED
    BY <1>1, <1>3, <1>5, <2>3, <2>4, TabIsForcedOut
<1>9. CASE Finish(t) /\ UNCHANGED <<active, loop, strayed>>
  <2>1. PICK holds \in BOOLEAN : holds = task[t].holds
    BY RowsFit
  <2>2. task' = [task EXCEPT ![t] = Idle] /\ starting' = (starting /\ ~holds)
    BY <1>9, <2>1 DEF Finish
  <2>3. TabTyped'
    BY <1>4, <1>9, <2>2 DEF TrackerInv, TabTyped
  <2>4. SessionsInv'
    BY <1>4, <1>9 DEF TrackerInv, SessionsInv
  <2>5. \A s \in live' : s = active' \/ s \in lost' \/ (s \in live /\ s # active)
    BY <1>4, <1>9
  <2> QED
    BY <1>1, <1>4, <1>5, <1>6, <1>7, <1>9, <2>1, <2>2, <2>3, <2>4, <2>5, TabFinishes
<1>10. CASE /\ starting' = TRUE /\ strayed' = (strayed \/ starting \/ wallet # w)
            /\ task' = [task EXCEPT ![t] =
                 [@ EXCEPT !.stage = IF saved[w] = 0 THEN "starting" ELSE "beating",
                           !.session = saved[w], !.holds = TRUE]]
            /\ UNCHANGED <<active, loop>>
  <2>1. PICK stage \in TaskStages : stage = IF saved[w] = 0 THEN "starting" ELSE "beating"
    BY DEF TaskStages
  <2>2. PICK q \in TaskRows : q = task[t]
    BY RowsFit
  <2>3. PICK r : r = [q EXCEPT !.stage = stage, !.session = saved[w], !.holds = TRUE]
    OBVIOUS
  <2>4. task' = [task EXCEPT ![t] = r]
    BY <1>10, <2>1, <2>2, <2>3
  <2>5. saved[w] \in SessionOrNone
    BY <1>3 DEF TrackerInv, TabTyped
  <2>6. /\ r \in TaskRows /\ r.stage = stage /\ r.of = q.of /\ r.session = saved[w]
        /\ r.then = q.then /\ r.holds = TRUE
    BY <2>3, <2>5 DEF TaskRows
  <2>7. q.of = w /\ q.then # "observe"
    BY <1>1, <1>2, <2>2
  <2>8. stage \in {"starting", "beating"} /\ (stage = "beating" => saved[w] # 0)
    BY <2>1
  <2>9. saved[w] # 0 => owner[saved[w]] = w
    BY <1>3 DEF TrackerInv, SessionsInv
  <2>10. ~strayed' => ~strayed /\ ~starting /\ wallet = w
    BY <1>10
  <2>11. r.stage \in {"starting", "beating"} /\ r.of = w /\ r.then # "observe"
    BY <2>6, <2>7, <2>8
  <2>12. /\ w # NoAccount /\ starting' /\ UNCHANGED <<wallet, owner>>
    BY <1>3, <1>4, <1>10, TrackerAssumption
  <2>13. TaskFits(r)'
    BY <1>3, <2>6, <2>8, <2>9, <2>10, <2>11, <2>12 DEF TaskFits
  <2>14. TabTyped'
    BY <1>4, <1>10 DEF TrackerInv, TabTyped
  <2>15. SessionsInv'
    BY <1>4, <1>10 DEF TrackerInv, SessionsInv
  <2>16. \A s \in live' : \/ s = active' \/ s \in lost' \/ (r.stage = "ending" /\ r.session = s)
                          \/ s \in live /\ s # active
    BY <1>4, <1>10
  <2>17. ~strayed' => ~strayed /\ \A u \in Tasks \ {t} : task[u].holds => starting' /\ wallet' = wallet /\ ~r.holds
    BY <2>10, OneHolder
  <2> QED
    BY <1>1, <1>4, <1>5, <1>6, <1>7, <1>10, <2>4, <2>13, <2>14, <2>15, <2>16, <2>17, TabMoves
<1> QED
  BY <1>2, <1>8, <1>9, <1>10 DEF Check

LEMMA RecheckKeeps == ASSUME TrackerInv, NEW t \in Tasks, Recheck(t) PROVE TrackerInv'
<1>1. task[t].stage # "ending" /\ task[t].then # "observe"
  BY PlainTask DEF Recheck
<1>2. UNCHANGED <<wallet, observed, had, modal, signed, saved, connectOn, barred, token, owner, live,
                  lost, strayed>>
  BY DEF Recheck, apiVars
<1>3. RestTyped'
  BY <1>2, RestStays
<1>4. CASE ForcedLogout(t, task[t].of, "bar", FALSE)
  <2>1. PICK w \in Maybe : w = task[t].of
    BY RowsFit
  <2>2. PICK holds \in BOOLEAN : holds = FALSE
    OBVIOUS
  <2>3. PICK what \in {"bar", "disable"} : what = "bar"
    OBVIOUS
  <2>4. ForcedLogout(t, w, what, holds) /\ (holds => task[t].holds /\ task[t].of = w)
    BY <1>4, <2>1, <2>2, <2>3
  <2>5. UNCHANGED <<wallet, observed, had, saved, owner, live, lost, strayed>>
    BY <1>2
  <2> QED
    BY <1>1, <1>3, <2>4, <2>5, TabIsForcedOut
<1>5. CASE Finish(t) /\ UNCHANGED <<active, loop>>
  <2>1. PICK holds \in BOOLEAN : holds = task[t].holds
    BY RowsFit
  <2>2. task' = [task EXCEPT ![t] = Idle] /\ starting' = (starting /\ ~holds)
    BY <1>5, <2>1 DEF Finish
  <2>3. TabTyped'
    BY <1>2, <1>5, <2>2 DEF TrackerInv, TabTyped
  <2>4. SessionsInv'
    BY <1>2, <1>5 DEF TrackerInv, SessionsInv
  <2>5. \A s \in live' : s = active' \/ s \in lost' \/ (s \in live /\ s # active)
    BY <1>2, <1>5
  <2>6. OwnersStay
    BY <1>2 DEF OwnersStay
  <2>7. ~strayed /\ wallet = NoAccount => active = 0
    BY DEF TrackerInv, FollowInv
  <2> QED
    BY <1>1, <1>2, <1>3, <1>5, <2>1, <2>2, <2>3, <2>4, <2>5, <2>6, <2>7, TabFinishes
<1> QED
  BY <1>4, <1>5 DEF Recheck

LEMMA RegateKeeps == ASSUME TrackerInv, NEW t \in Tasks, Regate(t) PROVE TrackerInv'
<1>1. task[t].stage # "ending" /\ task[t].then # "observe"
  BY PlainTask DEF Regate, FreeTask
<1>2. UNCHANGED <<wallet, observed, had, modal, signed, saved, connectOn, barred, token, owner, live,
                  lost, strayed>>
  BY DEF Regate, apiVars
<1>3. RestTyped'
  BY <1>2, RestStays
<1>4. PICK w \in Maybe : w = wallet
  BY DEF TrackerInv, TabTyped
<1>5. PICK holds \in BOOLEAN : holds = FALSE
  OBVIOUS
<1>6. PICK what \in {"bar", "disable"} : what = "disable"
  OBVIOUS
<1>7. ForcedLogout(t, w, what, holds) /\ (holds => task[t].holds /\ task[t].of = w)
  BY <1>4, <1>5, <1>6 DEF Regate
<1> QED
  BY <1>1, <1>2, <1>3, <1>7, TabIsForcedOut

-----------------------------------------------------------------------------
\* What is asked of the API.

\* A new session.
LEMMA CreatedIsNew ==
  ASSUME TrackerInv, NEW w \in Accounts, NEW n \in Fresh, Created(w, n)
  PROVE  /\ n \in Ids /\ owner[n] = NoAccount /\ owner'[n] = w /\ OwnersStay
         /\ owner' \in [Ids -> Maybe] /\ live' = live \cup {n}
  BY DEF Fresh, Created, TrackerInv, TabTyped, OwnersStay, Maybe

\* A session that is there.
LEMMA KeptStays ==
  ASSUME TrackerInv, Kept
  PROVE  OwnersStay /\ owner' \in [Ids -> Maybe] /\ owner' = owner /\ live' = live
  BY DEF Kept, OwnersStay, TrackerInv, TabTyped

LEMMA RefusedKeeps ==
  ASSUME TrackerInv, NEW t \in Tasks, task[t].stage # "ending", task[t].then # "observe",
         NEW w, w = task[t].of, Refused(t, w), RestTyped',
         UNCHANGED <<wallet, observed, had, strayed>>
  PROVE  TrackerInv'
<1>1. w \in Maybe
  BY RowsFit
<1>2. PICK holds \in BOOLEAN : holds = task[t].holds
  BY RowsFit
<1>3. UNCHANGED <<wallet, observed, had, saved, owner, live, lost, strayed>>
  BY DEF Refused, Kept
<1>4. CASE Close(t, w, "reauth", task[t].holds) /\ UNCHANGED starting
  <2>1. PICK then \in Afterwards \ {"observe"} : then = "reauth"
    BY DEF Afterwards
  <2>2. Close(t, w, then, holds) /\ (holds => task[t].holds /\ task[t].of = w)
    BY <1>2, <1>4, <2>1
  <2>3. UNCHANGED <<wallet, starting, observed, had, saved, owner, live, lost, strayed>>
    BY <1>3, <1>4
  <2> QED
    BY <1>1, <2>2, <2>3, TabCloses
<1>5. CASE ForcedLogout(t, w, "bar", task[t].holds)
  <2>1. PICK what \in {"bar", "disable"} : what = "bar"
    OBVIOUS
  <2>2. ForcedLogout(t, w, what, holds) /\ (holds => task[t].holds /\ task[t].of = w)
    BY <1>2, <1>5, <2>1
  <2> QED
    BY <1>1, <1>3, <2>2, TabIsForcedOut
<1> QED
  BY <1>4, <1>5 DEF Refused

\* A run ends with a session of its wallet.
LEMMA BegunKeeps ==
  ASSUME TrackerInv, NEW t \in Tasks, task[t].stage \in {"starting", "beating"},
         NEW w, w = task[t].of, NEW s \in Ids, Begun(t, w, s),
         OwnersStay, owner' \in [Ids -> Maybe], owner'[s] = w, live' \subseteq live \cup {s},
         UNCHANGED <<wallet, observed, had, strayed>>, RestTyped'
  PROVE  TrackerInv'
<1>1. task[t].stage # "ending" /\ task[t].then # "observe"
  BY PlainTask
<1>2. w \in Accounts /\ task[t].holds /\ w # NoAccount
  BY RowsFit, TrackerAssumption DEF TaskFits
<1>3. PICK holds \in BOOLEAN : holds = task[t].holds
  BY RowsFit
<1>4. /\ task' = [task EXCEPT ![t] = Idle] /\ starting' = (starting /\ ~holds)
      /\ active' = s /\ loop' = s /\ lost' = lost \cup ({active} \ {0, s})
  BY <1>3 DEF Begun, Finish
<1>5. /\ saved' \in [Accounts -> SessionOrNone] /\ saved'[w] = s
      /\ \A x \in Accounts \ {w} : saved'[x] = saved[x]
  BY <1>2 DEF Begun, Stores, TrackerInv, TabTyped, SessionOrNone
<1>6. live' \subseteq Ids /\ lost' \subseteq Ids /\ lost \subseteq lost'
  BY <1>4 DEF TrackerInv, TabTyped, SessionOrNone
<1>7. TabTyped'
  BY <1>4, <1>5, <1>6 DEF TrackerInv, TabTyped, SessionOrNone
<1>8. \A x \in Accounts : saved'[x] # 0 => owner'[saved'[x]] = x
  <2> SUFFICES ASSUME NEW x \in Accounts, saved'[x] # 0 PROVE owner'[saved'[x]] = x
    OBVIOUS
  <2>1. CASE x = w
    BY <1>5, <2>1
  <2>2. CASE x # w
    <3>1. saved'[x] = saved[x] /\ saved[x] \in Ids /\ owner[saved[x]] = x
      BY <1>5, <2>2 DEF TrackerInv, TabTyped, SessionOrNone, SessionsInv
    <3> QED
      BY <3>1, TrackerAssumption DEF OwnersStay
  <2> QED
    BY <2>1, <2>2
<1>9. \A x \in live' : owner'[x] # NoAccount
  BY <1>2, <1>6 DEF TrackerInv, TabTyped, SessionsInv, OwnersStay
<1>10. SessionsInv'
  BY <1>2, <1>4, <1>8, <1>9 DEF SessionsInv
<1>11. \A x \in live' : x = active' \/ x \in lost' \/ (x \in live /\ x # active)
  BY <1>4, <1>6, NoIdIsNone
<1>12. ~strayed' => ~strayed
  OBVIOUS
<1>13. ~strayed => wallet = w
  BY <1>2, OneHolder
<1> QED
  BY <1>1, <1>2, <1>3, <1>4, <1>6, <1>7, <1>10, <1>11, <1>12, <1>13, TabFinishes

\* The answer is an error, or lost.
LEMMA StartFails ==
  ASSUME TrackerInv, NEW t \in Tasks, task[t].stage = "starting", NEW w, w = task[t].of,
         Stores(w, 0), Finish(t), UNCHANGED <<active, loop>>,
         OwnersStay, owner' \in [Ids -> Maybe], lost \subseteq lost', lost' \subseteq Ids,
         \A s \in live' : s \in live \/ (s \in lost' /\ owner'[s] # NoAccount),
         UNCHANGED <<wallet, observed, had, strayed>>, RestTyped'
  PROVE  TrackerInv'
<1>1. task[t].stage # "ending" /\ task[t].then # "observe"
  BY PlainTask
<1>2. PICK holds \in BOOLEAN : holds = task[t].holds
  BY RowsFit
<1>3. /\ task' = [task EXCEPT ![t] = Idle] /\ starting' = (starting /\ ~holds)
  BY <1>2 DEF Finish
<1>4. /\ saved' \in [Accounts -> SessionOrNone]
      /\ \A x \in Accounts : saved'[x] = saved[x] \/ saved'[x] = 0
  BY DEF Stores, TrackerInv, TabTyped, SessionOrNone
<1>5. live' \subseteq Ids
  BY DEF TrackerInv, TabTyped
<1>6. TabTyped'
  BY <1>3, <1>4, <1>5 DEF TrackerInv, TabTyped
<1>7. SessionsInv'
  <2>1. \A x \in Accounts : saved'[x] # 0 => owner'[saved'[x]] = x
    <3> SUFFICES ASSUME NEW x \in Accounts, saved'[x] # 0 PROVE owner'[saved'[x]] = x
      OBVIOUS
    <3>1. saved'[x] = saved[x] /\ saved[x] \in Ids /\ owner[saved[x]] = x
      BY <1>4 DEF TrackerInv, TabTyped, SessionOrNone, SessionsInv
    <3> QED
      BY <3>1, TrackerAssumption DEF OwnersStay
  <2>2. active # 0 => owner'[active] # NoAccount
    BY DEF TrackerInv, TabTyped, SessionOrNone, SessionsInv, OwnersStay
  <2>3. \A x \in live' : owner'[x] # NoAccount
    BY <1>5 DEF TrackerInv, TabTyped, SessionsInv, OwnersStay
  <2> QED
    BY <2>1, <2>2, <2>3 DEF SessionsInv
<1>8. \A s \in live' : s = active' \/ s \in lost' \/ (s \in live /\ s # active)
  OBVIOUS
<1>9. ~strayed /\ wallet = NoAccount => active = 0
  BY DEF TrackerInv, FollowInv
<1>10. active # 0 => owner'[active'] = owner[active]
  BY DEF TrackerInv, TabTyped, SessionOrNone, SessionsInv, OwnersStay
<1> QED
  BY <1>1, <1>2, <1>3, <1>6, <1>7, <1>8, <1>9, <1>10, TabFinishes

LEMMA StartKeeps == ASSUME TrackerInv, NEW t \in Tasks, Start(t) PROVE TrackerInv'
<1>1. task[t].stage = "starting" /\ task[t].stage # "ending" /\ task[t].then # "observe"
  BY PlainTask DEF Start
<1>2. PICK w : w = task[t].of
  OBVIOUS
<1>3. PICK s : s = saved[w]
  OBVIOUS
<1>4. w \in Accounts /\ w # NoAccount
  BY <1>1, <1>2, RowsFit, TrackerAssumption DEF TaskFits
<1>5. UNCHANGED <<wallet, connectOn, barred, token, signed, observed, had, modal, strayed, moves>>
  BY DEF Start
<1>6. RestTyped'
  BY <1>5, RestStays
<1>7. CASE s \in live /\ Begun(t, w, s) /\ Kept
  <2>1. s \in Ids /\ owner[s] = w
    BY <1>3, <1>4, <1>7, NoIdIsNone DEF TrackerInv, TabTyped, SessionsInv
  <2> QED
    BY <1>1, <1>2, <1>5, <1>6, <1>7, <2>1, KeptStays, BegunKeeps
<1>8. ASSUME NEW n \in Fresh, Begun(t, w, n), Created(w, n) PROVE TrackerInv'
  BY <1>1, <1>2, <1>4, <1>5, <1>6, <1>8, CreatedIsNew, BegunKeeps
<1>9. CASE Refused(t, w)
  BY <1>1, <1>2, <1>5, <1>6, <1>9, RefusedKeeps
<1>10. CASE Stores(w, 0) /\ Finish(t) /\ UNCHANGED <<active, loop>> /\ Kept /\ lost' = lost \cup ({s} \ {0})
  <2>1. lost' \subseteq Ids /\ lost \subseteq lost'
    BY <1>3, <1>4, <1>10 DEF TrackerInv, TabTyped, SessionOrNone
  <2> QED
    BY <1>1, <1>2, <1>5, <1>6, <1>10, <2>1, KeptStays, StartFails
<1>11. ASSUME Stores(w, 0), Finish(t), UNCHANGED <<active, loop>>, NEW n \in Fresh, Created(w, n),
              lost' = lost \cup {n}
       PROVE  TrackerInv'
  <2>1. /\ n \in Ids /\ owner[n] = NoAccount /\ owner'[n] = w /\ OwnersStay
        /\ owner' \in [Ids -> Maybe] /\ live' = live \cup {n}
    BY <1>4, <1>11, CreatedIsNew
  <2>2. lost' \subseteq Ids /\ lost \subseteq lost'
    BY <1>11, <2>1 DEF TrackerInv, TabTyped
  <2>3. \A x \in live' : x \in live \/ (x \in lost' /\ owner'[x] # NoAccount)
    BY <1>4, <1>11, <2>1
  <2> QED
    BY <1>1, <1>2, <1>5, <1>6, <1>11, <2>1, <2>2, <2>3, StartFails
<1>12. \/ s \in live /\ Begun(t, w, s) /\ Kept
       \/ \E n \in Fresh : Begun(t, w, n) /\ Created(w, n)
       \/ Refused(t, w)
       \/ Stores(w, 0) /\ Finish(t) /\ UNCHANGED <<active, loop>> /\ Kept /\ lost' = lost \cup ({s} \ {0})
       \/ \E n \in Fresh : /\ Stores(w, 0) /\ Finish(t) /\ UNCHANGED <<active, loop>> /\ Created(w, n)
                           /\ lost' = lost \cup {n}
  BY <1>2, <1>3 DEF Start
<1> QED
  BY <1>7, <1>8, <1>9, <1>10, <1>11, <1>12

LEMMA ResumeKeeps == ASSUME TrackerInv, NEW t \in Tasks, Resume(t) PROVE TrackerInv'
<1>1. task[t].stage = "beating" /\ task[t].stage # "ending" /\ task[t].then # "observe"
  BY PlainTask DEF Resume
<1>2. PICK w : w = task[t].of
  OBVIOUS
<1>3. PICK s : s = task[t].session
  OBVIOUS
<1>4. w \in Accounts /\ w # NoAccount
  BY <1>1, <1>2, RowsFit, TrackerAssumption DEF TaskFits
<1>5. UNCHANGED <<wallet, connectOn, barred, token, signed, observed, had, modal, strayed, moves>>
  BY DEF Resume
<1>6. RestTyped'
  BY <1>5, RestStays
<1>7. CASE s \in live /\ Begun(t, w, s) /\ Kept
  <2>1. s \in Ids /\ owner[s] = w
    BY <1>1, <1>2, <1>3, RowsFit DEF TaskFits, SessionOrNone
  <2> QED
    BY <1>1, <1>2, <1>5, <1>6, <1>7, <2>1, KeptStays, BegunKeeps
<1>8. ASSUME NEW n \in Fresh, Begun(t, w, n), Created(w, n) PROVE TrackerInv'
  BY <1>1, <1>2, <1>4, <1>5, <1>6, <1>8, CreatedIsNew, BegunKeeps
<1>9. CASE Refused(t, w)
  BY <1>1, <1>2, <1>5, <1>6, <1>9, RefusedKeeps
<1>10. CASE To(t, "starting") /\ Kept /\ UNCHANGED <<saved, active, loop, starting, lost>>
  <2>1. PICK stage \in TaskStages : stage = "starting"
    BY DEF TaskStages
  <2>2. PICK r : r = [task[t] EXCEPT !.stage = stage]
    OBVIOUS
  <2>3. PICK q : q = task[t]
    OBVIOUS
  <2>4. /\ task' = [task EXCEPT ![t] = r] /\ r \in TaskRows /\ r.stage = "starting" /\ r.of = q.of
        /\ r.session = q.session /\ r.then = q.then /\ r.holds = q.holds
    BY <1>10, <2>1, <2>2, <2>3, StageMoves
  <2>5. q.stage = "beating" /\ TaskFits(q) /\ q.then # "observe"
    BY <1>1, <2>3, RowsFit
  <2>6. TaskFits(r)'
    BY <1>5, <1>10, <2>4, <2>5 DEF TaskFits
  <2>7. r.stage # "ending" /\ r.then # "observe" /\ (r.holds => task[t].holds)
    BY <2>3, <2>4, <2>5
  <2>8. UNCHANGED <<wallet, observed, had, saved, starting, active, loop, owner, live, lost, strayed>>
    BY <1>5, <1>10 DEF Kept
  <2> QED
    BY <1>1, <1>6, <2>4, <2>6, <2>7, <2>8, TabGoesOn
<1>11. \/ s \in live /\ Begun(t, w, s) /\ Kept
       \/ \E n \in Fresh : Begun(t, w, n) /\ Created(w, n)
       \/ Refused(t, w)
       \/ To(t, "starting") /\ Kept /\ UNCHANGED <<saved, active, loop, starting, lost>>
  BY <1>2, <1>3 DEF Resume
<1> QED
  BY <1>7, <1>8, <1>9, <1>10, <1>11

-----------------------------------------------------------------------------
\* The heartbeat timer.

LEMMA PingKeeps == ASSUME TrackerInv, NEW t \in Tasks, Ping(t) PROVE TrackerInv'
<1>1. task[t].stage # "ending" /\ task[t].then # "observe"
  BY PlainTask DEF Ping, FreeTask
<1>2. UNCHANGED <<wallet, active, loop, starting, observed, had, modal, signed, saved, connectOn, barred,
                  token, owner, live, lost, strayed>>
  BY DEF Ping, apiVars
<1>3. RestTyped'
  BY <1>2, RestStays
<1>4. PICK r : r = [Idle EXCEPT !.stage = "pinging", !.of = owner[active], !.session = active]
  OBVIOUS
<1>5. task' = [task EXCEPT ![t] = r]
  BY <1>4 DEF Ping
<1>6. /\ active # 0 /\ active \in Ids /\ active \in SessionOrNone /\ owner[active] \in Maybe
      /\ owner[active] # NoAccount
  BY DEF Ping, TrackerInv, TabTyped, SessionsInv, SessionOrNone
<1>7. /\ r.stage = "pinging" /\ r.of = owner[active] /\ r.session = active /\ r.then = "done" /\ r.holds = FALSE
      /\ r \in TaskRows
  BY <1>4, <1>6 DEF Idle, TaskRows, TaskStages, Afterwards
<1>8. TaskFits(r)'
  BY <1>2, <1>6, <1>7 DEF TaskFits, Maybe
<1>9. r.stage # "ending" /\ r.then # "observe" /\ (r.holds => task[t].holds)
  BY <1>7
<1> QED
  BY <1>1, <1>2, <1>3, <1>5, <1>8, <1>9, TabGoesOn

\* A replacement becomes the session of the tab.
LEMMA ReplacedKeeps ==
  ASSUME TrackerInv, NEW t \in Tasks, task[t].stage = "pinging", task[t].session \notin live, NEW n \in Fresh,
         Replaced(t, n), Created(task[t].of, n), UNCHANGED <<wallet, observed, had>>, RestTyped'
  PROVE  TrackerInv'
<1>1. task[t].stage # "ending" /\ task[t].then # "observe"
  BY PlainTask
<1>2. PICK w : w = task[t].of
  OBVIOUS
<1>3. PICK s : s = task[t].session
  OBVIOUS
<1>4. w \in Accounts /\ w # NoAccount /\ s \in Ids /\ s # 0 /\ owner[s] = w
  BY <1>2, <1>3, RowsFit, TrackerAssumption DEF TaskFits, SessionOrNone
<1>5. /\ n \in Ids /\ owner[n] = NoAccount /\ owner'[n] = w /\ OwnersStay
      /\ owner' \in [Ids -> Maybe] /\ live' = live \cup {n}
  BY <1>2, <1>4, CreatedIsNew
<1>6. PICK holds \in BOOLEAN : holds = task[t].holds
  BY RowsFit
<1>7. /\ Stores(w, n) /\ active' = n /\ loop' = (IF loop = s THEN n ELSE loop)
      /\ lost' = lost \cup ({active} \ {0, s}) /\ strayed' = (strayed \/ active # s)
      /\ task' = [task EXCEPT ![t] = Idle] /\ starting' = (starting /\ ~holds)
  BY <1>2, <1>3, <1>6 DEF Replaced, Finish
<1>8. /\ saved' \in [Accounts -> SessionOrNone] /\ saved'[w] = n
      /\ \A x \in Accounts \ {w} : saved'[x] = saved[x]
  BY <1>4, <1>5, <1>7 DEF Stores, TrackerInv, TabTyped, SessionOrNone
<1>9. live' \subseteq Ids /\ lost' \subseteq Ids /\ lost \subseteq lost'
  BY <1>5, <1>7 DEF TrackerInv, TabTyped, SessionOrNone
<1>10. loop' \in SessionOrNone /\ active' \in SessionOrNone
  BY <1>5, <1>7 DEF TrackerInv, TabTyped, SessionOrNone
<1>11. TabTyped'
  BY <1>5, <1>7, <1>8, <1>9, <1>10 DEF TrackerInv, TabTyped
<1>12. \A x \in Accounts : saved'[x] # 0 => owner'[saved'[x]] = x
  <2> SUFFICES ASSUME NEW x \in Accounts, saved'[x] # 0 PROVE owner'[saved'[x]] = x
    OBVIOUS
  <2>1. CASE x = w
    BY <1>5, <1>8, <2>1
  <2>2. CASE x # w
    <3>1. saved'[x] = saved[x] /\ saved[x] \in Ids /\ owner[saved[x]] = x
      BY <1>8, <2>2 DEF TrackerInv, TabTyped, SessionOrNone, SessionsInv
    <3> QED
      BY <1>5, <3>1, TrackerAssumption DEF OwnersStay
  <2> QED
    BY <2>1, <2>2
<1>13. \A x \in live' : owner'[x] # NoAccount
  BY <1>4, <1>5, <1>9 DEF TrackerInv, TabTyped, SessionsInv, OwnersStay
<1>14. SessionsInv'
  BY <1>4, <1>5, <1>7, <1>12, <1>13 DEF SessionsInv
<1>15. ASSUME NEW x \in live' PROVE x = active' \/ x \in lost' \/ (x \in live /\ x # active)
  <2>1. x \in Ids /\ x # 0 /\ s \notin live
    BY <1>3, <1>9, NoIdIsNone
  <2> QED
    BY <1>5, <1>7, <1>15, <2>1
<1>17. ~strayed' => ~strayed /\ active = s
  BY <1>7
<1>18. ~strayed /\ wallet = NoAccount => active = 0
  BY DEF TrackerInv, FollowInv
<1>19. wallet' = wallet /\ observed' = observed
  OBVIOUS
<1> QED
  BY <1>1, <1>4, <1>5, <1>6, <1>7, <1>9, <1>11, <1>14, <1>15, <1>17, <1>18, <1>19, TabFinishes

LEMMA PongKeeps == ASSUME TrackerInv, NEW t \in Tasks, Pong(t) PROVE TrackerInv'
<1>1. task[t].stage = "pinging" /\ task[t].stage # "ending" /\ task[t].then # "observe"
  BY PlainTask DEF Pong
<1>2. PICK w : w = task[t].of
  OBVIOUS
<1>3. UNCHANGED <<wallet, connectOn, barred, token, signed, observed, had, modal, moves>>
  BY DEF Pong
<1>4. RestTyped'
  BY <1>3, RestStays
<1>5. CASE Finish(t) /\ Kept /\ UNCHANGED <<saved, active, loop, lost, strayed>>
  <2>1. PICK holds \in BOOLEAN : holds = task[t].holds
    BY RowsFit
  <2>2. task' = [task EXCEPT ![t] = Idle] /\ starting' = (starting /\ ~holds)
    BY <1>5, <2>1 DEF Finish
  <2>3. OwnersStay /\ owner' \in [Ids -> Maybe] /\ owner' = owner /\ live' = live
    BY <1>5, KeptStays
  <2>4. TabTyped'
    BY <1>3, <1>5, <2>2, <2>3 DEF TrackerInv, TabTyped
  <2>5. SessionsInv'
    BY <1>5, <2>3 DEF TrackerInv, SessionsInv
  <2>6. \A s \in live' : s = active' \/ s \in lost' \/ (s \in live /\ s # active)
    BY <1>5, <2>3
  <2>7. ~strayed /\ wallet = NoAccount => active = 0
    BY DEF TrackerInv, FollowInv
  <2> QED
    BY <1>1, <1>3, <1>4, <1>5, <2>1, <2>2, <2>3, <2>4, <2>5, <2>6, <2>7, TabFinishes
<1>6. ASSUME task[t].session \notin live, NEW n \in Fresh, Replaced(t, n), Created(w, n)
      PROVE  TrackerInv'
  BY <1>1, <1>2, <1>3, <1>4, <1>6, ReplacedKeeps
<1>7. CASE Refused(t, w) /\ UNCHANGED strayed
  BY <1>1, <1>2, <1>3, <1>4, <1>7, RefusedKeeps
<1>8. CASE To(t, "rechecking") /\ Kept /\ UNCHANGED <<saved, active, loop, starting, lost, strayed>>
  <2>1. PICK stage \in TaskStages : stage = "rechecking"
    BY DEF TaskStages
  <2>2. PICK r : r = [task[t] EXCEPT !.stage = stage]
    OBVIOUS
  <2>3. PICK q : q = task[t]
    OBVIOUS
  <2>4. /\ task' = [task EXCEPT ![t] = r] /\ r \in TaskRows /\ r.stage = "rechecking" /\ r.of = q.of
        /\ r.session = q.session /\ r.then = q.then /\ r.holds = q.holds
    BY <1>8, <2>1, <2>2, <2>3, StageMoves
  <2>5. q.stage = "pinging" /\ TaskFits(q) /\ q.then # "observe"
    BY <1>1, <2>3, RowsFit
  <2>6. TaskFits(r)'
    BY <1>3, <1>8, <2>4, <2>5 DEF TaskFits
  <2>7. r.stage # "ending" /\ r.then # "observe" /\ (r.holds => task[t].holds)
    BY <2>3, <2>4, <2>5
  <2>8. UNCHANGED <<wallet, observed, had, saved, starting, active, loop, owner, live, lost, strayed>>
    BY <1>3, <1>8 DEF Kept
  <2> QED
    BY <1>1, <1>4, <2>4, <2>6, <2>7, <2>8, TabGoesOn
<1>9. \/ Finish(t) /\ Kept /\ UNCHANGED <<saved, active, loop, lost, strayed>>
      \/ task[t].session \notin live /\ \E n \in Fresh : Replaced(t, n) /\ Created(w, n)
      \/ Refused(t, w) /\ UNCHANGED strayed
      \/ To(t, "rechecking") /\ Kept /\ UNCHANGED <<saved, active, loop, starting, lost, strayed>>
  BY <1>2 DEF Pong
<1> QED
  BY <1>5, <1>6, <1>7, <1>8, <1>9

-----------------------------------------------------------------------------
\* The visitor, and others.

LEMMA ReloadKeeps == ASSUME TrackerInv, Reload PROVE TrackerInv'
<1>1. PICK left : left = {task[t].session : t \in {x \in Tasks : task[x].stage = "ending"}} \cup ({active} \ {0})
  OBVIOUS
<1>2. PICK lose \in SUBSET left : live' = live \ (left \ lose) /\ lost' = lost \cup lose
  BY <1>1 DEF Reload
<1>3. /\ saved' = [w \in Accounts |-> IF active # 0 /\ owner[active] = w THEN 0 ELSE saved[w]]
      /\ wallet' = NoAccount /\ active' = 0 /\ loop' = 0 /\ starting' = FALSE
      /\ observed' = NoAccount /\ had' = FALSE
      /\ task' = [t \in Tasks |-> Idle] /\ modal' = [stage |-> "none", of |-> NoAccount]
      /\ UNCHANGED <<signed, connectOn, barred, token, owner, strayed>>
  BY DEF Reload
<1>4. left \subseteq Ids
  <2>1. \A t \in Tasks : task[t].stage = "ending" => task[t].session \in Ids
    BY RowsFit DEF TaskFits, SessionOrNone
  <2>2. {active} \ {0} \subseteq Ids
    BY DEF TrackerInv, TabTyped, SessionOrNone
  <2> QED
    BY <1>1, <2>1, <2>2
<1>5. live' \subseteq live /\ lost' \subseteq Ids
  BY <1>2, <1>4 DEF TrackerInv, TabTyped
<1>6. \A w \in Accounts : saved'[w] = saved[w] \/ saved'[w] = 0
  BY <1>3
<1>7. saved' \in [Accounts -> SessionOrNone]
  BY <1>3 DEF TrackerInv, TabTyped, SessionOrNone
<1>8. TabTyped'
  BY <1>3, <1>5, <1>7 DEF TrackerInv, TabTyped, SessionOrNone, Maybe
<1>9. SessionsInv'
  BY <1>3, <1>5, <1>6 DEF TrackerInv, SessionsInv
<1>10. \A t \in Tasks : task'[t] = Idle
  BY <1>3
<1>11. TasksInv'
  BY <1>3, <1>10, IdleWillFit DEF TasksInv
<1>12. modal'.stage = "none" /\ modal'.of = NoAccount
  BY <1>3
<1>13. RestTyped'
  BY <1>3, <1>12 DEF TrackerInv, RestTyped, Maybe
<1>14. OpenInv'
  <2> SUFFICES ASSUME NEW s \in live' PROVE s \in lost'
    BY DEF OpenInv
  <2>1. s \in live /\ (s \in left => s \in lost')
    BY <1>2
  <2>2. s \in lost \/ s \in left
    <3>1. s # 0
      BY <2>1, NoIdIsNone DEF TrackerInv, TabTyped
    <3>2. s = active \/ s \in lost \/ \E t \in Tasks : task[t].stage = "ending" /\ task[t].session = s
      BY <2>1 DEF TrackerInv, OpenInv
    <3> QED
      BY <1>1, <3>1, <3>2
  <2> QED
    BY <1>2, <2>1, <2>2
<1>15. FollowInv'
  BY <1>3, <1>10, IdleFits DEF FollowInv
<1> QED
  BY <1>8, <1>9, <1>11, <1>13, <1>14, <1>15 DEF TrackerInv

\* What leaves the tab and its sessions alone.
LEMMA TabRests ==
  ASSUME TrackerInv, RestTyped', live' \subseteq live,
         UNCHANGED <<wallet, active, loop, starting, observed, had, task, saved, owner, lost, strayed>>
  PROVE  TrackerInv'
<1>1. TabTyped'
  BY DEF TrackerInv, TabTyped
<1>2. TasksInv'
  BY DEF TrackerInv, TasksInv, TaskFits
<1>3. SessionsInv'
  BY DEF TrackerInv, SessionsInv
<1>4. OpenInv'
  BY DEF TrackerInv, OpenInv
<1>5. FollowInv'
  BY DEF TrackerInv, FollowInv, WillObserve
<1> QED
  BY <1>1, <1>2, <1>3, <1>4, <1>5 DEF TrackerInv

LEMMA ModalKeeps == ASSUME TrackerInv, AskSignature \/ Signs \/ SignFails PROVE TrackerInv'
<1>1. /\ live' \subseteq live
      /\ UNCHANGED <<wallet, active, loop, starting, observed, had, task, saved, owner, lost, strayed>>
  BY DEF AskSignature, Signs, SignFails, apiVars
<1>2. ASSUME AskSignature PROVE RestTyped'
  <2>1. modal'.stage = "signing" /\ modal'.of = wallet /\ wallet \in Accounts
    BY <1>2 DEF AskSignature, MayAskSignature, TrackerInv, TabTyped, Maybe
  <2> QED
    BY <1>2, <2>1 DEF AskSignature, apiVars, TrackerInv, RestTyped, Maybe
<1>3. ASSUME Signs PROVE RestTyped'
  <2>1. modal.of \in Accounts /\ wallet = modal.of /\ token' = wallet
    BY <1>3 DEF Signs, TrackerInv, RestTyped
  <2>2. PICK m : m = modal
    OBVIOUS
  <2>3. modal' = [m EXCEPT !.stage = "marking"]
    BY <1>3, <2>2 DEF Signs
  <2>4. modal'.of = m.of
    BY <2>3
  <2> QED
    BY <1>3, <2>1, <2>2, <2>4 DEF Signs, TrackerInv, RestTyped, Maybe
<1>4. ASSUME SignFails PROVE RestTyped'
  <2>1. modal'.stage = "none" /\ modal'.of = NoAccount
    BY <1>4 DEF SignFails
  <2> QED
    BY <1>4, <2>1 DEF SignFails, apiVars, TrackerInv, RestTyped, Maybe
<1> QED
  BY <1>1, <1>2, <1>3, <1>4, TabRests

LEMMA OthersKeep ==
  ASSUME TrackerInv, TurnOff \/ TokenExpires \/ (\E w \in Accounts : Bar(w)) \/ (\E s \in Ids : Sweep(s))
  PROVE  TrackerInv'
<1>1. /\ live' \subseteq live
      /\ UNCHANGED <<wallet, active, loop, starting, observed, had, task, saved, owner, lost, strayed>>
      /\ UNCHANGED <<signed, modal>>
  BY DEF TurnOff, TokenExpires, Bar, Sweep, Turns, tabVars
<1>2. token' \in Maybe /\ barred' \subseteq Accounts /\ connectOn' \in BOOLEAN
  BY DEF TurnOff, TokenExpires, Bar, Sweep, Turns, TrackerInv, RestTyped, Maybe
<1>3. RestTyped'
  BY <1>1, <1>2 DEF TrackerInv, RestTyped
<1> QED
  BY <1>1, <1>3, TabRests

LEMMA TrackerStep == TrackerInv /\ [TrackerNext]_trackerVars => TrackerInv'
<1> SUFFICES ASSUME TrackerInv, [TrackerNext]_trackerVars PROVE TrackerInv'
  OBVIOUS
<1>1. ASSUME NEW t \in Tasks,
             \/ End(t) \/ Leave(t) \/ Drop(t) \/ Gate(t) \/ Check(t) \/ Start(t) \/ Resume(t)
             \/ Ping(t) \/ Pong(t) \/ Recheck(t) \/ Regate(t) \/ Mark(t) \/ SignBarred(t)
             \/ \E w \in Maybe : Choose(t, w)
      PROVE  TrackerInv'
  BY <1>1, EndSessionKeeps, LeaveKeeps, DropKeeps, GateKeeps, CheckKeeps, StartKeeps, ResumeKeeps, PingKeeps,
     PongKeeps, RecheckKeeps, RegateKeeps, MarkKeeps, SignBarredKeeps, ChooseKeeps
<1>2. CASE Reload
  BY <1>2, ReloadKeeps
<1>3. CASE AskSignature \/ Signs \/ SignFails
  BY <1>3, ModalKeeps
<1>4. CASE TurnOff \/ TokenExpires \/ (\E w \in Accounts : Bar(w)) \/ (\E s \in Ids : Sweep(s))
  BY <1>4, OthersKeep
<1>5. CASE UNCHANGED trackerVars
  <2>1. /\ live' \subseteq live
        /\ UNCHANGED <<wallet, active, loop, starting, observed, had, task, saved, owner, lost, strayed>>
        /\ UNCHANGED <<token, barred, signed, connectOn, modal>>
    BY <1>5 DEF trackerVars, tabVars, apiVars
  <2> QED
    BY <2>1, RestStays, TabRests
<1> QED
  BY <1>1, <1>2, <1>3, <1>4, <1>5 DEF TrackerNext

THEOREM TrackerInvariance == TrackerInit /\ [][TrackerNext]_trackerVars => []TrackerInv
  BY InitTrackerInv, TrackerStep, PTL

LEMMA TrackerInvKeeps == TrackerInv => TrackerTypeOK /\ SessionIsOfTheWallet /\ OpenSessionsAreKnown
<1> SUFFICES ASSUME TrackerInv PROVE TrackerTypeOK /\ SessionIsOfTheWallet /\ OpenSessionsAreKnown
  OBVIOUS
<1>1. TrackerTypeOK
  BY DEF TrackerInv, RestTyped, TabTyped, TrackerTypeOK, SessionOrNone
<1>2. ASSUME AtRest PROVE \A t \in Tasks : task[t].stage = "idle" /\ ~WillObserve(t)
  BY <1>2, RowsFit DEF AtRest, FreeTask, TaskFits, WillObserve
<1>3. SessionIsOfTheWallet
  BY <1>2 DEF SessionIsOfTheWallet, TrackerInv, FollowInv
<1>4. OpenSessionsAreKnown
  BY <1>2 DEF OpenSessionsAreKnown, TrackerInv, OpenInv
<1> QED
  BY <1>1, <1>3, <1>4

-----------------------------------------------------------------------------
(* The wallet and its portfolio.                                             *)

\* The list of tokens is of its key, or a load of that key will publish it.
ChainInv ==
    /\ shared.key \in WalletKeys \cup {NoKey} /\ shared.loading \in BOOLEAN
    /\ shared.tokens.of \in WalletKeys \cup {NoKey} /\ shared.tokens.has \in BOOLEAN
    /\ shared = [key |-> shared.key, loading |-> shared.loading,
                 tokens |-> [of |-> shared.tokens.of, has |-> shared.tokens.has]]
    /\ inFlight \in [WalletKeys -> BOOLEAN]
    /\ shared.loading => shared.key # NoKey /\ inFlight[shared.key]
    /\ shared.tokens.of \in {NoKey, shared.key} \/ (shared.key # NoKey /\ inFlight[shared.key])
ProfileRows == [wallet : Someone, loading : BOOLEAN, loaded : BOOLEAN, of : Someone, has : BOOLEAN]
\* The profile is of the wallet of the application, unless an outlived timer loaded one.
ProfileInv ==
    /\ profile \in ProfileRows /\ request \in [Requests -> [of : Someone]]
    /\ profile.loading => \E r \in Requests : request[r].of = profile.wallet
    /\ ~outlived => /\ profile.wallet \in {NoHolder, appWallet}
                    /\ profile.of \in {NoHolder, appWallet}
VisitorInv ==
    /\ adapter \in Someone /\ net \in Nets /\ stamped \subseteq Holders
    /\ leaving \in BOOLEAN /\ delayed \subseteq Holders
    /\ outlived \in BOOLEAN /\ switches \in 0 .. MaxSwitches
    /\ appWallet \in Someone
    /\ appWallet # NoHolder => appWallet = adapter /\ appWallet \in stamped
PortfolioInv == VisitorInv /\ ChainInv /\ ProfileInv

LEMMA NoKeyIsNone == NoKey \notin WalletKeys
  BY PortfolioAssumption DEF NoKey, WalletKeys

LEMMA KeyIs ==
  ASSUME NEW n \in Nets, NEW w \in Someone
  PROVE  /\ CurrentKey(n, w) \in WalletKeys \cup {NoKey}
         /\ w # NoHolder => CurrentKey(n, w) = <<n, w>> /\ CurrentKey(n, w) \in WalletKeys
         /\ w = NoHolder => CurrentKey(n, w) = NoKey
  BY DEF CurrentKey, PairsOf, Someone, WalletKeys

LEMMA InitPortfolioInv == PortfolioInit => PortfolioInv
<1> SUFFICES ASSUME PortfolioInit PROVE PortfolioInv
  OBVIOUS
<1>1. ChainInv
  BY DEF PortfolioInit, ChainInv, NoTokens
<1>2. ProfileInv
  <2>1. NoProfile \in ProfileRows /\ NoProfile.loading = FALSE /\ NoProfile.wallet = NoHolder
        /\ NoProfile.of = NoHolder
    BY DEF NoProfile, ProfileRows, Someone
  <2>2. NoRequest \in [of : Someone]
    BY DEF NoRequest, Someone
  <2> QED
    BY <2>1, <2>2 DEF PortfolioInit, ProfileInv
<1>3. VisitorInv
  <2>1. switches = 0 /\ 0 \in 0 .. MaxSwitches
    BY PortfolioAssumption DEF PortfolioInit
  <2>2. leaving = FALSE /\ outlived = FALSE
    BY DEF PortfolioInit
  <2> QED
    BY <2>1, <2>2 DEF PortfolioInit, VisitorInv, Someone
<1> QED
  BY <1>1, <1>2, <1>3 DEF PortfolioInv

-----------------------------------------------------------------------------
\* What is done to the list of tokens.

LEMMA ChainRests == ASSUME ChainInv, UNCHANGED chainVars PROVE ChainInv'
  BY DEF ChainInv, chainVars

LEMMA EnsureKeeps ==
  ASSUME ChainInv, NEW k \in WalletKeys \cup {NoKey}, Ensure(shared, inFlight, k)
  PROVE  ChainInv'
<1>1. CASE k = NoKey
  <2>1. /\ shared'.key = NoKey /\ shared'.loading = FALSE /\ shared'.tokens.of = NoKey
        /\ shared'.tokens.has = FALSE /\ inFlight' = inFlight
        /\ shared' = [key |-> NoKey, loading |-> FALSE, tokens |-> [of |-> NoKey, has |-> FALSE]]
    BY <1>1 DEF Ensure, NoTokens
  <2> QED
    BY <2>1 DEF ChainInv
<1>2. CASE k # NoKey
  <2>1. k \in WalletKeys /\ inFlight' = [inFlight EXCEPT ![k] = TRUE]
    BY <1>2 DEF Ensure
  <2>2. inFlight' \in [WalletKeys -> BOOLEAN] /\ inFlight'[k] = TRUE
    BY <2>1 DEF ChainInv
  <2>3. PICK t \in {shared.tokens, NoTokens} : shared' = [key |-> k, loading |-> TRUE, tokens |-> t]
    BY <1>2 DEF Ensure
  <2>4. /\ t.of \in WalletKeys \cup {NoKey} /\ t.has \in BOOLEAN
        /\ t = [of |-> t.of, has |-> t.has]
    <3>1. CASE t = NoTokens
      BY <3>1 DEF NoTokens
    <3>2. CASE t = shared.tokens
      BY <3>2 DEF ChainInv
    <3> QED
      BY <2>3, <3>1, <3>2
  <2>5. shared'.key = k /\ shared'.loading = TRUE /\ shared'.tokens = t
    BY <2>3
  <2> QED
    BY <1>2, <2>1, <2>2, <2>3, <2>4, <2>5 DEF ChainInv
<1> QED
  BY <1>1, <1>2

LEMMA ListChanges ==
  ASSUME ChainInv, NEW k \in WalletKeys \cup {NoKey}, Ensure(shared, inFlight, k) \/ CacheServes(k)
  PROVE  ChainInv'
<1>1. CASE Ensure(shared, inFlight, k)
  BY <1>1, EnsureKeeps
<1>2. CASE CacheServes(k)
  BY <1>2, ChainRests DEF CacheServes
<1> QED
  BY <1>1, <1>2

LEMMA LoadEndsKeeps ==
  ASSUME ChainInv, NEW k \in WalletKeys, LoadEnds(k) PROVE ChainInv'
<1>1. /\ inFlight' = [inFlight EXCEPT ![k] = FALSE] /\ inFlight' \in [WalletKeys -> BOOLEAN]
      /\ \A l \in WalletKeys \ {k} : inFlight'[l] = inFlight[l]
  BY DEF LoadEnds, ChainInv
<1>2. CASE shared.key # k
  <2>1. shared' = shared
    BY <1>2 DEF LoadEnds, Publishes
  <2> QED
    BY <1>1, <1>2, <2>1 DEF ChainInv
<1>3. CASE shared.key = k
  <2>1. PICK has \in BOOLEAN :
           shared' = [shared EXCEPT !.tokens = [of |-> k, has |-> has], !.loading = FALSE]
    BY <1>3 DEF LoadEnds, Publishes
  <2>2. shared' = [key |-> k, loading |-> FALSE, tokens |-> [of |-> k, has |-> has]]
    BY <1>3, <2>1 DEF ChainInv
  <2>3. shared'.key = k /\ shared'.loading = FALSE /\ shared'.tokens = [of |-> k, has |-> has]
    BY <2>2
  <2> QED
    BY <1>1, <2>2, <2>3 DEF ChainInv
<1> QED
  BY <1>2, <1>3

LEMMA ClearKeeps ==
  ASSUME ChainInv, VisitorInv, ClearAndRefresh PROVE ChainInv'
<1> DEFINE k == CurrentKey(net, adapter)
<1>1. k \in WalletKeys /\ k # NoKey
  BY KeyIs, NoKeyIsNone DEF ClearAndRefresh, VisitorInv
<1> HIDE DEF k
<1>2. /\ shared' = [key |-> k, tokens |-> NoTokens, loading |-> TRUE]
      /\ inFlight' = [inFlight EXCEPT ![k] = TRUE]
  BY DEF ClearAndRefresh, k
<1>3. inFlight' \in [WalletKeys -> BOOLEAN] /\ inFlight'[k] = TRUE
  BY <1>1, <1>2 DEF ChainInv
<1> QED
  BY <1>1, <1>2, <1>3 DEF ChainInv, NoTokens

-----------------------------------------------------------------------------
\* What is done to the profile.

LEMMA ProfileIs ==
  ASSUME NEW p \in ProfileRows
  PROVE  /\ p.wallet \in Someone /\ p.of \in Someone
         /\ p.loading \in BOOLEAN /\ p.loaded \in BOOLEAN /\ p.has \in BOOLEAN
         /\ p = [wallet |-> p.wallet, loading |-> p.loading, loaded |-> p.loaded,
                 of |-> p.of, has |-> p.has]
  BY DEF ProfileRows

LEMMA NoProfileIs ==
  /\ NoProfile \in ProfileRows /\ NoProfile.wallet = NoHolder /\ NoProfile.of = NoHolder
  /\ NoProfile.loading = FALSE
  BY DEF NoProfile, ProfileRows, Someone

LEMMA AskedIs ==
  ASSUME NEW p \in ProfileRows, NEW w \in Someone
  PROVE  /\ Asked(p, w) \in ProfileRows /\ Asked(p, w).wallet = w
         /\ Asked(p, w).of \in {NoHolder, p.of}
         /\ p.wallet # w => Asked(p, w).of = NoHolder
<1> DEFINE q == Asked(p, w)
<1>1. CASE p.wallet = w
  <2>1. q = [wallet |-> w, loading |-> ~p.loaded, loaded |-> p.loaded, of |-> p.of, has |-> p.has]
    BY <1>1, ProfileIs DEF Asked
  <2>2. (~p.loaded) \in BOOLEAN
    OBVIOUS
  <2> HIDE DEF q
  <2>3. q \in ProfileRows
    BY <2>1, <2>2, ProfileIs DEF ProfileRows
  <2>4. q.wallet = w /\ q.of = p.of
    BY <2>1
  <2> QED
    BY <1>1, <2>3, <2>4 DEF q
<1>2. CASE p.wallet # w
  <2>1. q = [wallet |-> w, loading |-> TRUE, loaded |-> p.loaded, of |-> NoHolder, has |-> FALSE]
    <3>1. q = [p EXCEPT !.wallet = w, !.loading = TRUE, !.of = NoHolder, !.has = FALSE]
      BY <1>2 DEF Asked
    <3>2. PICK a, b, c, d, e : p = [wallet |-> a, loading |-> b, loaded |-> c, of |-> d, has |-> e]
      BY ProfileIs
    <3> QED
      BY <3>1, <3>2
  <2>2. NoHolder \in Someone
    BY DEF Someone
  <2> HIDE DEF q
  <2>3. q \in ProfileRows
    BY <2>1, <2>2, ProfileIs DEF ProfileRows
  <2>4. q.wallet = w /\ q.of = NoHolder
    BY <2>1
  <2> QED
    BY <2>3, <2>4 DEF q
<1> QED
  BY <1>1, <1>2

\* A request of w is under way and the profile is w's or it is cleared.
LEMMA LoadKeeps ==
  ASSUME NEW p \in ProfileRows, NEW w \in Holders, request \in [Requests -> [of : Someone]],
         LoadProfile(p, w),
         ~outlived' => appWallet' = w /\ (p.wallet = w => p.of \in {NoHolder, w})
  PROVE  ProfileInv'
<1>1. w \in Someone
  BY DEF Someone
<1>2. PICK r \in Requests : request[r] = NoRequest /\ request' = [request EXCEPT ![r].of = w]
  BY DEF LoadProfile
<1>3. request' = [request EXCEPT ![r] = [of |-> w]]
  <2>1. request[r] = [of |-> NoHolder]
    BY <1>2 DEF NoRequest
  <2>2. [request[r] EXCEPT !.of = w] = [of |-> w]
    BY <2>1
  <2> QED
    BY <1>2, <2>2
<1>4. request' \in [Requests -> [of : Someone]] /\ request'[r].of = w
  BY <1>1, <1>3
<1>5. /\ profile' \in ProfileRows /\ profile'.wallet = w
      /\ profile'.of \in {NoHolder, p.of} /\ (p.wallet # w => profile'.of = NoHolder)
  <2>1. profile' = Asked(p, w)
    BY DEF LoadProfile
  <2> QED
    BY <1>1, <2>1, AskedIs
<1>6. \E s \in Requests : request'[s].of = profile'.wallet
  BY <1>4, <1>5
<1>7. ~outlived' => profile'.of \in {NoHolder, appWallet'}
  BY <1>5
<1>8. ~outlived' => profile'.wallet = appWallet'
  BY <1>5
<1> QED
  BY <1>4, <1>5, <1>6, <1>7, <1>8 DEF ProfileInv

LEMMA ClearProfileKeeps ==
  ASSUME request \in [Requests -> [of : Someone]], ClearProfile PROVE ProfileInv'
<1>1. profile' = NoProfile /\ request' = request
  BY DEF ClearProfile
<1> QED
  BY <1>1, NoProfileIs DEF ProfileInv

LEMMA SyncKeeps ==
  ASSUME NEW p \in ProfileRows, NEW w \in Someone, NEW stamps,
         request \in [Requests -> [of : Someone]],
         SyncProfile(p, w, stamps),
         ~outlived' /\ w # NoHolder => appWallet' = w /\ (p.wallet = w => p.of \in {NoHolder, w})
  PROVE  ProfileInv'
<1>1. CASE w # NoHolder /\ w \in stamps
  <2>1. w \in Holders /\ LoadProfile(p, w)
    BY <1>1 DEF SyncProfile, Someone
  <2> QED
    BY <1>1, <2>1, LoadKeeps
<1>2. CASE ~(w # NoHolder /\ w \in stamps)
  BY <1>2, ClearProfileKeeps DEF SyncProfile
<1> QED
  BY <1>1, <1>2

LEMMA ProfileRests ==
  ASSUME ProfileInv, UNCHANGED <<profile, request>>, ~outlived' => ~outlived /\ appWallet' = appWallet
  PROVE  ProfileInv'
  BY DEF ProfileInv

\* The adapter's wallet or the markers have changed.
LEMMA ReconnectKeeps ==
  ASSUME VisitorInv, ProfileInv, NEW w \in Someone, NEW stamps \in SUBSET Holders, Reconnect(w, stamps),
         outlived' = outlived
  PROVE  /\ ProfileInv' /\ stamped' = stamps /\ appWallet' \in {NoHolder, w}
         /\ appWallet' # NoHolder => appWallet' \in stamps
<1>1. /\ stamped' = stamps /\ appWallet' = Derived(w, stamps) /\ appWallet' \in Someone
      /\ appWallet' \in {NoHolder, w} /\ (appWallet' # NoHolder => appWallet' \in stamps)
  BY DEF Reconnect, Derived, Someone
<1> DEFINE p == IF appWallet # NoHolder /\ appWallet \notin stamps THEN NoProfile ELSE profile
<1>2. p \in ProfileRows /\ (p = NoProfile \/ p = profile)
  BY NoProfileIs DEF ProfileInv
<1>3. ProfileInv'
  <2>1. CASE appWallet' = appWallet
    <3>1. p = profile
      BY <1>1, <2>1
    <3>2. profile' = p /\ request' = request
      BY <1>1, <2>1 DEF Reconnect
    <3> QED
      BY <2>1, <3>1, <3>2, ProfileRests
  <2>2. CASE appWallet' # appWallet
    <3>1. SyncProfile(p, appWallet', stamps)
      BY <1>1, <2>2 DEF Reconnect
    <3>2. ~outlived => p.wallet \in {NoHolder, appWallet}
      BY <1>2, NoProfileIs DEF ProfileInv
    <3>3. ~outlived /\ appWallet' # NoHolder => p.wallet # appWallet'
      BY <2>2, <3>2
    <3> HIDE DEF p
    <3> QED
      BY <1>1, <1>2, <3>1, <3>3, SyncKeeps DEF ProfileInv
  <2> QED
    BY <2>1, <2>2
<1> QED
  BY <1>1, <1>3

-----------------------------------------------------------------------------
\* The steps.

LEMMA SwitchStep == ASSUME PortfolioInv, NEW w \in Someone, Switch(w) PROVE PortfolioInv'
<1> USE DEF PortfolioInv
<1>1. /\ adapter' = w /\ net' = net /\ leaving' = leaving /\ delayed' = delayed
      /\ outlived' = outlived /\ switches' = switches + 1 /\ switches < MaxSwitches
      /\ Reconnect(w, stamped \ {adapter})
  BY DEF Switch, Switches
<1>2. stamped \ {adapter} \in SUBSET Holders
  BY DEF VisitorInv
<1>3. /\ ProfileInv' /\ stamped' = stamped \ {adapter} /\ appWallet' \in {NoHolder, w}
      /\ appWallet' # NoHolder => appWallet' \in stamped'
  BY <1>1, <1>2, ReconnectKeeps
<1>4. ChainInv'
  <2>1. CurrentKey(net, w) \in WalletKeys \cup {NoKey}
    BY KeyIs DEF VisitorInv
  <2> QED
    BY <2>1, ListChanges DEF Switch
<1>5. switches' \in 0 .. MaxSwitches
  BY <1>1, PortfolioAssumption DEF VisitorInv
<1>6. VisitorInv'
  BY <1>1, <1>2, <1>3, <1>5 DEF VisitorInv, Someone
<1> QED
  BY <1>3, <1>4, <1>6

LEMMA SwitchNetStep == ASSUME PortfolioInv, NEW n \in Nets, SwitchNet(n) PROVE PortfolioInv'
<1> USE DEF PortfolioInv
<1>1. /\ net' = n /\ UNCHANGED <<adapter, stamped, appWallet, leaving, profile, request, delayed, outlived>>
      /\ switches' = switches + 1 /\ switches < MaxSwitches
  BY DEF SwitchNet, Switches, profileVars
<1>2. switches' \in 0 .. MaxSwitches
  BY <1>1, PortfolioAssumption DEF VisitorInv
<1>3. VisitorInv'
  BY <1>1, <1>2 DEF VisitorInv
<1>4. ChainInv'
  <2>1. CurrentKey(n, adapter) \in WalletKeys \cup {NoKey}
    BY KeyIs DEF VisitorInv
  <2> QED
    BY <2>1, ListChanges DEF SwitchNet
<1>5. ProfileInv'
  BY <1>1, ProfileRests
<1> QED
  BY <1>3, <1>4, <1>5

\* A sign-in, or a marker that is taken away.
LEMMA MarkStep ==
  ASSUME PortfolioInv, NEW stamps \in SUBSET Holders, Reconnect(adapter, stamps),
         UNCHANGED <<adapter, net, chainVars, outlived>>, leaving' \in BOOLEAN, delayed' \subseteq Holders,
         switches < MaxSwitches, switches' = switches + 1
  PROVE  PortfolioInv'
<1> USE DEF PortfolioInv
<1>1. adapter \in Someone
  BY DEF VisitorInv
<1>2. /\ ProfileInv' /\ stamped' = stamps /\ appWallet' \in {NoHolder, adapter}
      /\ appWallet' # NoHolder => appWallet' \in stamps
  BY <1>1, ReconnectKeeps
<1>3. switches' \in 0 .. MaxSwitches
  BY PortfolioAssumption DEF VisitorInv
<1>4. VisitorInv'
  BY <1>2, <1>3 DEF VisitorInv, Someone
<1> QED
  BY <1>2, <1>4, ChainRests

LEMMA MarkersStep ==
  ASSUME PortfolioInv, SignIn \/ LogOut \/ \E w \in Holders : MarkerCleared(w) PROVE PortfolioInv'
<1>1. stamped \subseteq Holders /\ delayed \subseteq Holders /\ leaving \in BOOLEAN /\ adapter \in Someone
      /\ appWallet \in Someone
  BY DEF PortfolioInv, VisitorInv
<1>2. CASE SignIn
  <2>1. adapter \in Holders
    BY <1>1, <1>2 DEF SignIn, Someone
  <2>2. stamped \cup {adapter} \in SUBSET Holders
    BY <1>1, <2>1
  <2> QED
    BY <1>1, <1>2, <2>2, MarkStep DEF SignIn, Switches
<1>3. CASE LogOut
  <2>1. stamped \ {adapter} \in SUBSET Holders
    BY <1>1
  <2> QED
    BY <1>1, <1>3, <2>1, MarkStep DEF LogOut, Switches
<1>4. ASSUME NEW w \in Holders, MarkerCleared(w) PROVE PortfolioInv'
  <2>1. stamped \ {w} \in SUBSET Holders
    BY <1>1
  <2>2. delayed' \subseteq Holders
    BY <1>1, <1>4 DEF MarkerCleared, Someone
  <2>3. /\ Reconnect(adapter, stamped \ {w}) /\ UNCHANGED <<adapter, net, chainVars, outlived, leaving>>
        /\ switches < MaxSwitches /\ switches' = switches + 1
    BY <1>4 DEF MarkerCleared, Switches
  <2> QED
    BY <1>1, <2>1, <2>2, <2>3, MarkStep
<1> QED
  BY <1>2, <1>3, <1>4

LEMMA LoggedOutStep == ASSUME PortfolioInv, LoggedOut PROVE PortfolioInv'
<1> USE DEF PortfolioInv
<1>1. PICK w \in {adapter, NoHolder} :
         /\ adapter' = w /\ stamped' = stamped \ ({adapter} \ {w})
         /\ IF w = adapter THEN UNCHANGED chainVars ELSE Ensure(shared, inFlight, NoKey)
  BY DEF LoggedOut
<1>2. leaving' = FALSE /\ appWallet' = NoHolder /\ UNCHANGED <<net, delayed, outlived, switches>>
  BY DEF LoggedOut
<1>3. VisitorInv'
  BY <1>1, <1>2 DEF VisitorInv, Someone
<1>4. ChainInv'
  BY <1>1, ChainRests, EnsureKeeps
<1>5. ProfileInv'
  <2>1. CASE appWallet = NoHolder
    <3>1. UNCHANGED <<profile, request>>
      BY <2>1 DEF LoggedOut
    <3> QED
      BY <1>2, <2>1, <3>1, ProfileRests
  <2>2. CASE appWallet # NoHolder
    <3>1. ClearProfile
      BY <2>2 DEF LoggedOut
    <3> QED
      BY <3>1, ClearProfileKeeps DEF ProfileInv
  <2> QED
    BY <2>1, <2>2
<1> QED
  BY <1>3, <1>4, <1>5

LEMMA RefreshDueStep == ASSUME PortfolioInv, RefreshDue PROVE PortfolioInv'
<1> USE DEF PortfolioInv
<1>1. /\ SyncProfile(profile, appWallet, stamped) /\ UNCHANGED <<walletVars, chainVars, delayed, outlived>>
      /\ switches < MaxSwitches /\ switches' = switches + 1
  BY DEF RefreshDue, Switches
<1>2. switches' \in 0 .. MaxSwitches
  BY <1>1, PortfolioAssumption DEF VisitorInv
<1>3. VisitorInv'
  BY <1>1, <1>2 DEF VisitorInv, walletVars
<1>4. ProfileInv'
  <2>1. appWallet' = appWallet /\ outlived' = outlived /\ appWallet \in Someone
    BY <1>1 DEF walletVars, VisitorInv
  <2> QED
    BY <1>1, <2>1, SyncKeeps DEF ProfileInv
<1> QED
  BY <1>1, <1>3, <1>4, ChainRests

LEMMA DelayedLoadStep == ASSUME PortfolioInv, NEW w \in Holders, DelayedLoad(w) PROVE PortfolioInv'
<1> USE DEF PortfolioInv
<1>1. /\ LoadProfile(profile, w) /\ UNCHANGED <<walletVars, chainVars, switches>>
      /\ delayed' = delayed \ {w} /\ outlived' = (outlived \/ w # appWallet)
  BY DEF DelayedLoad
<1>2. outlived' \in BOOLEAN
  BY <1>1 DEF VisitorInv
<1>3. VisitorInv'
  BY <1>1, <1>2 DEF VisitorInv, walletVars
<1>4. ProfileInv'
  <2>1. ~outlived' => appWallet' = w /\ (profile.wallet = w => profile.of \in {NoHolder, w})
    BY <1>1 DEF walletVars, ProfileInv
  <2> QED
    BY <1>1, <2>1, LoadKeeps DEF ProfileInv
<1> QED
  BY <1>1, <1>3, <1>4, ChainRests

LEMMA AnswerStep == ASSUME PortfolioInv, NEW r \in Requests, ProfileAnswered(r) PROVE PortfolioInv'
<1> USE DEF PortfolioInv
<1> DEFINE w == request[r].of
<1>1. /\ w # NoHolder /\ request' = [request EXCEPT ![r] = NoRequest]
      /\ UNCHANGED <<walletVars, chainVars, delayed, outlived, switches>>
  BY DEF ProfileAnswered
<1>2. VisitorInv'
  BY <1>1 DEF VisitorInv, walletVars
<1>3. /\ request' \in [Requests -> [of : Someone]]
      /\ \A s \in Requests \ {r} : request'[s] = request[s]
  <2>1. NoRequest \in [of : Someone]
    BY DEF NoRequest, Someone
  <2> QED
    BY <1>1, <2>1 DEF ProfileInv
<1>4. ProfileInv'
  <2>1. CASE profile.wallet = w
    <3>1. PICK loaded \in BOOLEAN, of \in {w, profile.of}, has \in BOOLEAN :
             profile' = [wallet |-> w, loading |-> FALSE, loaded |-> loaded, of |-> of, has |-> has]
      <4>1. PICK b, c, d, e :
               /\ profile = [wallet |-> w, loading |-> b, loaded |-> c, of |-> d, has |-> e]
               /\ c \in BOOLEAN /\ e \in BOOLEAN
        BY <2>1, ProfileIs DEF ProfileInv
      <4>2. \/ \E has \in BOOLEAN :
                 profile' = [profile EXCEPT !.loading = FALSE, !.loaded = TRUE, !.of = w, !.has = has]
            \/ profile' = [profile EXCEPT !.loading = FALSE]
        BY <2>1 DEF ProfileAnswered, AnswerIsOurs
      <4>3. ASSUME NEW has \in BOOLEAN,
                   profile' = [profile EXCEPT !.loading = FALSE, !.loaded = TRUE, !.of = w, !.has = has]
            PROVE  profile' = [wallet |-> w, loading |-> FALSE, loaded |-> TRUE, of |-> w, has |-> has]
        BY <4>1, <4>3
      <4>4. ASSUME profile' = [profile EXCEPT !.loading = FALSE]
            PROVE  profile' = [wallet |-> w, loading |-> FALSE, loaded |-> c, of |-> d, has |-> e]
        BY <4>1, <4>4
      <4>5. d = profile.of
        BY <4>1
      <4> QED
        BY <4>1, <4>2, <4>3, <4>4, <4>5
    <3>2. w \in Someone /\ profile.of \in Someone
      BY <2>1, ProfileIs DEF ProfileInv
    <3>3. profile' \in ProfileRows
      BY <3>1, <3>2 DEF ProfileRows
    <3>4. profile'.wallet = w /\ profile'.of \in {w, profile.of} /\ profile'.loading = FALSE
      BY <3>1
    <3>5. appWallet' = appWallet /\ outlived' = outlived
      BY <1>1 DEF walletVars
    <3> QED
      BY <1>1, <1>3, <2>1, <3>3, <3>4, <3>5 DEF ProfileInv
  <2>2. CASE profile.wallet # w
    <3>1. profile' = profile
      BY <2>2 DEF ProfileAnswered, AnswerIsOurs
    <3>2. appWallet' = appWallet /\ outlived' = outlived
      BY <1>1 DEF walletVars
    <3>3. profile.loading => \E s \in Requests : request'[s].of = profile.wallet
      BY <1>3, <2>2 DEF ProfileInv
    <3> QED
      BY <1>3, <3>1, <3>2, <3>3 DEF ProfileInv
  <2> QED
    BY <2>1, <2>2
<1> QED
  BY <1>1, <1>2, <1>4, ChainRests

LEMMA PortfolioStep == PortfolioInv /\ [PortfolioNext]_portfolioVars => PortfolioInv'
<1>1. ASSUME PortfolioInv, UNCHANGED portfolioVars PROVE PortfolioInv'
  <2>1. UNCHANGED <<adapter, net, stamped, appWallet, leaving, shared, inFlight, profile, request,
                    delayed, outlived, switches>>
    BY <1>1 DEF portfolioVars, walletVars, chainVars, profileVars
  <2>2. VisitorInv'
    BY <1>1, <2>1 DEF PortfolioInv, VisitorInv
  <2> QED
    BY <1>1, <2>1, <2>2, ChainRests, ProfileRests DEF PortfolioInv, chainVars
<1>2. ASSUME PortfolioInv, NEW k \in WalletKeys, LoadEnds(k) PROVE PortfolioInv'
  <2>1. UNCHANGED <<walletVars, profileVars, switches>>
    BY <1>2 DEF LoadEnds
  <2>2. VisitorInv' /\ ProfileInv'
    BY <1>2, <2>1, ProfileRests DEF PortfolioInv, VisitorInv, walletVars, profileVars
  <2> QED
    BY <1>2, <2>2, LoadEndsKeeps DEF PortfolioInv
<1>3. ASSUME PortfolioInv, ClearAndRefresh PROVE PortfolioInv'
  <2>1. UNCHANGED <<walletVars, profileVars>> /\ switches < MaxSwitches /\ switches' = switches + 1
    BY <1>3 DEF ClearAndRefresh, Switches
  <2>2. switches' \in 0 .. MaxSwitches
    BY <1>3, <2>1, PortfolioAssumption DEF PortfolioInv, VisitorInv
  <2>3. VisitorInv' /\ ProfileInv'
    BY <1>3, <2>1, <2>2, ProfileRests DEF PortfolioInv, VisitorInv, walletVars, profileVars
  <2> QED
    BY <1>3, <2>3, ClearKeeps DEF PortfolioInv
<1> QED
  BY <1>1, <1>2, <1>3, AnswerStep, RefreshDueStep, MarkersStep, LoggedOutStep, DelayedLoadStep,
     SwitchStep, SwitchNetStep DEF PortfolioNext

LEMMA PortfolioInvariance == PortfolioInit /\ [][PortfolioNext]_portfolioVars => []PortfolioInv
  BY InitPortfolioInv, PortfolioStep, PTL

LEMMA PortfolioInvKeeps ==
  PortfolioInv => PortfolioTypeOK /\ RowsAreOfTheWallet /\ SpinnersEnd /\ AppIsSigned
<1> SUFFICES ASSUME PortfolioInv
             PROVE  PortfolioTypeOK /\ RowsAreOfTheWallet /\ SpinnersEnd /\ AppIsSigned
  OBVIOUS
<1> USE DEF PortfolioInv
<1>1. PortfolioTypeOK
  <2>1. shared \in [key : WalletKeys \cup {NoKey}, loading : BOOLEAN,
                    tokens : [of : WalletKeys \cup {NoKey}, has : BOOLEAN]]
    <3>1. [of |-> shared.tokens.of, has |-> shared.tokens.has] \in [of : WalletKeys \cup {NoKey}, has : BOOLEAN]
      BY DEF ChainInv
    <3> QED
      BY <3>1 DEF ChainInv
  <2> QED
    BY <2>1 DEF PortfolioTypeOK, VisitorInv, ChainInv, ProfileInv, ProfileRows
<1>2. SpinnersEnd
  BY DEF SpinnersEnd, ChainInv, ProfileInv
<1>3. AppIsSigned
  BY DEF AppIsSigned, VisitorInv
<1>4. RowsAreOfTheWallet
  <2> SUFFICES ASSUME appWallet # NoHolder PROVE RowsAreOfTheWallet
    BY DEF RowsAreOfTheWallet
  <2> DEFINE k == CurrentKey(net, adapter)
             late == (IF outlived THEN {profile.of} ELSE {})
                     \cup (IF inFlight[k] THEN {Returned.of[2]} ELSE {})
  <2>1. k = <<net, adapter>> /\ k \in WalletKeys /\ k # NoKey /\ k[2] = appWallet
    BY KeyIs, NoKeyIsNone DEF VisitorInv
  <2>2. NoKey[2] = NoHolder
    BY DEF NoKey
  <2> HIDE DEF k
  <2>3. Returned.of \in {NoKey, k} \/ inFlight[k]
    <3>1. CASE shared.key = k
      <4>1. Returned = shared.tokens
        BY <3>1 DEF Returned, k
      <4> QED
        BY <3>1, <4>1 DEF ChainInv
    <3>2. CASE shared.key # k
      <4>1. Returned = NoTokens
        BY <3>2 DEF Returned, k
      <4> QED
        BY <4>1 DEF NoTokens
    <3> QED
      BY <3>1, <3>2
  <2>4. Returned.of[2] \in {NoHolder, appWallet} \cup late
    <3>1. CASE inFlight[k]
      BY <3>1 DEF k
    <3>2. CASE Returned.of \in {NoKey, k}
      BY <2>1, <2>2, <3>2
    <3> QED
      BY <2>3, <3>1, <3>2
  <2>5. profile.of \in {NoHolder, appWallet} \cup late
    BY DEF ProfileInv
  <2>6. \A x \in Rows : x = profile.of \/ x = Returned.of[2]
    BY DEF Rows, ListedRow, RaRow
  <2>7. Rows \subseteq {NoHolder, appWallet} \cup late
    <3> HIDE DEF late
    <3> QED
      BY <2>4, <2>5, <2>6
  <2> QED
    BY <2>3, <2>7 DEF RowsAreOfTheWallet, k
<1> QED
  BY <1>1, <1>2, <1>3, <1>4

-----------------------------------------------------------------------------
(* The cookie of the wallet.                                                 *)

BarRows == [how : {"no", "worded", "silent"}, nr : Nat]
ErrandKinds == {"none", "users", "verify", "logout", "page", "news"}
ErrandStages == {"none", "asked", "gate", "fetching", "access", "answered"}
ErrandAnswers == {"none", "ok", "barred", "silent", "refused", "failed", "cleared", "unchecked"}
TokenOrNone == Tokens \cup {0}
WalletOrNone == Wallets \cup {NoWallet}
ErrandRows ==
    [kind : ErrandKinds, stage : ErrandStages, answer : ErrandAnswers, token : TokenOrNone,
     of : WalletOrNone, reader : Nat, gave : TokenOrNone, bar : BarRows, fallback : BOOLEAN]

\* What its kind says of a call, wherever it is.
Shape(e) ==
    /\ e.kind = "none" => e.stage = "none"
    /\ e.kind \in {"users", "verify", "news"} => e.stage \in {"asked", "answered"}
    /\ e.kind = "page" => e.stage \in {"gate", "fetching", "access", "answered"}
    /\ e.kind = "logout" => e.stage = "answered" /\ e.answer = "none"
    /\ e.kind \in {"none", "news"} => e.answer \in {"none", "ok", "failed"}
    /\ e.stage # "answered" => e.answer = "none"
    /\ e.answer = "cleared" => e.kind = "page"
    /\ e.answer = "refused" => e.kind = "users"
    /\ e.answer = "barred" => e.kind \in {"users", "verify", "page"}
    /\ e.gave # 0 => e.kind = "verify"
\* A call that brought the block that still stands is answered with it.
Tells(e) ==
    \/ e.kind = "page" /\ e.bar.how # "no" /\ e.answer # "unchecked"
    \/ e.kind = "users" /\ e.bar.how = "worded" /\ e.answer # "failed"
\* The token of a call, and what may have become of it meanwhile.
TokenOf(e) ==
    /\ e.token # 0 => holder[e.token] # NoWallet
    /\ e.kind \in {"users", "verify"} /\ e.token # 0 => holder[e.token] = e.of \/ e.token \in excused
    /\ e.kind = "page" => e.token # 0 /\ holder[e.token] = e.of
    /\ e.kind = "logout" => e.token \in excused \cup {0}
    /\ e.kind \notin {"none", "news"} => jar.token \in excused \cup {0, e.token}
AnswerOf(e) ==
    /\ e.kind \in {"users", "verify", "page"} => e.of \in Wallets /\ e.bar.nr <= bar[e.of].nr
    /\ e.answer = "cleared" => shut \/ e.token \in stale \cup {0}
    /\ e.answer = "barred" => bar[e.of].nr > 0
    /\ e.answer = "refused" => e.token \in stale \cup excused \cup {0}
    /\ e.stage = "answered" /\ Tells(e) /\ bar[e.of] = e.bar => Clears(e)
CallInv(e) == e \in ErrandRows /\ Shape(e) /\ TokenOf(e) /\ AnswerOf(e)
CallsInv == DOMAIN errand = Errands /\ \A c \in Errands : CallInv(errand[c])

\* A token on its way to the jar was never there.
GaveInv ==
    /\ \A c \in Errands :
          errand[c].gave # 0 => /\ holder[errand[c].gave] # NoWallet
                                /\ errand[c].gave \notin told /\ errand[c].gave # jar.token
    /\ \A c, d \in Errands : errand[c].gave # 0 => errand[d].token # errand[c].gave
    /\ \A c, d \in Errands : errand[c].gave # 0 /\ errand[d].gave = errand[c].gave => c = d

JarInv ==
    /\ jar = [token |-> jar.token, reader |-> jar.reader]
    /\ jar.token \in Tokens \cup {0} /\ jar.reader \in Nat /\ readers \in Nat /\ jar.reader <= readers
    /\ \A c \in Errands : errand[c].reader <= readers
    /\ jar.token # 0 => holder[jar.token] # NoWallet
    /\ jar.token \notin told
ServerInv ==
    /\ holder \in [Tokens -> Wallets \cup {NoWallet}] /\ stale \subseteq Tokens
    /\ bar \in [Wallets -> BarRows] /\ \A w \in Wallets : bar[w].how # "no" => bar[w].nr > 0
    /\ told \subseteq Tokens /\ \A t \in told : holder[t] # NoWallet
    /\ dropped \subseteq Tokens /\ \A t \in dropped : holder[t] # NoWallet
    /\ excused \subseteq Tokens
    /\ gateCache.on \in BOOLEAN /\ connect \in BOOLEAN
    /\ gateCache.fresh /\ ~gateCache.on => shut
    /\ TokensAreKept
TokenInv == CallsInv /\ GaveInv /\ JarInv /\ ServerInv

LEMMA BarErrandFields ==
  ASSUME NEW e \in ErrandRows
  PROVE  /\ e.kind \in ErrandKinds /\ e.stage \in ErrandStages /\ e.answer \in ErrandAnswers
         /\ e.token \in TokenOrNone /\ e.of \in WalletOrNone /\ e.reader \in Nat
         /\ e.gave \in TokenOrNone /\ e.bar \in BarRows /\ e.fallback \in BOOLEAN
  BY DEF ErrandRows

LEMMA NoErrandIs ==
  /\ NoErrand \in ErrandRows /\ Shape(NoErrand) /\ NoErrand.kind = "none" /\ NoErrand.token = 0
  /\ NoErrand.gave = 0 /\ NoErrand.reader = 0 /\ NoErrand.answer = "none" /\ NoErrand.stage = "none"
  /\ NoErrand.bar.how = "no" /\ NoErrand.bar \in BarRows /\ NoErrand.of = NoWallet
<1>1. /\ NoErrand.kind = "none" /\ NoErrand.token = 0 /\ NoErrand.gave = 0 /\ NoErrand.reader = 0
      /\ NoErrand.answer = "none" /\ NoErrand.stage = "none" /\ NoErrand.of = NoWallet
      /\ NoErrand.bar.how = "no" /\ NoErrand.bar \in BarRows
  BY DEF NoErrand, BarRows
<1>2. NoErrand \in ErrandRows
  BY DEF NoErrand, ErrandRows, BarRows, ErrandKinds, ErrandStages, ErrandAnswers, TokenOrNone,
     WalletOrNone
<1>3. Shape(NoErrand)
  BY <1>1 DEF Shape
<1> QED
  BY <1>1, <1>2, <1>3

LEMMA NoErrandFits == CallInv(NoErrand)
  BY NoErrandIs DEF CallInv, TokenOf, AnswerOf, Tells

LEMMA InitTokenInv == CookiesInit => TokenInv
<1> SUFFICES ASSUME CookiesInit PROVE TokenInv
  OBVIOUS
<1>1. /\ jar = [token |-> 0, reader |-> 0] /\ holder = [t \in Tokens |-> NoWallet] /\ stale = {}
      /\ bar = [w \in Wallets |-> [how |-> "no", nr |-> 0]]
      /\ gateCache = [known |-> FALSE, fresh |-> FALSE, on |-> FALSE]
      /\ errand = [c \in Errands |-> NoErrand] /\ readers = 0
      /\ dropped = {} /\ told = {} /\ excused = {}
  BY DEF CookiesInit
<1>2. CallsInv
  BY <1>1, NoErrandFits DEF CallsInv
<1>3. GaveInv
  BY <1>1, NoErrandIs DEF GaveInv
<1>4. JarInv
  BY <1>1, NoErrandIs DEF JarInv
<1>5. ServerInv
  <2>1. [how |-> "no", nr |-> 0] \in BarRows
    BY DEF BarRows
  <2> QED
    BY <1>1, <2>1 DEF ServerInv, TokensAreKept, CookiesInit
<1> QED
  BY <1>2, <1>3, <1>4, <1>5 DEF TokenInv

-----------------------------------------------------------------------------
\* What a step may do that leaves a call as it is.

\* Tokens stay with their wallets, what is excused, stale or shut stays so, and a block that
\* changed is not the block a call brought.
GoesOn ==
    /\ \A t \in Tokens : holder[t] # NoWallet => holder'[t] = holder[t]
    /\ excused \subseteq excused' /\ stale \subseteq stale' /\ (shut => shut')
    /\ \A w \in Wallets : \/ bar'[w] = bar[w]
                          \/ bar'[w].how = "no" /\ bar'[w].nr = bar[w].nr
                          \/ bar'[w].nr = bar[w].nr + 1
    /\ jar'.token \in excused' \cup {0, jar.token}

LEMMA CallStays ==
  ASSUME NEW e, CallInv(e), GoesOn, bar \in [Wallets -> BarRows]
  PROVE  CallInv(e)'
<1>1. e.token \in Tokens \cup {0} /\ e.bar \in BarRows
  BY BarErrandFields DEF CallInv, TokenOrNone
<1>2. TokenOf(e)'
  BY <1>1 DEF CallInv, TokenOf, GoesOn
<1>3. AnswerOf(e)'
  <2>1. CASE e.of \in Wallets
    <3>1. bar[e.of].nr \in Nat /\ e.bar.nr \in Nat
      BY <1>1, <2>1 DEF BarRows
    <3>2. \/ bar'[e.of] = bar[e.of]
          \/ bar'[e.of].how = "no" /\ bar'[e.of].nr = bar[e.of].nr
          \/ bar'[e.of].nr = bar[e.of].nr + 1
      BY <2>1 DEF GoesOn
    <3>3. bar'[e.of].nr \in Nat /\ bar[e.of].nr <= bar'[e.of].nr
      BY <3>1, <3>2
    <3>4. bar'[e.of] = e.bar /\ Tells(e) => bar[e.of] = e.bar
      <4>1. Tells(e) => e.kind \in {"page", "users"} /\ e.bar.how # "no"
        BY DEF Tells
      <4>2. e.kind \in {"page", "users"} => e.bar.nr <= bar[e.of].nr
        BY DEF CallInv, AnswerOf
      <4> QED
        BY <3>1, <3>2, <4>1, <4>2
    <3>5. e.bar.nr <= bar[e.of].nr => e.bar.nr <= bar'[e.of].nr
      BY <3>1, <3>3
    <3>6. bar[e.of].nr > 0 => bar'[e.of].nr > 0
      BY <3>1, <3>3
    <3> QED
      BY <3>4, <3>5, <3>6 DEF CallInv, AnswerOf, GoesOn
  <2>2. CASE e.of \notin Wallets
    <3>1. e.kind \notin {"users", "verify", "page"}
      BY <2>2 DEF CallInv, AnswerOf
    <3>2. ~Tells(e) /\ e.answer \notin {"cleared", "barred", "refused"}
      BY <3>1 DEF CallInv, Shape, Tells
    <3> QED
      BY <3>1, <3>2 DEF AnswerOf
  <2> QED
    BY <2>1, <2>2
<1> QED
  BY <1>2, <1>3 DEF CallInv

\* One call moves.
LEMMA CallMoves ==
  ASSUME TokenInv, NEW c \in Errands, NEW f, errand' = [errand EXCEPT ![c] = f], CallInv(f)', GoesOn
  PROVE  CallsInv' /\ errand'[c] = f /\ \A d \in Errands \ {c} : errand'[d] = errand[d]
<1>1. /\ errand'[c] = f /\ DOMAIN errand' = Errands
      /\ \A d \in Errands \ {c} : errand'[d] = errand[d]
  BY DEF TokenInv, CallsInv
<1>2. ASSUME NEW d \in Errands \ {c} PROVE CallInv(errand[d])'
  <2>1. PICK e : e = errand[d]
    OBVIOUS
  <2>2. errand'[d] = e /\ CallInv(e)
    BY <1>1, <2>1 DEF TokenInv, CallsInv
  <2>3. CallInv(e)'
    BY <2>2, CallStays DEF TokenInv, ServerInv
  <2> QED
    BY <2>2, <2>3
<1>3. CallInv(errand[c])'
  BY <1>1
<1> QED
  BY <1>1, <1>2, <1>3 DEF CallsInv

\* No call moves.
LEMMA CallsRest ==
  ASSUME TokenInv, errand' = errand, GoesOn
  PROVE  CallsInv'
<1>1. ASSUME NEW d \in Errands PROVE CallInv(errand[d])'
  <2>1. PICK e : e = errand[d]
    OBVIOUS
  <2>2. errand'[d] = e /\ CallInv(e)
    BY <2>1 DEF TokenInv, CallsInv
  <2>3. CallInv(e)'
    BY <2>2, CallStays DEF TokenInv, ServerInv
  <2> QED
    BY <2>2, <2>3
<1> QED
  BY <1>1 DEF CallsInv, TokenInv

-----------------------------------------------------------------------------
\* A call is sent.

LEMMA TokenSentStep ==
  ASSUME TokenInv, NEW c \in Errands, NEW kind \in {"users", "verify", "logout", "page"},
         NEW of \in Wallets \cup {NoWallet}, NEW stage, Sends(c, kind, of, stage),
         UNCHANGED <<jar, holder, stale, bar, connect, gateCache, readers, dropped, told, shut>>,
         \/ kind = "logout" /\ of = NoWallet /\ stage = "answered"
         \/ kind \in {"users", "verify"} /\ of \in Wallets /\ stage = "asked"
         \/ kind = "page" /\ of = holder[jar.token] /\ jar.token # 0 /\ stage = "gate",
         excused \subseteq excused', excused' \subseteq Tokens,
         kind = "logout" => jar.token \in excused' \cup {0},
         kind \in {"users", "verify"} /\ jar.token # 0 /\ holder[jar.token] # of => jar.token \in excused'
  PROVE  TokenInv'
<1>1. PICK b : b = IF of = NoWallet THEN NoErrand.bar ELSE bar[of]
  OBVIOUS
<1>2. PICK f :
        f = [NoErrand EXCEPT !.kind = kind, !.stage = stage, !.of = of, !.token = jar.token, !.bar = b]
  OBVIOUS
<1>3. errand' = [errand EXCEPT ![c] = f]
  <2>1. [NoErrand EXCEPT !.kind = kind, !.stage = stage, !.of = of, !.token = jar.token,
                         !.bar = IF of = NoWallet THEN @ ELSE bar[of]] = f
    BY <1>1, <1>2
  <2>2. errand' = [errand EXCEPT ![c] =
          [NoErrand EXCEPT !.kind = kind, !.stage = stage, !.of = of, !.token = jar.token,
                           !.bar = IF of = NoWallet THEN @ ELSE bar[of]]]
    BY DEF Sends, Becomes
  <2> QED
    BY <2>1, <2>2
<1>4. b \in BarRows /\ (of \in Wallets => b = bar[of])
  BY <1>1, NoErrandIs, CookieAssumption DEF TokenInv, ServerInv
<1>5. /\ f \in ErrandRows /\ f.kind = kind /\ f.stage = stage /\ f.answer = "none" /\ f.token = jar.token
      /\ f.of = of /\ f.reader = 0 /\ f.gave = 0 /\ f.bar = b
  <2>1. kind \in ErrandKinds /\ stage \in ErrandStages
    BY DEF ErrandKinds, ErrandStages
  <2>2. of \in WalletOrNone /\ jar.token \in TokenOrNone
    BY DEF WalletOrNone, TokenOrNone, TokenInv, JarInv
  <2>3. PICK none, t : none = NoErrand /\ t = jar.token
    OBVIOUS
  <2>4. none \in ErrandRows /\ t \in TokenOrNone
    BY <2>2, <2>3, NoErrandIs
  <2>5. f = [none EXCEPT !.kind = kind, !.stage = stage, !.of = of, !.token = t, !.bar = b]
    BY <1>2, <2>3
  <2>6. /\ f \in ErrandRows /\ f.kind = kind /\ f.stage = stage /\ f.of = of /\ f.token = t
        /\ f.bar = b /\ f.answer = none.answer /\ f.reader = none.reader /\ f.gave = none.gave
    BY <1>4, <2>1, <2>2, <2>4, <2>5 DEF ErrandRows
  <2> QED
    BY <2>3, <2>6, NoErrandIs
<1>6. jar.token \in Tokens \cup {0} /\ (jar.token # 0 => holder[jar.token] # NoWallet)
  BY DEF TokenInv, JarInv
<1>7. kind = "page" => of \in Wallets
  BY <1>6 DEF TokenInv, ServerInv
<1>8. CallInv(f)'
  <2>1. f \in ErrandRows
    BY <1>5
  <2>2. Shape(f)
    BY <1>5 DEF Shape
  <2>3. TokenOf(f)'
    BY <1>5, <1>6 DEF TokenOf
  <2>4. AnswerOf(f)'
    <3>1. CASE of \in Wallets
      <4>1. b.nr \in Nat
        BY <1>4 DEF BarRows
      <4> QED
        BY <1>4, <1>5, <3>1, <4>1 DEF AnswerOf, Tells
    <3>2. CASE of \notin Wallets
      BY <1>5, <1>7, <3>2 DEF AnswerOf, Tells
    <3> QED
      BY <3>1, <3>2
  <2> QED
    BY <2>1, <2>2, <2>3, <2>4 DEF CallInv
<1>9. GoesOn
  BY DEF GoesOn
<1>10. CallsInv' /\ errand'[c] = f /\ \A d \in Errands \ {c} : errand'[d] = errand[d]
  BY <1>3, <1>8, <1>9, CallMoves
<1>11. GaveInv'
  <2>1. \A d \in Errands : errand'[d].gave # 0 => d # c /\ errand'[d] = errand[d]
    BY <1>5, <1>10
  <2>2. \A d \in Errands : errand'[d].token # errand[d].token => d = c /\ errand'[d].token = jar.token
    BY <1>5, <1>10
  <2> QED
    BY <1>5, <1>10, <2>1, <2>2 DEF TokenInv, GaveInv
<1>12. JarInv'
  BY <1>5, <1>10 DEF TokenInv, JarInv
<1>13. ServerInv'
  BY DEF TokenInv, ServerInv, TokensAreKept
<1> QED
  BY <1>10, <1>11, <1>12, <1>13 DEF TokenInv

LEMMA TokenAsksStep ==
  ASSUME TokenInv, NEW c \in Errands, AskUsers(c) \/ AskVerify(c) \/ AskLogout(c) \/ AskPage(c)
  PROVE  TokenInv'
<1>1. jar.token \in Tokens \cup {0} /\ excused \subseteq Tokens /\ (jar.token # 0 => holder[jar.token] \in Wallets)
  BY DEF TokenInv, JarInv, ServerInv
<1>2. ASSUME NEW kind \in {"users", "verify"}, AskFor(c, kind) PROVE TokenInv'
  <2>1. PICK w \in Wallets :
          /\ Sends(c, kind, w, "asked")
          /\ excused' = excused \cup {t \in Tokens : jar.token = t /\ holder[t] # w}
    BY <1>2 DEF AskFor
  <2>2. UNCHANGED <<jar, holder, stale, bar, connect, gateCache, readers, dropped, told, shut>>
    BY <1>2 DEF AskFor, OtherCookies
  <2>3. /\ excused \subseteq excused' /\ excused' \subseteq Tokens
        /\ jar.token # 0 /\ holder[jar.token] # w => jar.token \in excused'
    BY <1>1, <2>1
  <2> QED
    BY <1>2, <2>1, <2>2, <2>3, TokenSentStep
<1>3. CASE AskLogout(c)
  <2>1. /\ Sends(c, "logout", NoWallet, "answered") /\ excused' = excused \cup ({jar.token} \ {0})
        /\ UNCHANGED <<jar, holder, stale, bar, connect, gateCache, readers, dropped, told, shut>>
    BY <1>3 DEF AskLogout, OtherCookies
  <2>2. excused \subseteq excused' /\ excused' \subseteq Tokens /\ jar.token \in excused' \cup {0}
    BY <1>1, <2>1
  <2> QED
    BY <2>1, <2>2, TokenSentStep
<1>4. CASE AskPage(c)
  <2>1. /\ Sends(c, "page", holder[jar.token], "gate") /\ jar.token # 0 /\ excused' = excused
        /\ UNCHANGED <<jar, holder, stale, bar, connect, gateCache, readers, dropped, told, shut>>
    BY <1>4 DEF AskPage, OtherCookies, cookieHistory
  <2> QED
    BY <1>1, <2>1, TokenSentStep
<1> QED
  BY <1>2, <1>3, <1>4 DEF AskUsers, AskVerify

LEMMA TokenNewsStep == ASSUME TokenInv, NEW c \in Errands, AskNews(c) PROVE TokenInv'
<1>1. PICK r : r = IF Brought(jar) = 0 THEN readers + 1 ELSE Brought(jar)
  OBVIOUS
<1>2. PICK f : f = [NoErrand EXCEPT !.kind = "news", !.stage = "asked", !.reader = r]
  OBVIOUS
<1>3. errand' = [errand EXCEPT ![c] = f] /\ readers' = IF Brought(jar) = 0 THEN readers + 1 ELSE readers
  BY <1>1, <1>2 DEF AskNews, Becomes
<1>4. UNCHANGED <<jar, holder, stale, bar, connect, gateCache, dropped, told, excused, shut>>
  BY DEF AskNews, OtherCookies
<1>5. r \in Nat /\ readers' \in Nat /\ readers <= readers' /\ r <= readers'
  BY <1>1, <1>3 DEF TokenInv, JarInv, Brought
<1>9. /\ f \in ErrandRows /\ f.kind = "news" /\ f.stage = "asked" /\ f.answer = "none" /\ f.token = 0
      /\ f.of = NoWallet /\ f.gave = 0 /\ f.reader = r
  <2>1. "news" \in ErrandKinds /\ "asked" \in ErrandStages
    BY DEF ErrandKinds, ErrandStages
  <2>2. PICK none, k, z : none = NoErrand /\ k = "news" /\ z = "asked"
    OBVIOUS
  <2>3. none \in ErrandRows /\ k \in ErrandKinds /\ z \in ErrandStages
    BY <2>1, <2>2, NoErrandIs
  <2>4. f = [none EXCEPT !.kind = k, !.stage = z, !.reader = r]
    BY <1>2, <2>2
  <2>5. /\ f \in ErrandRows /\ f.kind = k /\ f.stage = z /\ f.of = none.of /\ f.token = none.token
        /\ f.bar = none.bar /\ f.answer = none.answer /\ f.reader = r /\ f.gave = none.gave
    BY <1>5, <2>3, <2>4 DEF ErrandRows
  <2> QED
    BY <2>2, <2>5, NoErrandIs
<1>6. CallInv(f)'
  BY <1>9 DEF CallInv, Shape, TokenOf, AnswerOf, Tells
<1>7. GoesOn
  BY <1>4 DEF GoesOn
<1>8. CallsInv' /\ errand'[c] = f /\ \A d \in Errands \ {c} : errand'[d] = errand[d]
  BY <1>3, <1>6, <1>7, CallMoves
<1>10. GaveInv'
  <2>1. \A d \in Errands : errand'[d].gave # 0 => d # c /\ errand'[d] = errand[d]
    BY <1>8, <1>9
  <2>2. \A d \in Errands : errand'[d].token # errand[d].token => d = c /\ errand'[d].token = 0
    BY <1>8, <1>9
  <2> QED
    BY <1>4, <1>8, <2>1, <2>2 DEF TokenInv, GaveInv
<1>11. JarInv'
  <2>1. \A d \in Errands : errand'[d].reader <= readers'
    <3> TAKE d \in Errands
    <3>1. CASE d = c
      BY <1>5, <1>8, <1>9, <3>1
    <3>2. CASE d # c
      <4>1. errand[d].reader <= readers /\ errand[d].reader \in Nat /\ readers \in Nat
        BY DEF TokenInv, JarInv, CallsInv, CallInv, ErrandRows
      <4> QED
        BY <1>5, <1>8, <3>2, <4>1
    <3> QED
      BY <3>1, <3>2
  <2> QED
    BY <1>4, <1>5, <2>1 DEF TokenInv, JarInv
<1>12. ServerInv'
  BY <1>4 DEF TokenInv, ServerInv, TokensAreKept
<1> QED
  BY <1>8, <1>10, <1>11, <1>12 DEF TokenInv

-----------------------------------------------------------------------------
\* A call is answered, or goes on to be.

\* It keeps what it brought and gives no token.
LEMMA TokenGoesStep ==
  ASSUME TokenInv, NEW c \in Errands, NEW e, e = errand[c], NEW f \in ErrandRows,
         errand' = [errand EXCEPT ![c] = f], Shape(f), AnswerOf(f)',
         f.token = e.token, f.kind = e.kind, f.of = e.of, f.gave = e.gave, f.reader = e.reader,
         UNCHANGED <<jar, holder, stale, bar, connect, readers, dropped, told, excused>>, shut => shut',
         gateCache'.on \in BOOLEAN, gateCache'.fresh /\ ~gateCache'.on => shut'
  PROVE  TokenInv'
<1>1. CallInv(e)
  BY DEF TokenInv, CallsInv
<1>2. GoesOn
  BY DEF GoesOn
<1>3. CallInv(f)'
  <2>1. TokenOf(f)'
    BY <1>1 DEF CallInv, TokenOf
  <2> QED
    BY <2>1 DEF CallInv
<1>4. CallsInv' /\ errand'[c] = f /\ \A d \in Errands \ {c} : errand'[d] = errand[d]
  BY <1>2, <1>3, CallMoves
<1>5. \A d \in Errands : /\ errand'[d].gave = errand[d].gave /\ errand'[d].token = errand[d].token
                         /\ errand'[d].reader = errand[d].reader
  BY <1>4
<1>6. GaveInv'
  BY <1>5 DEF TokenInv, GaveInv
<1>7. JarInv'
  BY <1>5 DEF TokenInv, JarInv
<1>8. ServerInv'
  BY DEF TokenInv, ServerInv, TokensAreKept
<1> QED
  BY <1>4, <1>6, <1>7, <1>8 DEF TokenInv

LEMMA AnsweredStep ==
  ASSUME TokenInv, NEW c \in Errands, NEW e, e = errand[c], NEW a \in ErrandAnswers, Answers(c, a),
         UNCHANGED <<jar, holder, stale, bar, connect, readers, dropped, told, excused>>, shut => shut',
         gateCache'.on \in BOOLEAN, gateCache'.fresh /\ ~gateCache'.on => shut',
         e.kind \notin {"none", "logout"}, e.kind = "news" => a \in {"ok", "failed"},
         a = "cleared" => e.kind = "page" /\ (shut' \/ e.token \in stale \cup {0}),
         a = "barred" => e.kind # "news" /\ bar[e.of].nr > 0,
         a = "refused" => e.kind = "users" /\ e.token \in stale \cup excused \cup {0},
         bar[e.of] = e.bar =>
           /\ e.kind = "page" /\ e.bar.how # "no" => a \in {"cleared", "barred", "unchecked"}
           /\ e.kind = "users" /\ e.bar.how = "worded" => a \in {"barred", "refused", "failed"}
  PROVE  TokenInv'
<1>1. CallInv(e)
  BY DEF TokenInv, CallsInv
<1>2. PICK f : f = [e EXCEPT !.stage = "answered", !.answer = a]
  OBVIOUS
<1>3. /\ f \in ErrandRows /\ f.stage = "answered" /\ f.answer = a /\ f.bar = e.bar
      /\ f.token = e.token /\ f.kind = e.kind /\ f.of = e.of /\ f.gave = e.gave /\ f.reader = e.reader
  <2>1. PICK z : z = "answered"
    OBVIOUS
  <2>2. z \in ErrandStages /\ e \in ErrandRows
    BY <1>1, <2>1 DEF ErrandStages, CallInv
  <2>3. f = [e EXCEPT !.stage = z, !.answer = a]
    BY <1>2, <2>1
  <2>4. /\ f \in ErrandRows /\ f.stage = z /\ f.answer = a /\ f.bar = e.bar
        /\ f.token = e.token /\ f.kind = e.kind /\ f.of = e.of /\ f.gave = e.gave /\ f.reader = e.reader
    BY <2>2, <2>3 DEF ErrandRows
  <2> QED
    BY <2>1, <2>4
<1>4. errand' = [errand EXCEPT ![c] = f]
  BY <1>2 DEF Answers, Becomes
<1>5. Shape(f)
  <2>1. e.kind \in {"users", "verify", "page", "news"}
    BY <1>1, BarErrandFields DEF CallInv, ErrandKinds
  <2> QED
    BY <1>1, <1>3, <2>1 DEF CallInv, Shape
<1>6. AnswerOf(f)'
  BY <1>1, <1>3 DEF CallInv, AnswerOf, Tells, Clears
<1> QED
  BY <1>3, <1>4, <1>5, <1>6, TokenGoesStep

LEMMA BlockOf ==
  ASSUME TokenInv, NEW w \in Wallets
  PROVE  /\ bar[w] \in BarRows /\ bar[w].how \in {"no", "worded", "silent"}
         /\ bar[w].how # "no" => bar[w].nr > 0
         /\ BarAnswer(w) \in {"ok", "barred", "silent"}
         /\ BarAnswer(w) = "barred" <=> bar[w].how = "worded"
         /\ BarAnswer(w) = "ok" <=> bar[w].how = "no"
<1>1. bar[w] \in BarRows /\ bar[w].how \in {"no", "worded", "silent"} /\ (bar[w].how # "no" => bar[w].nr > 0)
  BY DEF TokenInv, ServerInv, BarRows
<1> QED
  BY <1>1 DEF BarAnswer

LEMMA UsersAnswered == ASSUME TokenInv, NEW c \in Errands, AnswerUsers(c) PROVE TokenInv'
<1>1. PICK e : e = errand[c]
  OBVIOUS
<1>2. CallInv(e) /\ e.kind = "users"
  BY <1>1 DEF AnswerUsers, TokenInv, CallsInv
<1>3. e.of \in Wallets
  BY <1>2 DEF CallInv, AnswerOf
<1>4. PICK a : a = IF Valid(e.token) /\ holder[e.token] = e.of THEN BarAnswer(e.of) ELSE "refused"
  OBVIOUS
<1>5. /\ Answers(c, a) /\ UNCHANGED <<jar, holder, stale, bar, connect, readers, dropped, told, excused, shut, gateCache>>
  BY <1>1, <1>4 DEF AnswerUsers, OtherCookies, cookieHistory
<1>6. a \in ErrandAnswers
  BY <1>3, <1>4, BlockOf DEF ErrandAnswers
<1>7. a = "refused" => e.token \in stale \cup excused \cup {0}
  <2>1. a = "refused" => ~(Valid(e.token) /\ holder[e.token] = e.of)
    BY <1>3, <1>4, BlockOf
  <2> QED
    BY <1>2, <2>1 DEF Valid, CallInv, TokenOf
<1>8. a # "refused" => a = BarAnswer(e.of)
  BY <1>4
<1>9. a = "barred" => bar[e.of].nr > 0
  BY <1>3, <1>8, BlockOf
<1>10. bar[e.of].how = "worded" => a \in {"barred", "refused"}
  BY <1>3, <1>8, BlockOf
<1>11. a # "cleared"
  BY <1>3, <1>4, BlockOf
<1> QED
  BY <1>1, <1>2, <1>5, <1>6, <1>7, <1>9, <1>10, <1>11, AnsweredStep DEF TokenInv, ServerInv

LEMMA OthersAnswered ==
  ASSUME TokenInv, NEW c \in Errands, AnswerNews(c) \/ AskedInVain(c) PROVE TokenInv'
<1>1. PICK e : e = errand[c]
  OBVIOUS
<1>2. CallInv(e) /\ e.stage = "asked"
  BY <1>1 DEF AnswerNews, AskedInVain, InStage, TokenInv, CallsInv
<1>3. e.kind \in {"users", "verify", "news"}
  BY <1>2, BarErrandFields DEF CallInv, Shape, ErrandKinds
<1>4. PICK a \in {"ok", "failed"} : Answers(c, a) /\ (a = "ok" => e.kind = "news")
  BY <1>1 DEF AnswerNews, AskedInVain
<1>5. UNCHANGED <<jar, holder, stale, bar, connect, readers, dropped, told, excused, shut, gateCache>>
  BY DEF AnswerNews, AskedInVain, OtherCookies
<1>6. a \in ErrandAnswers
  BY DEF ErrandAnswers
<1> QED
  BY <1>1, <1>3, <1>4, <1>5, <1>6, AnsweredStep DEF TokenInv, ServerInv

\* The middleware asks whether connecting is on, and has the answer.
LEMMA GatedStep ==
  ASSUME TokenInv, NEW c \in Errands, NEW on \in BOOLEAN, errand[c].stage \in {"gate", "fetching"}, Gated(c, on),
         UNCHANGED <<jar, holder, stale, bar, connect, readers, dropped, told, excused>>, shut => shut',
         gateCache'.on \in BOOLEAN, gateCache'.fresh /\ ~gateCache'.on => shut', ~on => shut'
  PROVE  TokenInv'
<1>1. PICK e : e = errand[c]
  OBVIOUS
<1>2. CallInv(e) /\ e.stage \in {"gate", "fetching"}
  BY <1>1 DEF TokenInv, CallsInv
<1>3. e.kind = "page" /\ e.answer = "none"
  BY <1>2, BarErrandFields DEF CallInv, Shape, ErrandKinds
<1>4. CASE ~(on /\ Valid(e.token))
  <2>1. Answers(c, "cleared")
    BY <1>1, <1>4 DEF Gated
  <2>2. PICK a : a = "cleared"
    OBVIOUS
  <2>3. a \in ErrandAnswers
    BY <2>2 DEF ErrandAnswers
  <2>4. shut' \/ e.token \in stale \cup {0}
    BY <1>4 DEF Valid
  <2> QED
    BY <1>1, <1>3, <2>1, <2>2, <2>3, <2>4, AnsweredStep
<1>5. CASE on /\ Valid(e.token)
  <2>1. PICK f, z, no : f = [e EXCEPT !.stage = z, !.fallback = no] /\ z = "access" /\ no = FALSE
    OBVIOUS
  <2>2. errand' = [errand EXCEPT ![c] = f]
    BY <1>1, <1>5, <2>1 DEF Gated, Becomes
  <2>3. z \in ErrandStages /\ no \in BOOLEAN /\ e \in ErrandRows
    BY <1>2, <2>1 DEF ErrandStages, CallInv
  <2>4. f = [e EXCEPT !.stage = z, !.fallback = no]
    BY <2>1
  <2>5. /\ f \in ErrandRows /\ f.stage = z /\ f.answer = e.answer /\ f.bar = e.bar
        /\ f.token = e.token /\ f.kind = e.kind /\ f.of = e.of /\ f.gave = e.gave /\ f.reader = e.reader
    BY <2>3, <2>4 DEF ErrandRows
  <2>6. Shape(f)
    BY <1>2, <1>3, <2>1, <2>5 DEF Shape, CallInv
  <2>7. AnswerOf(f)'
    BY <1>2, <1>3, <2>1, <2>5 DEF AnswerOf, CallInv
  <2> QED
    BY <1>1, <2>2, <2>5, <2>6, <2>7, TokenGoesStep
<1> QED
  BY <1>4, <1>5

LEMMA AskGateStep == ASSUME TokenInv, NEW c \in Errands, AskGate(c) PROVE TokenInv'
<1>1. UNCHANGED <<jar, holder, stale, bar, connect, readers, dropped, told, excused, shut, gateCache>>
  BY DEF AskGate, OtherCookies, cookieHistory
<1>2. gateCache.on \in BOOLEAN /\ (gateCache.fresh /\ ~gateCache.on => shut)
  BY DEF TokenInv, ServerInv
<1>3. CASE gateCache.fresh
  <2>1. Gated(c, gateCache.on) /\ errand[c].stage = "gate"
    BY <1>3 DEF AskGate, InStage
  <2>2. PICK on \in BOOLEAN : on <=> gateCache.on
    BY <1>2
  <2>3. Gated(c, on)
    BY <2>1, <2>2 DEF Gated
  <2> QED
    BY <1>1, <1>2, <1>3, <2>1, <2>2, <2>3, GatedStep
<1>4. CASE ~gateCache.fresh
  <2>1. PICK e : e = errand[c]
    OBVIOUS
  <2>2. CallInv(e) /\ e.stage = "gate"
    BY <2>1 DEF TokenInv, CallsInv, AskGate, InStage
  <2>3. e.kind = "page" /\ e.answer = "none"
    BY <2>2, BarErrandFields DEF CallInv, Shape, ErrandKinds
  <2>4. PICK f, z, b : f = [e EXCEPT !.stage = z, !.fallback = b] /\ z = "fetching"
                       /\ b = (gateCache.known /\ gateCache.on)
    OBVIOUS
  <2>5. errand' = [errand EXCEPT ![c] = f]
    BY <1>4, <2>1, <2>4 DEF AskGate, Becomes
  <2>6. z \in ErrandStages /\ b \in BOOLEAN /\ e \in ErrandRows
    BY <2>2, <2>4 DEF ErrandStages, CallInv
  <2>7. f = [e EXCEPT !.stage = z, !.fallback = b]
    BY <2>4
  <2>8. /\ f \in ErrandRows /\ f.stage = z /\ f.answer = e.answer /\ f.bar = e.bar
        /\ f.token = e.token /\ f.kind = e.kind /\ f.of = e.of /\ f.gave = e.gave /\ f.reader = e.reader
    BY <2>6, <2>7 DEF ErrandRows
  <2>9. Shape(f)
    BY <2>2, <2>3, <2>4, <2>8 DEF Shape, CallInv
  <2>10. AnswerOf(f)'
    BY <1>1, <2>2, <2>3, <2>4, <2>8 DEF AnswerOf, CallInv
  <2> QED
    BY <1>1, <1>2, <2>1, <2>5, <2>8, <2>9, <2>10, TokenGoesStep
<1> QED
  BY <1>3, <1>4

LEMMA GateFetchedStep == ASSUME TokenInv, NEW c \in Errands, GateFetched(c) PROVE TokenInv'
<1>1. PICK on \in Fetched(connect, errand[c].fallback) :
        /\ gateCache' = [known |-> TRUE, fresh |-> TRUE, on |-> on]
        /\ shut' = (shut \/ ~on) /\ Gated(c, on)
  BY DEF GateFetched
<1>2. UNCHANGED <<jar, holder, stale, bar, connect, readers, dropped, told, excused>> /\ errand[c].stage = "fetching"
  BY DEF GateFetched, InStage
<1>3. connect \in BOOLEAN /\ errand[c].fallback \in BOOLEAN
  <2>1. errand[c].fallback \in BOOLEAN
    BY BarErrandFields DEF TokenInv, CallsInv, CallInv
  <2>2. connect \in BOOLEAN
    BY DEF TokenInv, ServerInv
  <2> QED
    BY <2>1, <2>2
<1>4. on \in BOOLEAN
  BY <1>1, <1>3 DEF Fetched
<1>5. gateCache'.on = on
  BY <1>1
<1> QED
  BY <1>1, <1>2, <1>4, <1>5, GatedStep

LEMMA CheckAccessStep == ASSUME TokenInv, NEW c \in Errands, CheckAccess(c) PROVE TokenInv'
<1>1. PICK e : e = errand[c]
  OBVIOUS
<1>2. CallInv(e) /\ e.stage = "access"
  BY <1>1 DEF TokenInv, CallsInv, CheckAccess, InStage
<1>3. e.kind = "page"
  BY <1>2, BarErrandFields DEF CallInv, Shape, ErrandKinds
<1>4. e.of \in Wallets
  BY <1>2, <1>3 DEF CallInv, AnswerOf
<1>5. PICK a : a \in {WalletAccess(e.of), "unchecked"} /\ Answers(c, a)
  BY <1>1 DEF CheckAccess, Fetched
<1>6. /\ a \in {"ok", "barred", "unchecked"} /\ (a = "barred" => bar[e.of].how # "no")
      /\ (bar[e.of].how # "no" => a # "ok")
  BY <1>5 DEF WalletAccess
<1>7. a \in ErrandAnswers
  BY <1>6 DEF ErrandAnswers
<1>8. a = "barred" => bar[e.of].nr > 0
  BY <1>4, <1>6, BlockOf
<1>9. UNCHANGED <<jar, holder, stale, bar, connect, readers, dropped, told, excused, shut, gateCache>>
  BY DEF CheckAccess, OtherCookies, cookieHistory
<1> QED
  BY <1>1, <1>3, <1>5, <1>6, <1>7, <1>8, <1>9, AnsweredStep DEF TokenInv, ServerInv

-----------------------------------------------------------------------------
\* A wallet signs in: the token given was never in the jar.

LEMMA VerifyAnswered == ASSUME TokenInv, NEW c \in Errands, AnswerVerify(c) PROVE TokenInv'
<1>1. PICK e : e = errand[c]
  OBVIOUS
<1>2. CallInv(e) /\ e.kind = "verify" /\ e.stage = "asked"
  BY <1>1 DEF AnswerVerify, InStage, TokenInv, CallsInv
<1>3. e.of \in Wallets
  BY <1>2 DEF CallInv, AnswerOf
<1>4. UNCHANGED <<jar, stale, bar, connect, gateCache, readers, dropped, told, excused, shut>>
  BY DEF AnswerVerify, cookieHistory
<1>5. CASE BarAnswer(e.of) # "ok"
  <2>1. PICK a : a = BarAnswer(e.of)
    OBVIOUS
  <2>2. Answers(c, a) /\ holder' = holder
    BY <1>1, <1>5, <2>1 DEF AnswerVerify
  <2>3. a \in {"barred", "silent"} /\ (a = "barred" => bar[e.of].nr > 0)
    BY <1>3, <1>5, <2>1, BlockOf
  <2>4. a \in ErrandAnswers
    BY <2>3 DEF ErrandAnswers
  <2> QED
    BY <1>1, <1>2, <1>4, <2>2, <2>3, <2>4, AnsweredStep DEF TokenInv, ServerInv
<1>6. CASE BarAnswer(e.of) = "ok"
  <2>1. PICK t \in Tokens :
          /\ holder[t] = NoWallet /\ holder' = [holder EXCEPT ![t] = e.of]
          /\ errand' = [errand EXCEPT ![c] = [e EXCEPT !.stage = "answered", !.answer = "ok", !.gave = t]]
    BY <1>1, <1>6 DEF AnswerVerify, Becomes
  <2>2. PICK f, z, a : f = [e EXCEPT !.stage = z, !.answer = a, !.gave = t] /\ z = "answered" /\ a = "ok"
    OBVIOUS
  <2>3. z \in ErrandStages /\ a \in ErrandAnswers /\ t \in TokenOrNone /\ e \in ErrandRows /\ t # 0
    BY <1>2, <2>2, CookieAssumption DEF ErrandStages, ErrandAnswers, TokenOrNone, Tokens, CallInv
  <2>4. f = [e EXCEPT !.stage = z, !.answer = a, !.gave = t]
    BY <2>2
  <2>5. /\ f \in ErrandRows /\ f.stage = z /\ f.answer = a /\ f.bar = e.bar
        /\ f.token = e.token /\ f.kind = e.kind /\ f.of = e.of /\ f.gave = t /\ f.reader = e.reader
    BY <2>3, <2>4 DEF ErrandRows
  <2>6. errand' = [errand EXCEPT ![c] = f]
    BY <2>1, <2>2
  <2>7. /\ holder' \in [Tokens -> Wallets \cup {NoWallet}] /\ holder'[t] = e.of
        /\ \A u \in Tokens \ {t} : holder'[u] = holder[u]
    BY <1>3, <2>1 DEF TokenInv, ServerInv
  <2>8. GoesOn
    BY <1>4, <2>1, <2>7 DEF GoesOn
  <2>9. e.of # NoWallet
    BY <1>3, CookieAssumption
  <2>10. CallInv(f)'
    <3>1. Shape(f)
      BY <1>2, <2>2, <2>5 DEF CallInv, Shape
    <3>2. e.token \in Tokens \cup {0} /\ (e.token # 0 => e.token # t)
      BY <1>2, <2>1, BarErrandFields DEF CallInv, TokenOf, TokenOrNone
    <3>3. TokenOf(f)'
      BY <1>2, <1>4, <2>5, <2>7, <3>2 DEF CallInv, TokenOf
    <3>4. AnswerOf(f)'
      BY <1>2, <1>4, <2>2, <2>5 DEF CallInv, AnswerOf, Tells
    <3> QED
      BY <2>5, <3>1, <3>3, <3>4 DEF CallInv
  <2>11. CallsInv' /\ errand'[c] = f /\ \A d \in Errands \ {c} : errand'[d] = errand[d]
    BY <2>6, <2>8, <2>10, CallMoves
  <2>12. \A d \in Errands : errand'[d].token = errand[d].token /\ errand'[d].reader = errand[d].reader
    BY <1>1, <2>5, <2>11
  <2>13. \A d \in Errands : /\ errand[d].token # t /\ errand[d].gave # t
                            /\ errand[d].token \in TokenOrNone /\ errand[d].gave \in TokenOrNone
    <3> TAKE d \in Errands
    <3>1. errand[d].token \in TokenOrNone /\ errand[d].gave \in TokenOrNone
      BY BarErrandFields DEF TokenInv, CallsInv, CallInv
    <3>2. errand[d].token # 0 => holder[errand[d].token] # NoWallet
      BY DEF TokenInv, CallsInv, CallInv, TokenOf
    <3>3. errand[d].gave # 0 => holder[errand[d].gave] # NoWallet
      BY DEF TokenInv, GaveInv
    <3> QED
      BY <2>1, <2>3, <3>1, <3>2, <3>3
  <2>14. t # jar.token /\ t \notin told /\ t \notin dropped
    BY <2>1, <2>3 DEF TokenInv, JarInv, ServerInv
  <2>15. GaveInv'
    <3>1. \A d \in Errands : errand'[d].gave = IF d = c THEN t ELSE errand[d].gave
      BY <2>5, <2>11
    <3>2. \A d \in Errands : errand[d].gave # 0 => holder'[errand[d].gave] # NoWallet
      BY <2>7, <2>13 DEF TokenInv, GaveInv, TokenOrNone
    <3>3. \A d \in Errands : errand'[d].gave # 0 =>
            /\ holder'[errand'[d].gave] # NoWallet /\ errand'[d].gave \notin told
            /\ errand'[d].gave # jar.token
      BY <2>7, <2>9, <2>14, <3>1, <3>2 DEF TokenInv, GaveInv
    <3>4. \A d, b \in Errands : errand'[d].gave # 0 => errand'[b].token # errand'[d].gave
      BY <2>12, <2>13, <3>1 DEF TokenInv, GaveInv
    <3>5. \A d, b \in Errands : errand'[d].gave # 0 /\ errand'[b].gave = errand'[d].gave => d = b
      BY <2>13, <3>1 DEF TokenInv, GaveInv
    <3> QED
      BY <1>4, <3>3, <3>4, <3>5 DEF GaveInv
  <2>16. JarInv'
    BY <1>4, <2>7, <2>12, <2>14 DEF TokenInv, JarInv
  <2>17. ServerInv'
    <3>1. \A u \in told : u # t
      BY <2>14
    <3>2. \A u \in dropped : u # t
      BY <2>14
    <3>3. \A u \in Tokens \ {t} : holder'[u] = holder[u]
      BY <2>7
    <3>4. (\A u \in told : holder'[u] # NoWallet) /\ (\A u \in dropped : holder'[u] # NoWallet)
      BY <3>1, <3>2, <3>3 DEF TokenInv, ServerInv
    <3>5. TokensAreKept'
      BY <1>4, <3>2, <3>3 DEF TokenInv, ServerInv, TokensAreKept
    <3> QED
      BY <1>4, <2>7, <3>4, <3>5 DEF TokenInv, ServerInv
  <2> QED
    BY <2>11, <2>15, <2>16, <2>17 DEF TokenInv
<1> QED
  BY <1>5, <1>6

-----------------------------------------------------------------------------
\* The answer arrives, or does not.

LEMMA NeverArrivesStep == ASSUME TokenInv, NEW c \in Errands, NeverArrives(c) PROVE TokenInv'
<1>1. /\ errand' = [errand EXCEPT ![c] = NoErrand]
      /\ UNCHANGED <<jar, holder, stale, bar, connect, gateCache, readers, dropped, told, excused, shut>>
  BY DEF NeverArrives, Becomes, OtherCookies
<1>2. PICK f : f = NoErrand
  OBVIOUS
<1>3. CallInv(f)' /\ f.token = 0 /\ f.gave = 0 /\ f.reader = 0
  BY <1>2, NoErrandIs DEF CallInv, TokenOf, AnswerOf, Tells
<1>4. GoesOn
  BY <1>1 DEF GoesOn
<1>5. CallsInv' /\ errand'[c] = f /\ \A d \in Errands \ {c} : errand'[d] = errand[d]
  BY <1>1, <1>2, <1>3, <1>4, CallMoves
<1>6. GaveInv'
  <2>1. \A d \in Errands : errand'[d].gave # 0 => d # c /\ errand'[d] = errand[d]
    BY <1>3, <1>5
  <2>2. \A d \in Errands : errand'[d].token # errand[d].token => d = c /\ errand'[d].token = 0
    BY <1>3, <1>5
  <2> QED
    BY <1>1, <1>5, <2>1, <2>2 DEF TokenInv, GaveInv
<1>7. JarInv'
  BY <1>1, <1>3, <1>5 DEF TokenInv, JarInv
<1>8. ServerInv'
  BY <1>1 DEF TokenInv, ServerInv, TokensAreKept
<1> QED
  BY <1>5, <1>6, <1>7, <1>8 DEF TokenInv

LEMMA AnswerArrivesStep == ASSUME TokenInv, NEW c \in Errands, AnswerArrives(c) PROVE TokenInv'
<1>1. PICK e : e = errand[c]
  OBVIOUS
<1>2. CallInv(e) /\ e.stage = "answered"
  BY <1>1 DEF AnswerArrives, InStage, TokenInv, CallsInv
<1>3. /\ jar' = Applied(e)
      /\ dropped' = dropped \cup {t \in Tokens \ stale : t = jar.token /\ jar'.token = 0}
      /\ told' = told \cup ToldOf(e)
      /\ excused' = excused \cup {t \in Tokens : t = e.gave /\ OnTheWay # {c}}
      /\ errand' = [errand EXCEPT ![c] = NoErrand]
  BY <1>1 DEF AnswerArrives, Becomes
<1>4. UNCHANGED <<holder, stale, bar, connect, gateCache, readers, shut>>
  BY DEF AnswerArrives
<1>5. /\ jar'.token = (IF Clears(e) THEN 0 ELSE IF e.gave # 0 THEN e.gave ELSE jar.token)
      /\ jar'.reader = (IF e.kind = "news" /\ e.answer = "ok" THEN e.reader ELSE jar.reader)
      /\ jar' = [token |-> jar'.token, reader |-> jar'.reader]
  BY <1>3 DEF Applied
<1>6. /\ e.token \in TokenOrNone /\ e.gave \in TokenOrNone /\ e.kind \in ErrandKinds /\ e.reader \in Nat
      /\ e.answer \in ErrandAnswers
  BY <1>2, BarErrandFields DEF CallInv
<1>7. e.gave # 0 => /\ e.gave \in Tokens /\ holder[e.gave] # NoWallet /\ e.gave \notin told
                    /\ \A d \in Errands : errand[d].token # e.gave
                    /\ \A d \in Errands \ {c} : errand[d].gave # e.gave
  BY <1>1, <1>6 DEF TokenInv, GaveInv, TokenOrNone
\* A block answered under is told, and the token goes.
<1>8. ToldOf(e) # {} => jar'.token = 0
  <2> SUFFICES ASSUME NEW t \in ToldOf(e) PROVE Clears(e)
    BY <1>5
  <2>1. Tells(e) /\ bar[e.of] = e.bar
    BY DEF ToldOf, Tells
  <2> QED
    BY <1>2, <2>1 DEF CallInv, AnswerOf
<1>9. ToldOf(e) \subseteq Tokens /\ \A t \in ToldOf(e) : holder[t] # NoWallet
  <2>1. \A t \in ToldOf(e) : t \in Tokens /\ t = e.token
    BY DEF ToldOf
  <2>2. \A t \in Tokens : t # 0
    BY CookieAssumption DEF Tokens
  <2> QED
    BY <1>2, <2>1, <2>2 DEF CallInv, TokenOf
<1>10. 0 \notin Tokens
  BY CookieAssumption DEF Tokens
\* Another call that is under way, or none.
<1>11. \A d \in Errands \ {c} : errand[d].kind # "none" => OnTheWay # {c}
  BY DEF OnTheWay
<1>12. PICK f : f = NoErrand
  OBVIOUS
<1>13. /\ f \in ErrandRows /\ Shape(f) /\ f.kind = "none" /\ f.token = 0 /\ f.gave = 0 /\ f.reader = 0
       /\ f.answer = "none" /\ f.stage = "none" /\ f.bar.how = "no"
  BY <1>12, NoErrandIs
<1>14. /\ errand'[c] = f /\ DOMAIN errand' = Errands
       /\ \A d \in Errands \ {c} : errand'[d] = errand[d]
  BY <1>3, <1>12 DEF TokenInv, CallsInv
<1>15. CallsInv'
  <2>1. CallInv(f)'
    BY <1>13 DEF CallInv, TokenOf, AnswerOf, Tells
  <2>2. ASSUME NEW d \in Errands \ {c} PROVE CallInv(errand[d])'
    <3>1. PICK x : x = errand[d]
      OBVIOUS
    <3>2. CallInv(x) /\ errand'[d] = x
      BY <1>14, <3>1 DEF TokenInv, CallsInv
    <3>3. CASE x.kind = "none"
      <4>1. x.answer \notin {"cleared", "barred", "refused"} /\ ~Tells(x)
        BY <3>2, <3>3 DEF CallInv, Shape, Tells
      <4> QED
        BY <1>4, <3>2, <3>3, <4>1 DEF CallInv, TokenOf, AnswerOf
    <3>4. CASE x.kind # "none"
      <4>1. OnTheWay # {c}
        BY <1>11, <3>1, <3>4
      <4>2. jar'.token \in excused' \cup {0, jar.token}
        BY <1>3, <1>5, <1>7, <4>1
      <4>3. GoesOn
        BY <1>3, <1>4, <4>2 DEF GoesOn
      <4> QED
        BY <3>2, <4>3, CallStays DEF TokenInv, ServerInv
    <3> QED
      BY <3>3, <3>4
  <2> QED
    BY <1>14, <2>1, <2>2 DEF CallsInv
<1>16. GaveInv'
  <2>1. \A d \in Errands : errand'[d].gave # 0 => d # c /\ errand'[d] = errand[d]
    BY <1>13, <1>14
  <2>2. \A d \in Errands : errand'[d].token # errand[d].token => d = c /\ errand'[d].token = 0
    BY <1>13, <1>14
  <2>3. \A d \in Errands \ {c} : errand[d].gave # 0 => errand[d].gave \notin ToldOf(e) /\ errand[d].gave # jar'.token
    <3> TAKE d \in Errands \ {c}
    <3>1. errand[d].gave # 0 => errand[d].gave # jar.token /\ errand[d].gave # e.token /\ errand[d].gave # e.gave
      BY <1>1 DEF TokenInv, GaveInv
    <3> QED
      BY <1>5, <3>1 DEF ToldOf
  <2> QED
    BY <1>3, <1>4, <2>1, <2>2, <2>3 DEF TokenInv, GaveInv
<1>17. JarInv'
  <2>1. jar'.token \in Tokens \cup {0} /\ (jar'.token # 0 => holder[jar'.token] # NoWallet)
    BY <1>5, <1>7 DEF TokenInv, JarInv
  <2>2. jar'.token \notin told'
    <3>1. jar'.token = 0 => jar'.token \notin told'
      BY <1>3, <1>9, <1>10 DEF TokenInv, ServerInv
    <3>2. jar'.token # 0 => jar'.token \notin told /\ ToldOf(e) = {}
      BY <1>5, <1>7, <1>8 DEF TokenInv, JarInv
    <3> QED
      BY <1>3, <3>1, <3>2
  <2>3. jar'.reader \in Nat /\ jar'.reader <= readers
    BY <1>1, <1>5, <1>6 DEF TokenInv, JarInv
  <2>4. \A d \in Errands : errand'[d].reader <= readers
    BY <1>13, <1>14 DEF TokenInv, JarInv
  <2> QED
    BY <1>4, <1>5, <2>1, <2>2, <2>3, <2>4 DEF TokenInv, JarInv
<1>18. ServerInv'
  <2>1. told' \subseteq Tokens /\ \A t \in told' : holder[t] # NoWallet
    BY <1>3, <1>9 DEF TokenInv, ServerInv
  <2>2. dropped' \subseteq Tokens /\ \A t \in dropped' : holder[t] # NoWallet
    BY <1>3, <1>10 DEF TokenInv, ServerInv, JarInv
  <2>3. excused \subseteq excused' /\ excused' \subseteq Tokens
    BY <1>3 DEF TokenInv, ServerInv
  <2>4. ASSUME NEW t \in dropped', t \notin excused' PROVE shut \/ bar[holder[t]].nr > 0
    <3>1. CASE t \in dropped
      BY <2>3, <2>4, <3>1 DEF TokenInv, ServerInv, TokensAreKept
    <3>2. CASE t \notin dropped
      <4>1. t \in Tokens /\ t \notin stale /\ t = jar.token /\ jar'.token = 0 /\ t # 0
        BY <1>3, <1>10, <2>4, <3>2
      <4>2. Clears(e)
        BY <1>5, <4>1
      <4>3. e.kind \notin {"none", "news"}
        BY <1>2, <4>2 DEF CallInv, Shape, Clears
      <4>4. t = e.token
        BY <1>2, <2>3, <2>4, <4>1, <4>3 DEF CallInv, TokenOf
      <4>5. CASE e.answer = "cleared"
        BY <1>2, <4>1, <4>4, <4>5 DEF CallInv, AnswerOf
      <4>6. CASE e.answer = "refused"
        BY <1>2, <2>3, <2>4, <4>1, <4>4, <4>6 DEF CallInv, AnswerOf
      <4>7. CASE e.answer = "barred"
        <5>1. e.kind \in {"users", "verify", "page"}
          BY <1>2, <4>7 DEF CallInv, Shape
        <5>2. holder[t] = e.of
          BY <1>2, <2>3, <2>4, <4>1, <4>4, <5>1 DEF CallInv, TokenOf
        <5> QED
          BY <1>2, <4>7, <5>2 DEF CallInv, AnswerOf
      <4>8. CASE e.kind = "logout"
        BY <1>2, <2>3, <2>4, <4>1, <4>4, <4>8 DEF CallInv, TokenOf
      <4> QED
        BY <4>2, <4>5, <4>6, <4>7, <4>8 DEF Clears
    <3> QED
      BY <3>1, <3>2
  <2>5. TokensAreKept'
    BY <1>4, <2>4 DEF TokensAreKept
  <2> QED
    BY <1>4, <2>1, <2>2, <2>3, <2>5 DEF TokenInv, ServerInv
<1> QED
  BY <1>15, <1>16, <1>17, <1>18 DEF TokenInv

-----------------------------------------------------------------------------
\* Meanwhile.

LEMMA TimeStep ==
  ASSUME TokenInv, GateExpires \/ TokenGoesStale \/ SwitchConnect PROVE TokenInv'
<1>1. UNCHANGED <<jar, holder, bar, errand, readers, dropped, told, excused>>
  BY DEF GateExpires, TokenGoesStale, SwitchConnect, cookieHistory
<1>2. stale \subseteq stale' /\ stale' \subseteq Tokens /\ (shut => shut')
  BY DEF GateExpires, TokenGoesStale, SwitchConnect, cookieHistory, TokenInv, ServerInv
<1>3. /\ connect' \in BOOLEAN /\ gateCache'.on \in BOOLEAN
      /\ gateCache'.fresh /\ ~gateCache'.on => shut'
  <2>1. connect \in BOOLEAN /\ gateCache.on \in BOOLEAN /\ (gateCache.fresh /\ ~gateCache.on => shut)
    BY DEF TokenInv, ServerInv
  <2>2. CASE GateExpires
    <3>1. gateCache' = [gateCache EXCEPT !.fresh = FALSE] /\ connect' = connect
      BY <2>2 DEF GateExpires
    <3>2. gateCache'.on = gateCache.on \/ gateCache'.on \in BOOLEAN
      BY <3>1
    <3>3. gateCache'.fresh = FALSE \/ gateCache' = gateCache
      BY <3>1
    <3> QED
      BY <2>1, <2>2, <3>1, <3>2, <3>3 DEF GateExpires, cookieHistory
  <2>3. CASE TokenGoesStale
    BY <2>1, <2>3 DEF TokenGoesStale, cookieHistory
  <2>4. CASE SwitchConnect
    BY <2>1, <2>4 DEF SwitchConnect
  <2> QED
    BY <2>2, <2>3, <2>4
<1>4. GoesOn
  BY <1>1, <1>2 DEF GoesOn
<1>5. CallsInv'
  BY <1>1, <1>4, CallsRest
<1>6. GaveInv' /\ JarInv'
  BY <1>1 DEF TokenInv, GaveInv, JarInv
<1>7. ServerInv'
  BY <1>1, <1>2, <1>3 DEF TokenInv, ServerInv, TokensAreKept
<1> QED
  BY <1>5, <1>6, <1>7 DEF TokenInv

LEMMA BarStep == ASSUME TokenInv, NEW w \in Wallets, BarOrUnbar(w) PROVE TokenInv'
<1>1. /\ UNCHANGED <<jar, holder, stale, connect, gateCache, errand, readers, dropped, excused, shut>>
      /\ told' \subseteq told
  BY DEF BarOrUnbar
<1>2. bar[w].nr \in Nat /\ bar[w].how \in {"no", "worded", "silent"}
  BY BlockOf DEF BarRows
<1>3. PICK b \in BarRows :
        /\ bar' = [bar EXCEPT ![w] = b]
        /\ \/ b.how = "no" /\ b.nr = bar[w].nr
           \/ b.how # "no" /\ b.nr = bar[w].nr + 1
  <2>1. CASE bar[w].how = "no"
    <3>1. PICK how \in {"worded", "silent"} : bar' = [bar EXCEPT ![w] = [how |-> how, nr |-> @.nr + 1]]
      BY <2>1 DEF BarOrUnbar
    <3>2. PICK b : b = [how |-> how, nr |-> bar[w].nr + 1]
      OBVIOUS
    <3>3. b \in BarRows /\ b.how # "no" /\ b.nr = bar[w].nr + 1
      BY <1>2, <3>2 DEF BarRows
    <3> QED
      BY <3>1, <3>2, <3>3
  <2>2. CASE bar[w].how # "no"
    <3>1. bar' = [bar EXCEPT ![w].how = "no"]
      BY <2>2 DEF BarOrUnbar
    <3>2. PICK b : b = [how |-> "no", nr |-> bar[w].nr]
      OBVIOUS
    <3>3. b \in BarRows /\ b.how = "no" /\ b.nr = bar[w].nr
      BY <1>2, <3>2 DEF BarRows
    <3>4. [bar[w] EXCEPT !.how = "no"] = b
      <4>1. bar[w] \in BarRows
        BY BlockOf
      <4> QED
        BY <3>2, <4>1 DEF BarRows
    <3> QED
      BY <3>1, <3>3, <3>4
  <2> QED
    BY <2>1, <2>2
<1>4. bar' \in [Wallets -> BarRows] /\ bar'[w] = b /\ \A x \in Wallets \ {w} : bar'[x] = bar[x]
  BY <1>3 DEF TokenInv, ServerInv
<1>5. \A x \in Wallets : bar'[x].how # "no" => bar'[x].nr > 0
  <2>1. b.how # "no" => b.nr > 0
    BY <1>2, <1>3
  <2> QED
    BY <1>4, <2>1 DEF TokenInv, ServerInv
<1>6. GoesOn
  BY <1>1, <1>3, <1>4 DEF GoesOn
<1>7. CallsInv'
  BY <1>1, <1>6, CallsRest
<1>8. GaveInv' /\ JarInv'
  BY <1>1 DEF TokenInv, GaveInv, JarInv
<1>9. TokensAreKept'
  <2> SUFFICES ASSUME NEW t \in dropped, t \notin excused, ~shut PROVE bar'[holder[t]].nr > 0
    BY <1>1 DEF TokensAreKept
  <2>1. bar[holder[t]].nr > 0 /\ holder[t] \in Wallets
    BY DEF TokenInv, ServerInv, TokensAreKept
  <2>2. CASE holder[t] = w
    BY <1>2, <1>3, <1>4, <2>1, <2>2
  <2>3. CASE holder[t] # w
    BY <1>4, <2>1, <2>3
  <2> QED
    BY <2>2, <2>3
<1>10. ServerInv'
  BY <1>1, <1>4, <1>5, <1>9 DEF TokenInv, ServerInv
<1> QED
  BY <1>7, <1>8, <1>10 DEF TokenInv

LEMMA TokenStep == TokenInv /\ [CookiesNext]_cookieVars => TokenInv'
<1>1. ASSUME TokenInv, UNCHANGED cookieVars PROVE TokenInv'
  <2>1. UNCHANGED <<jar, holder, stale, bar, connect, gateCache, errand, readers, dropped, told, excused, shut>>
    BY <1>1 DEF cookieVars
  <2>2. GoesOn
    BY <2>1 DEF GoesOn
  <2>3. CallsInv'
    BY <1>1, <2>1, <2>2, CallsRest
  <2>4. GaveInv' /\ JarInv' /\ ServerInv'
    BY <1>1, <2>1 DEF TokenInv, GaveInv, JarInv, ServerInv, TokensAreKept
  <2> QED
    BY <2>3, <2>4 DEF TokenInv
<1>2. ASSUME TokenInv, NEW c \in Errands,
             AskUsers(c) \/ AskVerify(c) \/ AskLogout(c) \/ AskPage(c) \/ AskNews(c)
      PROVE  TokenInv'
  BY <1>2, TokenAsksStep, TokenNewsStep
<1>3. ASSUME TokenInv, NEW c \in Errands,
             AnswerUsers(c) \/ AnswerVerify(c) \/ AnswerNews(c) \/ AskedInVain(c)
      PROVE  TokenInv'
  BY <1>3, UsersAnswered, VerifyAnswered, OthersAnswered
<1>4. ASSUME TokenInv, NEW c \in Errands,
             AskGate(c) \/ GateFetched(c) \/ CheckAccess(c) \/ AnswerArrives(c) \/ NeverArrives(c)
      PROVE  TokenInv'
  BY <1>4, AskGateStep, GateFetchedStep, CheckAccessStep, AnswerArrivesStep, NeverArrivesStep
<1>5. ASSUME TokenInv, NEW w \in Wallets, BarOrUnbar(w) PROVE TokenInv'
  BY <1>5, BarStep
<1>6. ASSUME TokenInv, GateExpires \/ TokenGoesStale \/ SwitchConnect PROVE TokenInv'
  BY <1>6, TimeStep
<1> QED
  BY <1>1, <1>2, <1>3, <1>4, <1>5, <1>6 DEF CookiesNext

LEMMA TokenInvariance == CookiesInit /\ [][CookiesNext]_cookieVars => []TokenInv
  BY InitTokenInv, TokenStep, PTL

LEMMA TokenInvKeeps == TokenInv => CookiesTypeOK /\ TokensAreKept /\ BarredIsOut
<1> SUFFICES ASSUME TokenInv PROVE CookiesTypeOK /\ TokensAreKept /\ BarredIsOut
  OBVIOUS
<1>1. jar \in [token : Tokens \cup {0}, reader : 0 .. readers]
  <2>1. jar.token \in Tokens \cup {0} /\ jar.reader \in 0 .. readers
    BY DEF TokenInv, JarInv
  <2>2. jar = [token |-> jar.token, reader |-> jar.reader]
    BY DEF TokenInv, JarInv
  <2> QED
    BY <2>1, <2>2
<1>2. \A c \in Errands :
        errand[c].stage \in {"none", "asked", "gate", "fetching", "access", "answered"}
  BY BarErrandFields DEF TokenInv, CallsInv, CallInv, ErrandStages
<1>3. CookiesTypeOK
  BY <1>1, <1>2 DEF CookiesTypeOK, TokenInv, JarInv, ServerInv
<1> QED
  BY <1>3 DEF TokenInv, ServerInv, JarInv, BarredIsOut

-----------------------------------------------------------------------------
(* The activity feed.                                                        *)

Descends(s) == \A i, j \in DOMAIN s : i < j => s[i] > s[j]
FeedRows == 1 .. MaxActivities
Loads == [mode : {"none", "initial", "poll", "more"}, filter : Filters, cursor : FeedRows \cup {0},
          state : {"asked", "answered", "failed"}, items : Seq(FeedRows), next : FeedRows \cup {0}]

FeedTyped ==
    /\ timed \in 0 .. MaxActivities /\ storedRows \subseteq 1 .. timed /\ filter \in Filters
    /\ moreShown \in BOOLEAN /\ tangled \in BOOLEAN
PageTyped ==
    /\ listed \in Seq(FeedRows) /\ itemsRef \in Seq(FeedRows)
    /\ ToSet(listed) \subseteq storedRows /\ ToSet(itemsRef) \subseteq storedRows
    /\ cursorRef \in storedRows \cup {0}
    /\ IsInjective(listed) /\ IsInjective(itemsRef)
\* A row that was asked for is in the answer, or behind its cursor; or it came later.
Covered(q, r) ==
    r \in ToSet(q.items) \/ r < q.next \/ (q.cursor = 0 /\ \A s \in ToSet(q.items) : r > s)
\* An answer is a page of the rows there were, in their order, and its cursor its last row.
LoadFits(q) ==
    /\ q \in Loads /\ Descends(q.items) /\ ToSet(q.items) \subseteq storedRows
    /\ q.cursor \in storedRows \cup {0} /\ q.next \in storedRows \cup {0}
    /\ q.mode \in {"initial", "poll"} => q.cursor = 0
    /\ q.mode = "more" => q.cursor # 0
    /\ \A r \in ToSet(q.items) : /\ Matches(r, q.filter) /\ (q.cursor = 0 \/ r < q.cursor)
                                 /\ q.next <= r
    /\ q.next # 0 => q.next \in ToSet(q.items)
    /\ q.state = "answered" /\ ~tangled =>
         \A r \in storedRows : Matches(r, q.filter) /\ (q.cursor = 0 \/ r < q.cursor) => Covered(q, r)
LoadsFit == DOMAIN loading = Fetches /\ \A f \in Fetches : LoadFits(loading[f])
\* The page while nothing is tangled: as FeedIsWhole says, and its cursor is its last row.
PageStands ==
    /\ Descends(listed)
    /\ \A r \in ToSet(listed) : Matches(r, filter) /\ cursorRef <= r
    /\ cursorRef # 0 => cursorRef \in ToSet(listed)
    /\ listed # <<>> => \A r \in storedRows :
         Matches(r, filter) => r \in ToSet(listed) \/ r > listed[1] \/ r < cursorRef
PageInv == ~tangled => listed = itemsRef /\ (Underway("initial") = {} => PageStands)
FeedInv == FeedTyped /\ PageTyped /\ LoadsFit /\ PageInv
-----------------------------------------------------------------------------
\* Numbers in increasing order.

Ascends(s) == \A i, j \in DOMAIN s : i < j => s[i] < s[j]

LEMMA LeastOf ==
  ASSUME NEW S \in SUBSET Nat, S # {}
  PROVE  \E m \in S : \A x \in S : m <= x
<1>1. PICK s \in S : TRUE
  OBVIOUS
<1>4. PICK m \in S : \A y \in S : ~(<<y, m>> \in OpToRel(<, Nat))
  <2>1. PICK R : R = OpToRel(<, Nat)
    OBVIOUS
  <2>2. IsWellFoundedOn(R, Nat)
    BY <2>1, NatLessThanWellFounded
  <2> QED
    BY <1>1, <2>1, <2>2, WFMin
<1>5. \A x \in S : m <= x
  <2> SUFFICES ASSUME NEW x \in S, x < m PROVE FALSE
    OBVIOUS
  <2> QED
    BY <1>4 DEF OpToRel
<1> QED
  BY <1>5

\* A finite set of numbers has such an order.
LEMMA OrderExists ==
  ASSUME NEW S \in SUBSET Nat, IsFiniteSet(S)
  PROVE  \E s \in [1 .. Cardinality(S) -> S] : Ascends(s)
<1>1. PICK G : G = {T \in SUBSET S : \E s \in [1 .. Cardinality(T) -> T] : Ascends(s)}
  OBVIOUS
<1>2. ASSUME NEW T \in SUBSET S, \A U \in SUBSET T : U # T => U \in G
      PROVE  T \in G
  <2>1. IsFiniteSet(T) /\ T \in SUBSET Nat
    BY <1>2, FS_Subset
  <2>2. CASE T = {}
    <3>1. Cardinality(T) = 0
      BY <2>2, FS_EmptySet
    <3>2. PICK e : e = [i \in 1 .. 0 |-> 0]
      OBVIOUS
    <3>3. e \in [1 .. 0 -> T] /\ Ascends(e)
      BY <3>2 DEF Ascends
    <3> QED
      BY <1>1, <3>1, <3>3
  <2>3. CASE T # {}
    <3>1. PICK m \in T : \A x \in T : m <= x
      BY <2>1, <2>3, LeastOf
    <3>2. PICK U : U = T \ {m}
      OBVIOUS
    <3>3. PICK n : n = Cardinality(U)
      OBVIOUS
    <3>4. IsFiniteSet(U) /\ n \in Nat /\ Cardinality(T) = n + 1
      <4>1. /\ Cardinality(U) = Cardinality(T) - 1 /\ IsFiniteSet(U)
        BY <2>1, <3>1, <3>2, FS_RemoveElement
      <4>2. Cardinality(T) \in Nat /\ Cardinality(U) \in Nat
        BY <2>1, <4>1, FS_CardinalityType
      <4> QED
        BY <3>3, <4>1, <4>2
    <3>5. U \in G
      BY <1>2, <3>1, <3>2
    <3>6. PICK e \in [1 .. n -> U] : Ascends(e)
      BY <1>1, <3>3, <3>5
    <3>7. PICK h : h = [i \in 1 .. n + 1 |-> IF i = 1 THEN m ELSE e[i - 1]]
      OBVIOUS
    <3>8. \A i \in 1 .. n + 1 : i # 1 => i - 1 \in 1 .. n /\ h[i] = e[i - 1] /\ h[i] \in U
      BY <3>4, <3>6, <3>7
    <3>9. h[1] = m /\ DOMAIN h = 1 .. n + 1
      BY <3>4, <3>7
    <3>10. h \in [1 .. n + 1 -> T]
      BY <3>1, <3>2, <3>7, <3>8, <3>9
    <3>11. ASSUME NEW i \in 1 .. n + 1, NEW j \in 1 .. n + 1, i < j
           PROVE  h[i] < h[j]
      <4>1. j # 1 /\ h[j] \in U /\ h[j] = e[j - 1] /\ j - 1 \in 1 .. n
        BY <3>4, <3>8, <3>11
      <4>2. CASE i = 1
        <5>1. h[j] \in T /\ h[j] # m /\ h[j] \in Nat /\ m \in Nat
          BY <2>1, <3>1, <3>2, <4>1
        <5> QED
          BY <3>1, <3>9, <4>2, <5>1
      <4>3. CASE i # 1
        <5>1. h[i] = e[i - 1] /\ i - 1 \in 1 .. n
          BY <3>8, <4>3
        <5>2. i - 1 < j - 1 /\ DOMAIN e = 1 .. n
          BY <3>4, <3>6, <3>11
        <5> QED
          BY <3>6, <4>1, <5>1, <5>2 DEF Ascends
      <4> QED
        BY <4>2, <4>3
    <3>12. Ascends(h)
      BY <3>9, <3>11 DEF Ascends
    <3> QED
      BY <1>1, <3>4, <3>10, <3>12
  <2> QED
    BY <2>2, <2>3
<1>3. SUBSET S \subseteq G
  BY <1>2, SubsetInduction
<1>4. S \in G
  BY <1>3
<1> QED
  BY <1>1, <1>4

\* And Ordered is one.
LEMMA OrderedIs ==
  ASSUME NEW S \in SUBSET Nat, IsFiniteSet(S), NEW n, n = Cardinality(S)
  PROVE  /\ n \in Nat /\ Ordered(S) \in [1 .. n -> S] /\ Ascends(Ordered(S))
         /\ \A x \in S : \E i \in 1 .. n : Ordered(S)[i] = x
<1>1. n \in Nat
  BY FS_CardinalityType
<1>2. Ordered(S) \in [1 .. n -> S] /\ Ascends(Ordered(S))
  BY OrderExists DEF Ordered, Ascends
<1>3. PICK s : s = Ordered(S)
  OBVIOUS
<1>4. s \in [1 .. n -> S] /\ Ascends(s)
  BY <1>2, <1>3
<1>5. \A i, j \in 1 .. n : s[i] = s[j] => i = j
  <2> SUFFICES ASSUME NEW i \in 1 .. n, NEW j \in 1 .. n, s[i] = s[j], i # j PROVE FALSE
    OBVIOUS
  <2>1. i < j \/ j < i
    BY <1>1
  <2>2. s[i] \in Nat /\ s[j] \in Nat /\ DOMAIN s = 1 .. n
    BY <1>4
  <2> QED
    BY <1>4, <2>1, <2>2 DEF Ascends
<1>6. s \in Injection(1 .. n, S)
  BY <1>4, <1>5 DEF Injection, IsInjective
<1>7. Cardinality(1 .. n) = n
  BY <1>1, FS_Interval
<1>8. s \in Surjection(1 .. n, S)
  BY <1>6, <1>7, FS_Injection
<1>9. \A x \in S : \E i \in 1 .. n : s[i] = x
  BY <1>8 DEF Surjection
<1> QED
  BY <1>1, <1>3, <1>4, <1>9

-----------------------------------------------------------------------------
\* Lists of rows.

LEMMA ListIs ==
  ASSUME NEW s \in Seq(FeedRows)
  PROVE  /\ Len(s) \in Nat /\ DOMAIN s = 1 .. Len(s) /\ ToSet(s) \subseteq FeedRows /\ FeedRows \subseteq Nat
         /\ \A i \in 1 .. Len(s) : s[i] \in ToSet(s)
         /\ \A x \in ToSet(s) : \E i \in 1 .. Len(s) : s[i] = x
<1>1. /\ Len(s) \in Nat /\ DOMAIN s = 1 .. Len(s) /\ \A i \in 1 .. Len(s) : s[i] \in FeedRows
  OBVIOUS
<1>2. FeedRows \subseteq Nat
  BY FeedAssumption DEF FeedRows
<1>3. ToSet(s) = {s[i] : i \in 1 .. Len(s)}
  BY <1>1 DEF ToSet
<1> QED
  BY <1>1, <1>2, <1>3

LEMMA DescendsOnce ==
  ASSUME NEW s \in Seq(FeedRows), Descends(s)
  PROVE  IsInjective(s)
<1>1. /\ DOMAIN s = 1 .. Len(s) /\ Len(s) \in Nat
      /\ \A i \in 1 .. Len(s) : s[i] \in Nat
  BY ListIs
<1> SUFFICES ASSUME NEW i \in 1 .. Len(s), NEW j \in 1 .. Len(s), s[i] = s[j], i # j PROVE FALSE
  BY <1>1 DEF IsInjective
<1>2. i < j \/ j < i
  BY <1>1
<1> QED
  BY <1>1, <1>2 DEF Descends

\* The rows of a set, newest first.
LEMMA NewestFirst ==
  ASSUME NEW S \in SUBSET FeedRows, NEW rows, rows = Reverse(Ordered(S))
  PROVE  rows \in Seq(FeedRows) /\ Descends(rows) /\ ToSet(rows) = S
<1>1. IsFiniteSet(S) /\ S \in SUBSET Nat
  <2>1. IsFiniteSet(FeedRows) /\ FeedRows \subseteq Nat
    BY FS_Interval, FeedAssumption DEF FeedRows
  <2> QED
    BY <2>1, FS_Subset
<1>2. PICK n : n = Cardinality(S)
  OBVIOUS
<1>3. PICK s : s = Ordered(S)
  OBVIOUS
<1>4. n \in Nat /\ s \in [1 .. n -> S] /\ Ascends(s) /\ \A x \in S : \E i \in 1 .. n : s[i] = x
  BY <1>1, <1>2, <1>3, OrderedIs
<1>5. s \in Seq(S) /\ Len(s) = n
  BY <1>4
<1>6. rows = [i \in 1 .. n |-> s[(n - i) + 1]]
  BY <1>3, <1>5 DEF Reverse
<1>7. \A i \in 1 .. n : (n - i) + 1 \in 1 .. n /\ rows[i] = s[(n - i) + 1] /\ rows[i] \in S
  BY <1>4, <1>6
<1>8. rows \in [1 .. n -> S]
  BY <1>6, <1>7
<1>9. rows \in Seq(FeedRows) /\ Len(rows) = n /\ DOMAIN rows = 1 .. n
  BY <1>4, <1>8
<1>10. Descends(rows)
  <2> SUFFICES ASSUME NEW i \in 1 .. n, NEW j \in 1 .. n, i < j PROVE rows[i] > rows[j]
    BY <1>9 DEF Descends
  <2>1. (n - j) + 1 < (n - i) + 1 /\ DOMAIN s = 1 .. n
    BY <1>4
  <2>2. s[(n - j) + 1] < s[(n - i) + 1]
    BY <1>4, <1>7, <2>1 DEF Ascends
  <2> QED
    BY <1>1, <1>7, <2>2
<1>11. ASSUME NEW x \in S PROVE \E i \in 1 .. n : rows[i] = x
  <2>1. PICK j \in 1 .. n : s[j] = x
    BY <1>4
  <2>2. (n - j) + 1 \in 1 .. n /\ (n - ((n - j) + 1)) + 1 = j
    BY <1>4
  <2> QED
    BY <1>7, <2>1, <2>2
<1>12. ToSet(rows) = S
  BY <1>7, <1>9, <1>11 DEF ToSet
<1> QED
  BY <1>9, <1>10, <1>12

\* A list without the rows of another keeps its order.
LEMMA WithoutKeeps ==
  ASSUME NEW rows \in Seq(FeedRows), NEW seen \in Seq(FeedRows), NEW w, w = Without(rows, seen)
  PROVE  /\ w \in Seq(FeedRows) /\ ToSet(w) = ToSet(rows) \ ToSet(seen)
         /\ IsInjective(rows) => IsInjective(w)
         /\ Descends(rows) => Descends(w)
<1>1. PICK K : K = {i \in DOMAIN rows : rows[i] \notin ToSet(seen)}
  OBVIOUS
<1>2. /\ DOMAIN rows = 1 .. Len(rows) /\ Len(rows) \in Nat
      /\ \A i \in 1 .. Len(rows) : rows[i] \in FeedRows
  BY ListIs
<1>3. IsFiniteSet(K) /\ K \in SUBSET Nat
  <2>1. IsFiniteSet(1 .. Len(rows))
    BY <1>2, FS_Interval
  <2>2. K \subseteq 1 .. Len(rows)
    BY <1>1, <1>2
  <2>3. 1 .. Len(rows) \subseteq Nat
    BY <1>2
  <2> QED
    BY <2>1, <2>2, <2>3, FS_Subset
<1>4. PICK n : n = Cardinality(K)
  OBVIOUS
<1>5. PICK k : k = Ordered(K)
  OBVIOUS
<1>6. n \in Nat /\ k \in [1 .. n -> K] /\ Ascends(k) /\ \A x \in K : \E i \in 1 .. n : k[i] = x
  BY <1>3, <1>4, <1>5, OrderedIs
<1>7. w = [i \in 1 .. n |-> rows[k[i]]]
  BY <1>1, <1>5, <1>6 DEF Without
<1>8. \A i \in 1 .. n : k[i] \in 1 .. Len(rows) /\ w[i] = rows[k[i]] /\ w[i] \in FeedRows /\ w[i] \notin ToSet(seen)
  BY <1>1, <1>2, <1>6, <1>7
<1>9. w \in [1 .. n -> FeedRows]
  BY <1>7, <1>8
<1>10. w \in Seq(FeedRows) /\ Len(w) = n /\ DOMAIN w = 1 .. n
  BY <1>6, <1>9
<1>11. \A i, j \in 1 .. n : i < j => k[i] < k[j]
  BY <1>6 DEF Ascends
<1>12. Descends(rows) => Descends(w)
  BY <1>2, <1>8, <1>10, <1>11 DEF Descends
<1>13. ASSUME IsInjective(rows) PROVE IsInjective(w)
  <2> SUFFICES ASSUME NEW i \in 1 .. n, NEW j \in 1 .. n, w[i] = w[j], i # j PROVE FALSE
    BY <1>10 DEF IsInjective
  <2>1. k[i] = k[j]
    BY <1>2, <1>8, <1>13 DEF IsInjective
  <2>2. i < j \/ j < i
    BY <1>6
  <2>3. k[i] \in Nat /\ k[j] \in Nat
    BY <1>3, <1>6
  <2> QED
    BY <1>11, <2>1, <2>2, <2>3
<1>14. ASSUME NEW x \in ToSet(rows), x \notin ToSet(seen) PROVE \E i \in 1 .. n : w[i] = x
  <2>1. PICK p \in 1 .. Len(rows) : rows[p] = x
    BY <1>14, ListIs
  <2>2. p \in K
    BY <1>1, <1>2, <1>14, <2>1
  <2> QED
    BY <1>6, <1>8, <2>1, <2>2
<1>15. \A i \in 1 .. n : w[i] \in ToSet(rows) \ ToSet(seen)
  BY <1>2, <1>8 DEF ToSet
<1>16. ToSet(w) = ToSet(rows) \ ToSet(seen)
  <2>1. ToSet(w) = {w[i] : i \in 1 .. n}
    BY <1>10 DEF ToSet
  <2>2. PICK A : A = ToSet(rows)
    OBVIOUS
  <2>3. PICK B : B = ToSet(seen)
    OBVIOUS
  <2>4. {w[i] : i \in 1 .. n} = A \ B
    BY <1>14, <1>15, <2>2, <2>3
  <2> QED
    BY <2>1, <2>2, <2>3, <2>4
<1> QED
  BY <1>10, <1>12, <1>13, <1>16

\* One list behind another.
LEMMA JoinKeeps ==
  ASSUME NEW a \in Seq(FeedRows), NEW b \in Seq(FeedRows), NEW c, c = a \o b
  PROVE  /\ c \in Seq(FeedRows) /\ ToSet(c) = ToSet(a) \cup ToSet(b) /\ Len(c) = Len(a) + Len(b)
         /\ IsInjective(a) /\ IsInjective(b) /\ ToSet(a) \cap ToSet(b) = {} => IsInjective(c)
         /\ Descends(a) /\ Descends(b) /\ (\A x \in ToSet(a), y \in ToSet(b) : x > y) => Descends(c)
         /\ Len(a) # 0 => c # <<>> /\ c[1] = a[1]
<1>1. PICK m \in Nat : m = Len(a)
  OBVIOUS
<1>2. PICK n \in Nat : n = Len(b)
  OBVIOUS
<1>3. c \in Seq(FeedRows) /\ Len(c) = m + n /\ DOMAIN c = 1 .. m + n
  BY <1>1, <1>2
<1>4. \A i \in 1 .. m : i \in 1 .. m + n /\ c[i] = a[i] /\ a[i] \in ToSet(a)
  BY <1>1, <1>2, ListIs
<1>5. \A i \in 1 .. n : i + m \in 1 .. m + n /\ c[i + m] = b[i] /\ b[i] \in ToSet(b)
  BY <1>1, <1>2, ListIs
<1>6. \A i \in 1 .. m + n : i \in 1 .. m \/ i > m
  OBVIOUS
<1>14. \A i \in 1 .. m + n : i > m => i - m \in 1 .. n /\ c[i] = b[i - m] /\ c[i] \in ToSet(b)
  <2> SUFFICES ASSUME NEW i \in 1 .. m + n, i > m
               PROVE  i - m \in 1 .. n /\ c[i] = b[i - m] /\ c[i] \in ToSet(b)
    OBVIOUS
  <2>1. i - m \in 1 .. n /\ (i - m) + m = i
    OBVIOUS
  <2> QED
    BY <1>5, <2>1
<1>7. DOMAIN a = 1 .. m /\ DOMAIN b = 1 .. n
  BY <1>1, <1>2
<1>8. ToSet(c) \subseteq ToSet(a) \cup ToSet(b)
  <2> SUFFICES ASSUME NEW i \in 1 .. m + n PROVE c[i] \in ToSet(a) \cup ToSet(b)
    BY <1>3 DEF ToSet
  <2> QED
    BY <1>4, <1>6, <1>14
<1>9. ToSet(a) \subseteq ToSet(c)
  BY <1>3, <1>4, <1>7 DEF ToSet
<1>10. ToSet(b) \subseteq ToSet(c)
  BY <1>3, <1>5, <1>7 DEF ToSet
<1>11. ASSUME IsInjective(a), IsInjective(b), ToSet(a) \cap ToSet(b) = {} PROVE IsInjective(c)
  <2> SUFFICES ASSUME NEW i \in 1 .. m + n, NEW j \in 1 .. m + n, c[i] = c[j] PROVE i = j
    BY <1>3 DEF IsInjective
  <2>1. CASE i \in 1 .. m /\ j \in 1 .. m
    BY <1>4, <1>7, <1>11, <2>1 DEF IsInjective
  <2>2. CASE i > m /\ j > m
    <3>1. i - m \in 1 .. n /\ j - m \in 1 .. n /\ b[i - m] = b[j - m]
      BY <1>14, <2>2
    <3>2. i - m = j - m
      BY <1>7, <1>11, <3>1 DEF IsInjective
    <3> QED
      BY <3>2
  <2>3. CASE i \in 1 .. m /\ j > m
    BY <1>4, <1>11, <1>14, <2>3
  <2>4. CASE i > m /\ j \in 1 .. m
    BY <1>4, <1>11, <1>14, <2>4
  <2> QED
    BY <1>6, <2>1, <2>2, <2>3, <2>4
<1>12. ASSUME Descends(a), Descends(b), \A x \in ToSet(a), y \in ToSet(b) : x > y PROVE Descends(c)
  <2> SUFFICES ASSUME NEW i \in 1 .. m + n, NEW j \in 1 .. m + n, i < j PROVE c[i] > c[j]
    BY <1>3 DEF Descends
  <2>1. CASE i \in 1 .. m /\ j \in 1 .. m
    BY <1>4, <1>7, <1>12, <2>1 DEF Descends
  <2>2. CASE i > m
    <3>1. i - m \in 1 .. n /\ j - m \in 1 .. n /\ i - m < j - m
      BY <1>14, <2>2
    <3>2. b[i - m] > b[j - m]
      BY <1>7, <1>12, <3>1 DEF Descends
    <3>3. j > m
      BY <2>2
    <3>4. c[i] = b[i - m]
      BY <1>14, <2>2
    <3>5. c[j] = b[j - m]
      BY <1>14, <3>3
    <3> QED
      BY <3>2, <3>4, <3>5
  <2>3. CASE i \in 1 .. m /\ j > m
    <3>1. c[i] \in ToSet(a)
      BY <1>4, <2>3
    <3>2. c[j] \in ToSet(b)
      BY <1>14, <2>3
    <3> QED
      BY <1>12, <3>1, <3>2
  <2> QED
    BY <1>6, <2>1, <2>2, <2>3
<1>13. m # 0 => c # <<>> /\ c[1] = a[1]
  BY <1>3, <1>4
<1> QED
  BY <1>1, <1>2, <1>3, <1>8, <1>9, <1>10, <1>11, <1>12, <1>13

\* The first rows of a list.
LEMMA CutKeeps ==
  ASSUME NEW s \in Seq(FeedRows), NEW n \in Nat, n <= Len(s), NEW c, c = SubSeq(s, 1, n)
  PROVE  /\ c \in Seq(FeedRows) /\ Len(c) = n /\ \A i \in 1 .. n : c[i] = s[i]
         /\ ToSet(c) \subseteq ToSet(s)
         /\ Descends(s) => Descends(c)
         /\ IsInjective(s) => IsInjective(c)
<1>1. c \in Seq(FeedRows) /\ Len(c) = n /\ DOMAIN c = 1 .. n /\ \A i \in 1 .. n : c[i] = s[i] /\ i \in 1 .. Len(s)
  OBVIOUS
<1>2. DOMAIN s = 1 .. Len(s)
  OBVIOUS
<1>3. ToSet(c) \subseteq ToSet(s)
  BY <1>1, <1>2 DEF ToSet
<1>4. Descends(s) => Descends(c)
  BY <1>1, <1>2 DEF Descends
<1>5. IsInjective(s) => IsInjective(c)
  BY <1>1, <1>2 DEF IsInjective
<1> QED
  BY <1>1, <1>3, <1>4, <1>5

\* A list without repetitions has as many rows as its set.
LEMMA ListCounts ==
  ASSUME NEW s \in Seq(FeedRows), IsInjective(s)
  PROVE  IsFiniteSet(ToSet(s)) /\ Cardinality(ToSet(s)) = Len(s)
<1>1. DOMAIN s = 1 .. Len(s) /\ Len(s) \in Nat
  BY ListIs
<1>2. s \in Surjection(1 .. Len(s), ToSet(s))
  BY <1>1, ListIs DEF Surjection, ToSet
<1>3. s \in Injection(1 .. Len(s), ToSet(s))
  BY <1>1, <1>2 DEF Injection, Surjection
<1>4. IsFiniteSet(1 .. Len(s)) /\ Cardinality(1 .. Len(s)) = Len(s)
  BY <1>1, FS_Interval
<1> QED
  BY <1>2, <1>3, <1>4, FS_Surjection

-----------------------------------------------------------------------------
\* The requests.

LEMMA LoadFields ==
  ASSUME NEW q \in Loads
  PROVE  /\ q.mode \in {"none", "initial", "poll", "more"} /\ q.filter \in Filters /\ q.cursor \in FeedRows \cup {0}
         /\ q.state \in {"asked", "answered", "failed"} /\ q.items \in Seq(FeedRows) /\ q.next \in FeedRows \cup {0}
  BY DEF Loads

LEMMA NoLoadIs ==
  /\ NoLoad \in Loads /\ NoLoad.mode = "none" /\ NoLoad.filter = "ALL" /\ NoLoad.cursor = 0
  /\ NoLoad.state = "asked" /\ NoLoad.items = <<>> /\ NoLoad.next = 0
  BY DEF NoLoad, Loads, Filters

LEMMA NoRows == ToSet(<<>>) = {} /\ Descends(<<>>) /\ IsInjective(<<>>) /\ <<>> \in Seq(FeedRows)
  BY DEF ToSet, Descends, IsInjective

LEMMA LoadsAre ==
  ASSUME FeedInv, NEW f \in Fetches
  PROVE  /\ LoadFits(loading[f]) /\ loading[f] \in Loads
         /\ loading[f].items \in Seq(FeedRows) /\ loading[f].next \in Nat /\ loading[f].cursor \in Nat
         /\ loading[f].filter \in Filters
<1>1. PICK q : q = loading[f]
  OBVIOUS
<1>2. LoadFits(q) /\ q \in Loads
  BY <1>1 DEF FeedInv, LoadsFit, LoadFits
<1>3. q.items \in Seq(FeedRows) /\ q.next \in FeedRows \cup {0} /\ q.cursor \in FeedRows \cup {0} /\ q.filter \in Filters
  BY <1>2, LoadFields
<1>4. FeedRows \subseteq Nat
  BY FeedAssumption DEF FeedRows
<1>5. FeedRows \cup {0} \subseteq Nat
  BY <1>4
<1>6. q.next \in Nat /\ q.cursor \in Nat
  BY <1>3, <1>5
<1> QED
  BY <1>1, <1>2, <1>3, <1>6

\* A request not answered yet.
LEMMA AskedFits ==
  ASSUME storedRows' \subseteq FeedRows, NEW r \in Loads, r.cursor \in storedRows' \cup {0},
         r.mode \in {"initial", "poll"} => r.cursor = 0, r.mode = "more" => r.cursor # 0,
         r.state = "asked", r.items = <<>>, r.next = 0
  PROVE  LoadFits(r)'
<1>1. r.state # "answered"
  OBVIOUS
<1> QED
  BY <1>1, NoRows DEF LoadFits

LEMMA NothingFits == ASSUME storedRows' \subseteq FeedRows PROVE LoadFits(NoLoad)'
<1>1. NoLoad.state # "answered" /\ NoLoad.mode \notin {"initial", "poll", "more"}
  BY NoLoadIs
<1> QED
  BY <1>1, NoLoadIs, NoRows DEF LoadFits

LEMMA LoadStays ==
  ASSUME NEW q, LoadFits(q), storedRows' = storedRows, ~tangled' => ~tangled
  PROVE  LoadFits(q)'
  BY DEF LoadFits

LEMMA FetchMoves ==
  ASSUME FeedInv, NEW f \in Fetches, NEW r, loading' = [loading EXCEPT ![f] = r], LoadFits(r)',
         storedRows' = storedRows, ~tangled' => ~tangled
  PROVE  /\ LoadsFit' /\ loading'[f] = r
         /\ r.mode = "initial" => Underway("initial")' # {}
         /\ loading[f].mode # "initial" /\ Underway("initial")' = {} => Underway("initial") = {}
<1>1. DOMAIN loading' = Fetches /\ loading'[f] = r /\ \A g \in Fetches \ {f} : loading'[g] = loading[g]
  BY DEF FeedInv, LoadsFit
<1>2. ASSUME NEW g \in Fetches \ {f} PROVE LoadFits(loading[g])'
  <2>1. PICK q : q = loading[g]
    OBVIOUS
  <2>2. LoadFits(q) /\ loading'[g] = q
    BY <1>1, <2>1 DEF FeedInv, LoadsFit
  <2>3. LoadFits(q)'
    BY <2>2, LoadStays
  <2> QED
    BY <2>2, <2>3
<1>3. LoadFits(loading[f])'
  BY <1>1
<1>4. LoadsFit'
  BY <1>1, <1>2, <1>3 DEF LoadsFit
<1>5. r.mode = "initial" => Underway("initial")' # {}
  BY <1>1 DEF Underway
<1>6. loading[f].mode # "initial" /\ Underway("initial")' = {} => Underway("initial") = {}
  BY <1>1 DEF Underway
<1> QED
  BY <1>1, <1>4, <1>5, <1>6

LEMMA RowsAreRows == ASSUME FeedInv PROVE storedRows \subseteq FeedRows /\ FeedRows \subseteq Nat /\ 0 \notin FeedRows
  BY FeedAssumption DEF FeedInv, FeedTyped, FeedRows

\* The page is as it was.
LEMMA PageStays ==
  ASSUME FeedInv, UNCHANGED <<storedRows, filter, listed, itemsRef, cursorRef>>, ~tangled' => ~tangled,
         Underway("initial")' = {} => Underway("initial") = {}
  PROVE  PageTyped' /\ PageInv'
<1>1. PageTyped'
  BY DEF FeedInv, PageTyped
<1>2. PageStands => PageStands'
  BY DEF PageStands, Descends, Matches
<1> QED
  BY <1>1, <1>2 DEF FeedInv, PageInv

LEMMA InitFeedInv == FeedInit => FeedInv
<1> SUFFICES ASSUME FeedInit PROVE FeedInv
  OBVIOUS
<1>1. PICK f \in Fetches :
        loading = [g \in Fetches |-> IF g = f THEN [NoLoad EXCEPT !.mode = "initial"] ELSE NoLoad]
  BY DEF FeedInit
<1>2. PICK r : r = [NoLoad EXCEPT !.mode = "initial"]
  OBVIOUS
<1>3. /\ r \in Loads /\ r.mode = "initial" /\ r.filter = "ALL" /\ r.cursor = 0
      /\ r.state = "asked" /\ r.items = <<>> /\ r.next = 0
  <2>1. PICK q \in Loads : q = NoLoad
    BY NoLoadIs
  <2>2. q.filter = "ALL" /\ q.cursor = 0 /\ q.state = "asked" /\ q.items = <<>> /\ q.next = 0
    BY <2>1, NoLoadIs
  <2>3. r = [q EXCEPT !.mode = "initial"]
    BY <1>2, <2>1
  <2>4. /\ r \in Loads /\ r.mode = "initial" /\ r.filter = q.filter /\ r.cursor = q.cursor
        /\ r.state = q.state /\ r.items = q.items /\ r.next = q.next
    BY <2>3 DEF Loads
  <2> QED
    BY <2>2, <2>4
<1>4. loading[f] = r /\ DOMAIN loading = Fetches /\ \A g \in Fetches \ {f} : loading[g] = NoLoad
  BY <1>1, <1>2
<1>5. LoadFits(r)
  <2>1. r.state # "answered" /\ r.mode # "more"
    BY <1>3
  <2> QED
    BY <1>3, <2>1, NoRows DEF LoadFits
<1>6. LoadFits(NoLoad)
  <2>1. NoLoad.state # "answered" /\ NoLoad.mode \notin {"initial", "poll", "more"}
    BY NoLoadIs
  <2> QED
    BY <2>1, NoLoadIs, NoRows DEF LoadFits
<1>7. LoadsFit
  BY <1>4, <1>5, <1>6 DEF LoadsFit
<1>8. FeedTyped
  <2>1. timed \in 0 .. MaxActivities /\ storedRows \subseteq 1 .. timed
    BY FeedAssumption DEF FeedInit
  <2> QED
    BY <2>1 DEF FeedInit, FeedTyped, Filters
<1>9. PageTyped
  BY NoRows DEF FeedInit, PageTyped
<1>10. PageInv
  BY <1>3, <1>4 DEF FeedInit, PageInv, Underway
<1> QED
  BY <1>7, <1>8, <1>9, <1>10 DEF FeedInv

LEMMA AsksKeeps ==
  ASSUME FeedInv, NEW f \in Fetches, NEW mode \in {"initial", "poll", "more"}, NEW by \in Filters,
         NEW cursor \in storedRows \cup {0},
         mode \in {"initial", "poll"} => cursor = 0, mode = "more" => cursor # 0,
         Asks(f, mode, by, cursor), UNCHANGED <<timed, storedRows, pageVars, tangled>>,
         filter' \in Filters, filter' = filter \/ mode = "initial"
  PROVE  FeedInv'
<1>1. PICK r : r = [NoLoad EXCEPT !.mode = mode, !.filter = by, !.cursor = cursor]
  OBVIOUS
<1>2. loading' = [loading EXCEPT ![f] = r] /\ loading[f].mode # "initial"
  BY <1>1 DEF Asks
<1>3. LoadFits(r)' /\ r.mode = mode
  <2>1. storedRows' \subseteq FeedRows /\ cursor \in FeedRows \cup {0} /\ cursor \in storedRows' \cup {0}
    BY RowsAreRows
  <2>2. PICK m \in {"none", "initial", "poll", "more"} : m = mode
    OBVIOUS
  <2>3. r = [NoLoad EXCEPT !.mode = m, !.filter = by, !.cursor = cursor]
    BY <1>1, <2>2
  <2>4. /\ r \in Loads /\ r.mode = m /\ r.filter = by /\ r.cursor = cursor
        /\ r.state = "asked" /\ r.items = <<>> /\ r.next = 0
    <3>1. PICK q \in Loads : q = NoLoad
      BY NoLoadIs
    <3>2. q.state = "asked" /\ q.items = <<>> /\ q.next = 0
      BY <3>1, NoLoadIs
    <3>3. r = [q EXCEPT !.mode = m, !.filter = by, !.cursor = cursor]
      BY <2>3, <3>1
    <3>4. /\ r \in Loads /\ r.mode = m /\ r.filter = by /\ r.cursor = cursor
          /\ r.state = q.state /\ r.items = q.items /\ r.next = q.next
      BY <2>1, <3>3 DEF Loads
    <3> QED
      BY <3>2, <3>4
  <2> QED
    BY <2>1, <2>2, <2>4, AskedFits
<1>4. /\ LoadsFit'
      /\ r.mode = "initial" => Underway("initial")' # {}
      /\ Underway("initial")' = {} => Underway("initial") = {}
  BY <1>2, <1>3, FetchMoves
<1>5. FeedTyped'
  BY DEF FeedInv, FeedTyped, pageVars
<1>6. CASE filter' = filter
  <2>1. PageTyped' /\ PageInv'
    BY <1>4, <1>6, PageStays DEF pageVars
  <2> QED
    BY <1>4, <1>5, <2>1 DEF FeedInv
<1>7. CASE mode = "initial"
  <2>1. PageTyped'
    BY DEF FeedInv, PageTyped, pageVars
  <2>2. PageInv'
    BY <1>3, <1>4, <1>7 DEF FeedInv, PageInv, pageVars
  <2> QED
    BY <1>4, <1>5, <2>1, <2>2 DEF FeedInv
<1> QED
  BY <1>6, <1>7

LEMMA ChangeFilterKeeps ==
  ASSUME FeedInv, NEW f \in Fetches, NEW by \in Filters, ChangeFilter(f, by) PROVE FeedInv'
<1>1. PICK mode \in {"initial", "poll", "more"} : mode = "initial"
  OBVIOUS
<1>2. PICK cursor \in storedRows \cup {0} : cursor = 0
  OBVIOUS
<1>3. Asks(f, mode, by, cursor) /\ UNCHANGED <<timed, storedRows, pageVars, tangled>> /\ filter' = by
  BY <1>1, <1>2 DEF ChangeFilter
<1> QED
  BY <1>1, <1>2, <1>3, AsksKeeps

LEMMA PollKeeps == ASSUME FeedInv, NEW f \in Fetches, Poll(f) PROVE FeedInv'
<1>1. PICK mode \in {"initial", "poll", "more"} : mode = "poll"
  OBVIOUS
<1>2. PICK cursor \in storedRows \cup {0} : cursor = 0
  OBVIOUS
<1>3. Asks(f, mode, filter, cursor) /\ UNCHANGED <<timed, storedRows, pageVars, tangled>> /\ filter' = filter
  BY <1>1, <1>2 DEF Poll
<1>4. filter \in Filters
  BY DEF FeedInv, FeedTyped
<1> QED
  BY <1>1, <1>2, <1>3, <1>4, AsksKeeps

LEMMA LoadMoreKeeps == ASSUME FeedInv, NEW f \in Fetches, LoadMore(f) PROVE FeedInv'
<1>1. PICK mode \in {"initial", "poll", "more"} : mode = "more"
  OBVIOUS
<1>2. PICK cursor \in storedRows \cup {0} : cursor = cursorRef
  BY DEF FeedInv, PageTyped
<1>3. /\ Asks(f, mode, filter, cursor) /\ UNCHANGED <<timed, storedRows, pageVars, tangled>> /\ filter' = filter
      /\ cursor # 0
  BY <1>1, <1>2 DEF LoadMore
<1>4. filter \in Filters
  BY DEF FeedInv, FeedTyped
<1> QED
  BY <1>1, <1>2, <1>3, <1>4, AsksKeeps

LEMMA FetchFailsKeeps == ASSUME FeedInv, NEW f \in Fetches, FetchFails(f) PROVE FeedInv'
<1>1. PICK q : q = loading[f]
  OBVIOUS
<1>2. LoadFits(q) /\ q \in Loads
  BY <1>1, LoadsAre
<1>3. PICK r : r = [q EXCEPT !.state = "failed"]
  OBVIOUS
<1>4. loading' = [loading EXCEPT ![f] = r] /\ UNCHANGED <<timed, storedRows, filter, pageVars, tangled, asks>>
  BY <1>1, <1>3 DEF FetchFails
<1>5. /\ r \in Loads /\ r.mode = q.mode /\ r.filter = q.filter /\ r.cursor = q.cursor
      /\ r.state = "failed" /\ r.items = q.items /\ r.next = q.next
  BY <1>2, <1>3 DEF Loads
<1>6. r.state # "answered"
  BY <1>5
<1>7. LoadFits(r)'
  BY <1>2, <1>4, <1>5, <1>6 DEF LoadFits
<1>8. /\ LoadsFit'
      /\ r.mode = "initial" => Underway("initial")' # {}
      /\ loading[f].mode # "initial" /\ Underway("initial")' = {} => Underway("initial") = {}
  BY <1>4, <1>7, FetchMoves
<1>9. Underway("initial")' = {} => Underway("initial") = {}
  BY <1>1, <1>5, <1>8
<1>10. PageTyped' /\ PageInv'
  BY <1>4, <1>9, PageStays DEF pageVars
<1>11. FeedTyped'
  BY <1>4 DEF FeedInv, FeedTyped, pageVars
<1> QED
  BY <1>8, <1>10, <1>11 DEF FeedInv

\* No request changes.
LEMMA RestKeeps ==
  ASSUME FeedInv, UNCHANGED <<storedRows, filter, pageVars, loading, tangled>>, FeedTyped' PROVE FeedInv'
<1>1. LoadsFit'
  <2> SUFFICES ASSUME NEW f \in Fetches PROVE LoadFits(loading[f])'
    BY DEF FeedInv, LoadsFit
  <2>1. PICK q : q = loading[f]
    OBVIOUS
  <2>2. LoadFits(q)' /\ loading'[f] = q
    BY <2>1, LoadStays DEF FeedInv, LoadsFit
  <2> QED
    BY <2>2
<1>2. PageTyped' /\ PageInv'
  BY PageStays DEF Underway, pageVars
<1> QED
  BY <1>1, <1>2 DEF FeedInv

LEMMA StampKeeps == ASSUME FeedInv, Stamp PROVE FeedInv'
<1>1. UNCHANGED <<storedRows, filter, pageVars, loading, tangled>>
  BY DEF Stamp
<1>2. timed' \in 0 .. MaxActivities /\ storedRows \subseteq 1 .. timed'
  BY FeedAssumption DEF FeedInv, FeedTyped, Stamp
<1>3. FeedTyped'
  BY <1>1, <1>2 DEF FeedInv, FeedTyped, pageVars
<1> QED
  BY <1>1, <1>3, RestKeeps

\* A row stored before no other row is newer than every answer and every page.
LEMMA CreateRecordKeeps == ASSUME FeedInv, NEW r \in FeedRows, CreateRecord(r) PROVE FeedInv'
<1>1. /\ r \in 1 .. timed /\ r \notin storedRows /\ storedRows' = storedRows \cup {r}
      /\ UNCHANGED <<timed, filter, pageVars, loading>>
      /\ ~tangled' => ~tangled /\ \A s \in storedRows : ~(s > r)
  BY DEF CreateRecord
<1>2. storedRows \subseteq FeedRows /\ FeedRows \subseteq Nat /\ 0 \notin FeedRows
  BY RowsAreRows
<1>3. ~tangled' => ~tangled /\ \A s \in storedRows : r > s
  BY <1>1, <1>2
<1>4. FeedTyped'
  <2>1. tangled' \in BOOLEAN
    BY DEF FeedInv, FeedTyped, CreateRecord
  <2> QED
    BY <1>1, <2>1 DEF FeedInv, FeedTyped, pageVars
<1>5. PageTyped'
  BY <1>1 DEF FeedInv, PageTyped, pageVars
<1>6. LoadsFit'
  <2> SUFFICES ASSUME NEW f \in Fetches PROVE LoadFits(loading[f])'
    BY <1>1 DEF FeedInv, LoadsFit
  <2>1. PICK q : q = loading[f]
    OBVIOUS
  <2>2. LoadFits(q) /\ loading'[f] = q /\ q.cursor \in storedRows \cup {0} /\ ToSet(q.items) \subseteq storedRows
    BY <1>1, <2>1 DEF FeedInv, LoadsFit, LoadFits
  <2>3. ASSUME q.state = "answered", ~tangled', NEW s \in storedRows',
               Matches(s, q.filter), q.cursor = 0 \/ s < q.cursor
        PROVE  Covered(q, s)
    <3>1. CASE s \in storedRows
      BY <1>1, <2>2, <2>3, <3>1 DEF LoadFits
    <3>2. CASE s = r
      <4>1. \A x \in storedRows : s > x /\ x \in Nat /\ s \in Nat
        BY <1>2, <1>3, <2>3, <3>2
      <4>2. q.cursor = 0
        <5>1. q.cursor \in storedRows => s > q.cursor /\ q.cursor \in Nat /\ s \in Nat
          BY <4>1
        <5>2. q.cursor \in storedRows => ~(s < q.cursor)
          BY <5>1
        <5> QED
          BY <2>2, <2>3, <5>2
      <4> QED
        BY <2>2, <4>1, <4>2 DEF Covered
    <3> QED
      BY <1>1, <2>3, <3>1, <3>2
  <2>4. LoadFits(q)'
    <3>1. ToSet(q.items) \subseteq storedRows' /\ q.cursor \in storedRows' \cup {0} /\ q.next \in storedRows' \cup {0}
      BY <1>1, <2>2 DEF LoadFits
    <3> QED
      BY <2>2, <2>3, <3>1 DEF LoadFits, Covered, Matches
  <2> QED
    BY <2>2, <2>4
<1>7. PageInv'
  <2> SUFFICES ASSUME ~tangled' PROVE listed' = itemsRef' /\ (Underway("initial")' = {} => PageStands')
    BY DEF PageInv
  <2>1. listed = itemsRef /\ (Underway("initial") = {} => PageStands)
    BY <1>3 DEF FeedInv, PageInv
  <2>2. Underway("initial")' = Underway("initial")
    BY <1>1 DEF Underway
  <2>3. ASSUME PageStands PROVE PageStands'
    <3>1. ASSUME listed # <<>>, NEW s \in storedRows', Matches(s, filter)
          PROVE  s \in ToSet(listed) \/ s > listed[1] \/ s < cursorRef
      <4>1. CASE s \in storedRows
        BY <2>3, <3>1, <4>1 DEF PageStands
      <4>2. CASE s = r
        <5>1. listed \in Seq(FeedRows) /\ ToSet(listed) \subseteq storedRows
          BY DEF FeedInv, PageTyped
        <5>2. 1 \in 1 .. Len(listed)
          BY <3>1, <5>1
        <5>3. listed[1] \in storedRows
          BY <5>1, <5>2, ListIs
        <5> QED
          BY <1>3, <4>2, <5>3
      <4> QED
        BY <1>1, <3>1, <4>1, <4>2
    <3>2. listed' = listed /\ cursorRef' = cursorRef /\ filter' = filter
      BY <1>1 DEF pageVars
    <3>3. Descends(listed')
      BY <2>3, <3>2 DEF PageStands
    <3>4. /\ \A s \in ToSet(listed') : Matches(s, filter)' /\ cursorRef' <= s
          /\ cursorRef' # 0 => cursorRef' \in ToSet(listed')
      BY <2>3, <3>2 DEF PageStands, Matches
    <3>5. listed' # <<>> => \A s \in storedRows' :
            Matches(s, filter)' => s \in ToSet(listed') \/ s > listed'[1] \/ s < cursorRef'
      BY <3>1, <3>2 DEF Matches
    <3> QED
      BY <3>3, <3>4, <3>5 DEF PageStands, Descends, Matches
  <2> QED
    BY <1>1, <2>1, <2>2, <2>3 DEF pageVars
<1> QED
  BY <1>4, <1>5, <1>6, <1>7 DEF FeedInv

\* The page of an answer, out of all the rows it was asked for.
LEMMA PageIs ==
  ASSUME NEW rows \in Seq(FeedRows), Descends(rows), NEW items, NEW next,
         items = SubSeq(rows, 1, IF Len(rows) > PageSize THEN PageSize ELSE Len(rows)), next = Cursor(rows)
  PROVE  /\ items \in Seq(FeedRows) /\ Descends(items) /\ ToSet(items) \subseteq ToSet(rows)
         /\ next \in FeedRows \cup {0} /\ (next # 0 => next \in ToSet(items))
         /\ \A r \in ToSet(items) : next <= r
         /\ \A r \in ToSet(rows) : r \in ToSet(items) \/ r < next
<1>0. PICK L \in Nat : L = Len(rows)
  OBVIOUS
<1>1. /\ DOMAIN rows = 1 .. L /\ ToSet(rows) \subseteq FeedRows
      /\ FeedRows \subseteq Nat /\ \A i \in 1 .. L : rows[i] \in ToSet(rows)
      /\ \A x \in ToSet(rows) : \E i \in 1 .. L : rows[i] = x
  BY <1>0, ListIs
<1>2. PageSize \in Nat \ {0}
  BY FeedAssumption
<1>3. PICK n \in Nat : n = IF L > PageSize THEN PageSize ELSE L
  BY <1>2
<1>4. n <= L
  BY <1>2, <1>3
<1>5. items = SubSeq(rows, 1, n)
  BY <1>0, <1>3
<1>6. /\ items \in Seq(FeedRows) /\ Len(items) = n /\ \A i \in 1 .. n : items[i] = rows[i]
      /\ ToSet(items) \subseteq ToSet(rows) /\ Descends(items)
  <2>1. n <= Len(rows)
    BY <1>0, <1>4
  <2>2. /\ items \in Seq(FeedRows) /\ Len(items) = n /\ \A i \in 1 .. n : items[i] = rows[i]
        /\ ToSet(items) \subseteq ToSet(rows) /\ (Descends(rows) => Descends(items))
    BY <1>5, <2>1, CutKeeps
  <2> QED
    BY <2>2
<1>7. /\ \A i \in 1 .. n : items[i] \in ToSet(items)
      /\ \A x \in ToSet(items) : \E i \in 1 .. n : items[i] = x
  BY <1>6, ListIs
<1>8. CASE L > PageSize
  <2>1. n = PageSize /\ n \in 1 .. n /\ n \in 1 .. L
    BY <1>1, <1>2, <1>3, <1>8
  <2>2. next = rows[n] /\ next = items[n] /\ next \in ToSet(items) /\ next \in FeedRows
    BY <1>1, <1>6, <1>7, <1>8, <2>1 DEF Cursor
  <2>3. ASSUME NEW i \in 1 .. L PROVE IF i \in 1 .. n THEN next <= rows[i] ELSE rows[i] < next
    <3>1. rows[i] \in Nat /\ rows[n] \in Nat
      BY <1>1, <2>1
    <3>2. CASE i < n
      BY <1>1, <2>1, <2>2, <3>1, <3>2 DEF Descends
    <3>3. CASE i = n
      <4>1. rows[i] = next /\ i \in 1 .. n
        BY <2>1, <2>2, <3>3
      <4>2. next <= next
        BY <3>1, <4>1
      <4> QED
        BY <4>1, <4>2
    <3>4. CASE n < i
      <4>1. rows[n] > rows[i] /\ i \notin 1 .. n
        BY <1>1, <2>1, <3>4 DEF Descends
      <4> QED
        BY <2>2, <3>1, <4>1
    <3> QED
      BY <1>4, <3>2, <3>3, <3>4
  <2>4. ASSUME NEW r \in ToSet(items) PROVE next <= r
    <3>1. PICK i \in 1 .. n : items[i] = r
      BY <1>7
    <3>2. i \in 1 .. L
      BY <1>4
    <3>3. rows[i] = r
      BY <1>6, <3>1
    <3> QED
      BY <2>3, <3>2, <3>3
  <2>5. ASSUME NEW r \in ToSet(rows) PROVE r \in ToSet(items) \/ r < next
    <3>1. PICK i \in 1 .. L : rows[i] = r
      BY <1>1
    <3>2. i \in 1 .. n => r \in ToSet(items)
      BY <1>6, <1>7, <3>1
    <3> QED
      BY <2>3, <3>1, <3>2
  <2> QED
    BY <1>6, <2>2, <2>4, <2>5
<1>9. CASE ~(L > PageSize)
  <2>1. n = L /\ next = 0
    BY <1>3, <1>0, <1>9 DEF Cursor
  <2>2. \A r \in ToSet(rows) : r \in ToSet(items)
    <3> SUFFICES ASSUME NEW r \in ToSet(rows) PROVE r \in ToSet(items)
      OBVIOUS
    <3>1. PICK i \in 1 .. L : rows[i] = r
      BY <1>1
    <3>2. i \in 1 .. n
      BY <2>1
    <3> QED
      BY <1>6, <1>7, <3>1, <3>2
  <2>3. \A r \in ToSet(items) : next <= r
    <3>1. ToSet(items) \subseteq Nat
      BY <1>1, <1>6
    <3> QED
      BY <2>1, <3>1
  <2> QED
    BY <1>6, <2>1, <2>2, <2>3
<1> QED
  BY <1>8, <1>9

LEMMA ListFeedKeeps == ASSUME FeedInv, NEW f \in Fetches, ListFeed(f) PROVE FeedInv'
<1>1. PICK q : q = loading[f]
  OBVIOUS
<1>2. LoadFits(q) /\ q \in Loads
  BY <1>1, LoadsAre
<1>3. PICK S : S = {r \in storedRows : Matches(r, q.filter) /\ (q.cursor = 0 \/ r < q.cursor)}
  OBVIOUS
<1>4. PICK rows : rows = Reverse(Ordered(S))
  OBVIOUS
<1>5. PICK items : items = SubSeq(rows, 1, IF Len(rows) > PageSize THEN PageSize ELSE Len(rows))
  OBVIOUS
<1>6. PICK next : next = Cursor(rows)
  OBVIOUS
<1>7. PICK r : r = [q EXCEPT !.state = "answered", !.items = items, !.next = next]
  OBVIOUS
<1>8. loading' = [loading EXCEPT ![f] = r] /\ UNCHANGED <<timed, storedRows, filter, pageVars, tangled, asks>>
  BY <1>1, <1>3, <1>4, <1>5, <1>6, <1>7 DEF ListFeed
<1>9. S \subseteq storedRows /\ storedRows \subseteq FeedRows /\ 0 \notin FeedRows
  BY <1>3, RowsAreRows
<1>10. rows \in Seq(FeedRows) /\ Descends(rows) /\ ToSet(rows) = S
  <2>1. S \in SUBSET FeedRows
    BY <1>9
  <2> QED
    BY <1>4, <2>1, NewestFirst
<1>11. /\ items \in Seq(FeedRows) /\ Descends(items) /\ ToSet(items) \subseteq S
       /\ next \in FeedRows \cup {0} /\ (next # 0 => next \in ToSet(items))
       /\ \A s \in ToSet(items) : next <= s
       /\ \A s \in S : s \in ToSet(items) \/ s < next
  BY <1>5, <1>6, <1>10, PageIs
<1>12. /\ r \in Loads /\ r.mode = q.mode /\ r.filter = q.filter /\ r.cursor = q.cursor
       /\ r.state = "answered" /\ r.items = items /\ r.next = next
  <2>1. PICK st \in {"asked", "answered", "failed"} : st = "answered"
    OBVIOUS
  <2>2. r = [q EXCEPT !.state = st, !.items = items, !.next = next]
    BY <1>7, <2>1
  <2>3. /\ r \in Loads /\ r.mode = q.mode /\ r.filter = q.filter /\ r.cursor = q.cursor
        /\ r.state = st /\ r.items = items /\ r.next = next
    BY <1>2, <1>11, <2>2 DEF Loads
  <2> QED
    BY <2>1, <2>3
<1>13. LoadFits(r)
  <2>1. /\ Descends(items) /\ ToSet(items) \subseteq storedRows /\ next \in storedRows \cup {0}
    BY <1>9, <1>11
  <2>2. \A s \in ToSet(items) : Matches(s, q.filter) /\ (q.cursor = 0 \/ s < q.cursor)
    BY <1>3, <1>11
  <2>3. \A s \in storedRows : Matches(s, q.filter) /\ (q.cursor = 0 \/ s < q.cursor) => Covered(r, s)
    BY <1>3, <1>11, <1>12 DEF Covered
  <2>4. /\ q.cursor \in storedRows \cup {0}
        /\ q.mode \in {"initial", "poll"} => q.cursor = 0
        /\ q.mode = "more" => q.cursor # 0
    BY <1>2 DEF LoadFits
  <2> QED
    BY <1>11, <1>12, <2>1, <2>2, <2>3, <2>4 DEF LoadFits
<1>14. LoadFits(r)'
  BY <1>8, <1>13, LoadStays
<1>15. /\ LoadsFit'
       /\ r.mode = "initial" => Underway("initial")' # {}
       /\ loading[f].mode # "initial" /\ Underway("initial")' = {} => Underway("initial") = {}
  BY <1>8, <1>14, FetchMoves
<1>16. Underway("initial")' = {} => Underway("initial") = {}
  BY <1>1, <1>12, <1>15
<1>17. PageTyped' /\ PageInv'
  BY <1>8, <1>16, PageStays DEF pageVars
<1>18. FeedTyped'
  BY <1>8 DEF FeedInv, FeedTyped, pageVars
<1> QED
  BY <1>15, <1>17, <1>18 DEF FeedInv

\* The page is not shown to stand while its answer is out: a first page that fails tangles it.
LEMMA LandNothingKeeps == ASSUME FeedInv, NEW f \in Fetches, LandNothing(f) PROVE FeedInv'
<1>1. loading' = [loading EXCEPT ![f] = NoLoad] /\ UNCHANGED <<timed, storedRows, filter, itemsRef, cursorRef>>
  BY DEF LandNothing, Landed
<1>2. LoadFits(NoLoad)'
  BY <1>1, RowsAreRows, NothingFits
<1>3. CASE loading[f].mode = "initial"
  <2>1. listed' = <<>> /\ moreShown' = FALSE /\ tangled' = TRUE
    BY <1>3 DEF LandNothing
  <2>2. LoadsFit'
    BY <1>1, <1>2, <2>1, FetchMoves
  <2>3. FeedTyped'
    BY <1>1, <2>1 DEF FeedInv, FeedTyped
  <2>4. PageTyped'
    BY <1>1, <2>1, NoRows DEF FeedInv, PageTyped
  <2>5. PageInv'
    BY <2>1 DEF PageInv
  <2> QED
    BY <2>2, <2>3, <2>4, <2>5 DEF FeedInv
<1>4. CASE loading[f].mode # "initial"
  <2>1. UNCHANGED <<listed, moreShown, tangled>>
    BY <1>4 DEF LandNothing
  <2>2. LoadsFit' /\ (Underway("initial")' = {} => Underway("initial") = {})
    BY <1>1, <1>2, <1>4, <2>1, FetchMoves
  <2>3. PageTyped' /\ PageInv'
    BY <1>1, <2>1, <2>2, PageStays
  <2>4. FeedTyped'
    BY <1>1, <2>1 DEF FeedInv, FeedTyped
  <2> QED
    BY <2>2, <2>3, <2>4 DEF FeedInv
<1> QED
  BY <1>3, <1>4

\* Any first page but a poll's of a long list: the list is the answer.
LEMMA LandFirstKeeps == ASSUME FeedInv, NEW f \in Fetches, LandFirst(f) PROVE FeedInv'
<1>1. PICK q : q = loading[f]
  OBVIOUS
<1>2. LoadFits(q) /\ q \in Loads /\ q.items \in Seq(FeedRows)
  BY <1>1, LoadsAre
<1>3. /\ loading' = [loading EXCEPT ![f] = NoLoad] /\ UNCHANGED <<timed, storedRows, filter>>
      /\ q.state = "answered" /\ q.mode \in {"initial", "poll"}
      /\ listed' = q.items /\ itemsRef' = q.items /\ cursorRef' = q.next /\ moreShown' = (q.next # 0)
      /\ tangled' = (tangled \/ q.filter # filter)
  BY <1>1 DEF LandFirst, Landed
<1>4. LoadFits(NoLoad)' /\ (~tangled' => ~tangled /\ q.filter = filter)
  BY <1>3, RowsAreRows, NothingFits
<1>5. LoadsFit'
  BY <1>3, <1>4, FetchMoves
<1>6. tangled' \in BOOLEAN /\ moreShown' \in BOOLEAN
  BY <1>3
<1>7. FeedTyped'
  BY <1>3, <1>6 DEF FeedInv, FeedTyped
<1>8. PageTyped'
  <2>1. IsInjective(q.items) /\ ToSet(q.items) \subseteq storedRows /\ q.next \in storedRows \cup {0}
    BY <1>2, DescendsOnce DEF LoadFits
  <2> QED
    BY <1>2, <1>3, <2>1 DEF PageTyped
<1>9. ASSUME ~tangled' PROVE PageStands'
  <2>1. q.cursor = 0 /\ Descends(q.items)
    BY <1>2, <1>3 DEF LoadFits
  <2>2. \A r \in ToSet(q.items) : Matches(r, filter) /\ q.next <= r
    BY <1>2, <1>4, <1>9 DEF LoadFits
  <2>3. q.next # 0 => q.next \in ToSet(q.items)
    BY <1>2 DEF LoadFits
  <2>4. ASSUME q.items # <<>>, NEW r \in storedRows, Matches(r, filter)
        PROVE  r \in ToSet(q.items) \/ r > q.items[1] \/ r < q.next
    <3>1. Covered(q, r)
      BY <1>2, <1>3, <1>4, <1>9, <2>1, <2>4 DEF LoadFits
    <3>2. 1 \in 1 .. Len(q.items)
      BY <1>2, <2>4
    <3>3. q.items[1] \in ToSet(q.items)
      BY <1>2, <3>2, ListIs
    <3> QED
      BY <3>1, <3>3 DEF Covered
  <2>5. listed' = q.items /\ cursorRef' = q.next /\ filter' = filter /\ storedRows' = storedRows
    BY <1>3
  <2>6. Descends(listed)'
    BY <2>1, <2>5
  <2> QED
    BY <2>2, <2>3, <2>4, <2>5, <2>6 DEF PageStands, Matches
<1>10. PageInv'
  BY <1>3, <1>9 DEF PageInv
<1> QED
  BY <1>5, <1>7, <1>8, <1>10 DEF FeedInv

\* More rows: all of them are behind the cursor.
LEMMA LandMoreKeeps == ASSUME FeedInv, NEW f \in Fetches, LandMore(f) PROVE FeedInv'
<1>1. PICK q : q = loading[f]
  OBVIOUS
<1>2. LoadFits(q) /\ q \in Loads /\ q.items \in Seq(FeedRows) /\ q.next \in Nat /\ q.cursor \in Nat
  BY <1>1, LoadsAre
<1>3. PICK w : w = Without(q.items, itemsRef)
  OBVIOUS
<1>4. PICK new : new = itemsRef \o w
  OBVIOUS
<1>5. /\ loading' = [loading EXCEPT ![f] = NoLoad] /\ UNCHANGED <<timed, storedRows, filter>>
      /\ q.state = "answered" /\ q.mode = "more"
      /\ listed' = new /\ itemsRef' = new /\ cursorRef' = q.next /\ moreShown' = (q.next # 0)
      /\ tangled' = (tangled \/ q.filter # filter \/ q.cursor # cursorRef)
  BY <1>1, <1>3, <1>4 DEF LandMore, Landed, AppendNew
<1>6. LoadFits(NoLoad)' /\ (~tangled' => ~tangled /\ q.filter = filter /\ q.cursor = cursorRef)
  BY <1>5, RowsAreRows, NothingFits
<1>7. /\ LoadsFit'
      /\ loading[f].mode # "initial" /\ Underway("initial")' = {} => Underway("initial") = {}
  BY <1>5, <1>6, FetchMoves
<1>8. tangled' \in BOOLEAN /\ moreShown' \in BOOLEAN
  BY <1>5
<1>9. FeedTyped'
  BY <1>5, <1>8 DEF FeedInv, FeedTyped
<1>10. /\ itemsRef \in Seq(FeedRows) /\ IsInjective(itemsRef) /\ ToSet(itemsRef) \subseteq storedRows
       /\ IsInjective(q.items) /\ Descends(q.items) /\ ToSet(q.items) \subseteq storedRows
       /\ q.next \in storedRows \cup {0}
  BY <1>2, DescendsOnce DEF LoadFits, FeedInv, PageTyped
<1>11. /\ w \in Seq(FeedRows) /\ ToSet(w) = ToSet(q.items) \ ToSet(itemsRef) /\ IsInjective(w) /\ Descends(w)
  BY <1>2, <1>3, <1>10, WithoutKeeps
<1>12. ToSet(itemsRef) \cap ToSet(w) = {} /\ ToSet(itemsRef) \cup ToSet(w) = ToSet(itemsRef) \cup ToSet(q.items)
  BY <1>11
<1>13. new \in Seq(FeedRows) /\ ToSet(new) = ToSet(itemsRef) \cup ToSet(q.items) /\ IsInjective(new)
  BY <1>4, <1>10, <1>11, <1>12, JoinKeeps
<1>14. PageTyped'
  <2>1. ToSet(new) \subseteq storedRows
    BY <1>10, <1>13
  <2> QED
    BY <1>5, <1>10, <1>13, <2>1 DEF PageTyped
<1>15. ASSUME ~tangled', Underway("initial")' = {} PROVE PageStands'
  <2>1. PageStands /\ listed = itemsRef /\ q.filter = filter /\ q.cursor = cursorRef /\ q.cursor # 0
    BY <1>1, <1>2, <1>5, <1>6, <1>7, <1>15 DEF FeedInv, PageInv, LoadFits
  <2>2. /\ Descends(itemsRef)
        /\ \A r \in ToSet(itemsRef) : Matches(r, filter) /\ q.cursor <= r
        /\ q.cursor \in ToSet(itemsRef)
        /\ itemsRef # <<>> => \A r \in storedRows :
             Matches(r, filter) => r \in ToSet(itemsRef) \/ r > itemsRef[1] \/ r < q.cursor
    BY <2>1 DEF PageStands
  <2>3. /\ \A r \in ToSet(q.items) : Matches(r, filter) /\ r < q.cursor /\ q.next <= r
        /\ q.next # 0 => q.next \in ToSet(q.items)
    BY <1>2, <2>1 DEF LoadFits
  <2>4. ToSet(itemsRef) \subseteq Nat /\ ToSet(q.items) \subseteq Nat /\ storedRows \subseteq Nat
    <3>1. storedRows \subseteq Nat
      BY RowsAreRows
    <3> QED
      BY <1>10, <3>1
  <2>5. itemsRef # <<>> /\ Len(itemsRef) # 0
    BY <1>10, <2>2, NoRows
  <2>6. \A x \in ToSet(itemsRef), y \in ToSet(w) : x > y
    <3> SUFFICES ASSUME NEW x \in ToSet(itemsRef), NEW y \in ToSet(w) PROVE x > y
      OBVIOUS
    <3>1. q.cursor <= x /\ y < q.cursor /\ x \in Nat /\ y \in Nat
      BY <1>11, <2>2, <2>3, <2>4
    <3> QED
      BY <1>2, <3>1
  <2>7. Descends(new) /\ new # <<>> /\ new[1] = itemsRef[1]
    BY <1>4, <1>10, <1>11, <2>2, <2>5, <2>6, JoinKeeps
  <2>8. q.next <= q.cursor
    <3>1. q.next # 0 => q.next < q.cursor
      BY <2>3
    <3> QED
      BY <1>2, <3>1
  <2>9. ASSUME NEW r \in ToSet(new) PROVE Matches(r, filter) /\ q.next <= r
    <3>1. CASE r \in ToSet(q.items)
      BY <2>3, <3>1
    <3>2. CASE r \in ToSet(itemsRef)
      <4>1. Matches(r, filter) /\ q.cursor <= r /\ r \in Nat
        BY <2>2, <2>4, <3>2
      <4>2. q.next <= r
        BY <1>2, <2>8, <4>1
      <4> QED
        BY <4>1, <4>2
    <3> QED
      BY <1>13, <2>9, <3>1, <3>2
  <2>10. q.next # 0 => q.next \in ToSet(new)
    BY <1>13, <2>3
  <2>11. ASSUME NEW r \in storedRows, Matches(r, filter)
         PROVE  r \in ToSet(new) \/ r > new[1] \/ r < q.next
    <3>1. r \in ToSet(itemsRef) \/ r > itemsRef[1] \/ r < q.cursor
      BY <2>2, <2>5, <2>11
    <3>2. CASE r < q.cursor
      <4>1. Covered(q, r)
        BY <1>2, <1>5, <1>6, <1>15, <2>1, <2>11, <3>2 DEF LoadFits
      <4>2. r \in ToSet(q.items) \/ r < q.next
        BY <2>1, <4>1 DEF Covered
      <4> QED
        BY <1>13, <4>2
    <3> QED
      BY <1>13, <2>7, <3>1, <3>2
  <2>12. listed' = new /\ cursorRef' = q.next /\ filter' = filter /\ storedRows' = storedRows
    BY <1>5
  <2>13. Descends(listed)'
    BY <2>7, <2>12
  <2> QED
    BY <2>9, <2>10, <2>11, <2>12, <2>13 DEF PageStands, Matches
<1>16. PageInv'
  BY <1>5, <1>15 DEF PageInv
<1> QED
  BY <1>7, <1>9, <1>14, <1>16 DEF FeedInv

\* A poll before a longer list.
LEMMA LandPollKeeps == ASSUME FeedInv, NEW f \in Fetches, LandPoll(f) PROVE FeedInv'
<1>1. PICK q : q = loading[f]
  OBVIOUS
<1>2. LoadFits(q) /\ q \in Loads /\ q.items \in Seq(FeedRows)
  BY <1>1, LoadsAre
<1>3. PICK w : w = Without(itemsRef, q.items)
  OBVIOUS
<1>4. PICK fresh : fresh = q.items \o w
  OBVIOUS
<1>5. PICK cut : cut = SubSeq(fresh, 1, Len(itemsRef))
  OBVIOUS
<1>6. /\ loading' = [loading EXCEPT ![f] = NoLoad] /\ UNCHANGED <<timed, storedRows, filter, cursorRef, moreShown>>
      /\ q.state = "answered" /\ q.mode = "poll" /\ listed' = cut /\ itemsRef' = cut
      /\ tangled' = (tangled \/ q.filter # filter \/ Len(fresh) > Len(cut) \/ Overtaken(q))
  BY <1>1, <1>3, <1>4, <1>5 DEF LandPoll, Landed, Merges
<1>7. LoadFits(NoLoad)' /\ (~tangled' => ~tangled /\ q.filter = filter /\ ~(Len(fresh) > Len(cut)) /\ ~Overtaken(q))
  BY <1>6, RowsAreRows, NothingFits
<1>8. /\ LoadsFit'
      /\ loading[f].mode # "initial" /\ Underway("initial")' = {} => Underway("initial") = {}
  BY <1>6, <1>7, FetchMoves
<1>9. tangled' \in BOOLEAN
  BY <1>6 DEF FeedInv, FeedTyped
<1>10. FeedTyped'
  BY <1>6, <1>9 DEF FeedInv, FeedTyped
<1>11. /\ itemsRef \in Seq(FeedRows) /\ IsInjective(itemsRef) /\ ToSet(itemsRef) \subseteq storedRows
       /\ IsInjective(q.items) /\ Descends(q.items) /\ ToSet(q.items) \subseteq storedRows
       /\ cursorRef \in storedRows \cup {0}
  BY <1>2, DescendsOnce DEF LoadFits, FeedInv, PageTyped
<1>12. /\ w \in Seq(FeedRows) /\ ToSet(w) = ToSet(itemsRef) \ ToSet(q.items) /\ IsInjective(w)
       /\ Descends(itemsRef) => Descends(w)
  BY <1>2, <1>3, <1>11, WithoutKeeps
<1>13. ToSet(q.items) \cap ToSet(w) = {} /\ ToSet(q.items) \cup ToSet(w) = ToSet(itemsRef) \cup ToSet(q.items)
  BY <1>12
<1>14. fresh \in Seq(FeedRows) /\ ToSet(fresh) = ToSet(itemsRef) \cup ToSet(q.items) /\ IsInjective(fresh)
  BY <1>2, <1>4, <1>11, <1>12, <1>13, JoinKeeps
<1>15. PICK m \in Nat : m = Len(itemsRef)
  BY <1>11
<1>16. PICK n \in Nat : n = Len(fresh)
  BY <1>14
<1>17. /\ IsFiniteSet(ToSet(fresh)) /\ Cardinality(ToSet(fresh)) = n
       /\ IsFiniteSet(ToSet(itemsRef)) /\ Cardinality(ToSet(itemsRef)) = m
  BY <1>11, <1>14, <1>15, <1>16, ListCounts
<1>18. m <= n /\ (m = n => ToSet(fresh) = ToSet(itemsRef))
  <2>1. ToSet(itemsRef) \in SUBSET ToSet(fresh)
    BY <1>14
  <2>2. /\ Cardinality(ToSet(itemsRef)) <= Cardinality(ToSet(fresh))
        /\ Cardinality(ToSet(fresh)) = Cardinality(ToSet(itemsRef)) => ToSet(fresh) = ToSet(itemsRef)
    BY <1>17, <2>1, FS_Subset
  <2> QED
    BY <1>17, <2>2
<1>19. cut \in Seq(FeedRows) /\ Len(cut) = m /\ ToSet(cut) \subseteq ToSet(fresh) /\ IsInjective(cut)
  <2>1. cut = SubSeq(fresh, 1, m) /\ m <= Len(fresh) /\ fresh \in Seq(FeedRows)
    BY <1>5, <1>14, <1>15, <1>16, <1>18
  <2> QED
    BY <1>14, <2>1, CutKeeps
<1>20. PageTyped'
  <2>1. ToSet(cut) \subseteq storedRows
    BY <1>11, <1>14, <1>19
  <2> QED
    BY <1>6, <1>11, <1>19, <2>1 DEF PageTyped
<1>21. ASSUME ~tangled', Underway("initial")' = {} PROVE PageStands'
  <2>1. PageStands /\ listed = itemsRef /\ q.filter = filter
    BY <1>1, <1>6, <1>7, <1>8, <1>21 DEF FeedInv, PageInv
  <2>2. /\ Descends(itemsRef)
        /\ \A r \in ToSet(itemsRef) : Matches(r, filter) /\ cursorRef <= r
        /\ cursorRef # 0 => cursorRef \in ToSet(itemsRef)
        /\ itemsRef # <<>> => \A r \in storedRows :
             Matches(r, filter) => r \in ToSet(itemsRef) \/ r > itemsRef[1] \/ r < cursorRef
    BY <2>1 DEF PageStands
  <2>3. m = n
    BY <1>7, <1>16, <1>18, <1>19, <1>21
  <2>4. cut = fresh /\ ToSet(cut) = ToSet(itemsRef)
    <3>1. cut = SubSeq(fresh, 1, Len(fresh))
      BY <1>5, <1>15, <1>16, <2>3
    <3>2. cut = fresh
      BY <1>14, <3>1
    <3> QED
      BY <1>18, <2>3, <3>2
  <2>5. \A x \in ToSet(q.items), y \in ToSet(w) : x > y
    <3> SUFFICES ASSUME NEW x \in ToSet(q.items), NEW y \in ToSet(w) PROVE x > y
      OBVIOUS
    <3>1. y \in ToSet(itemsRef) /\ y \notin ToSet(q.items) /\ x # y
      BY <1>12
    <3>2. ~(y > x)
      BY <1>7, <1>21, <3>1 DEF Overtaken
    <3>3. x \in Nat /\ y \in Nat
      BY <1>11, <3>1, RowsAreRows
    <3> QED
      BY <3>1, <3>2, <3>3
  <2>6. Descends(cut)
    <3>1. Descends(w) /\ Descends(q.items) /\ w \in Seq(FeedRows)
      BY <1>11, <1>12, <2>2
    <3>2. PICK a \in Seq(FeedRows) : a = q.items
      BY <1>2
    <3>3. fresh = a \o w /\ Descends(a) /\ \A x \in ToSet(a), y \in ToSet(w) : x > y
      BY <1>4, <2>5, <3>1, <3>2
    <3>4. Descends(fresh)
      BY <3>1, <3>3, JoinKeeps
    <3> QED
      BY <2>4, <3>4
  <2>7. ASSUME cut # <<>> PROVE itemsRef # <<>> /\ cut[1] <= itemsRef[1] /\ cut[1] \in Nat /\ itemsRef[1] \in Nat
    <3>1. 1 \in 1 .. Len(cut)
      BY <1>19, <2>7
    <3>2. cut[1] \in ToSet(itemsRef)
      BY <1>19, <2>4, <3>1, ListIs
    <3>3. PICK k \in 1 .. Len(itemsRef) : itemsRef[k] = cut[1]
      BY <1>11, <3>2, ListIs
    <3>4. k \in Nat /\ 1 <= k /\ k <= m /\ 1 \in 1 .. Len(itemsRef)
      BY <1>15, <3>3
    <3>5. itemsRef[1] \in ToSet(itemsRef) /\ DOMAIN itemsRef = 1 .. Len(itemsRef)
      BY <1>11, <3>4, ListIs
    <3>6. itemsRef[1] \in Nat /\ cut[1] \in Nat
      BY <1>11, <3>2, <3>5, RowsAreRows
    <3>7. 1 < k => itemsRef[1] > itemsRef[k]
      BY <2>2, <3>3, <3>4, <3>5 DEF Descends
    <3>8. cut[1] <= itemsRef[1]
      <4>1. CASE k = 1
        <5>1. cut[1] = itemsRef[1]
          BY <3>3, <4>1
        <5> QED
          BY <3>6, <5>1
      <4>2. CASE k # 1
        BY <3>3, <3>4, <3>6, <3>7, <4>2
      <4> QED
        BY <4>1, <4>2
    <3>9. itemsRef # <<>>
      BY <1>11, <3>4
    <3> QED
      BY <3>6, <3>8, <3>9
  <2>8. ASSUME cut # <<>>, NEW r \in storedRows, Matches(r, filter)
        PROVE  r \in ToSet(cut) \/ r > cut[1] \/ r < cursorRef
    <3>1. r \in ToSet(itemsRef) \/ r > itemsRef[1] \/ r < cursorRef
      BY <2>2, <2>7, <2>8
    <3>2. r \in Nat
      BY <2>8, RowsAreRows
    <3>3. r > itemsRef[1] => r > cut[1]
      BY <2>7, <2>8, <3>2
    <3> QED
      BY <2>4, <3>1, <3>3
  <2>9. listed' = cut /\ cursorRef' = cursorRef /\ filter' = filter /\ storedRows' = storedRows
    BY <1>6
  <2>10. Descends(listed)'
    BY <2>6, <2>9
  <2>11. /\ \A r \in ToSet(cut) : Matches(r, filter) /\ cursorRef <= r
         /\ cursorRef # 0 => cursorRef \in ToSet(cut)
    BY <2>2, <2>4
  <2> QED
    BY <2>8, <2>9, <2>10, <2>11 DEF PageStands, Matches
<1>22. PageInv'
  BY <1>6, <1>21 DEF PageInv
<1> QED
  BY <1>8, <1>10, <1>20, <1>22 DEF FeedInv

LEMMA FeedStep == FeedInv /\ [FeedNext]_feedVars => FeedInv'
<1> SUFFICES ASSUME FeedInv, [FeedNext]_feedVars PROVE FeedInv'
  OBVIOUS
<1>1. CASE Stamp
  BY <1>1, StampKeeps
<1>2. CASE \E r \in 1 .. MaxActivities : CreateRecord(r)
  BY <1>2, CreateRecordKeeps DEF FeedRows
<1>3. ASSUME NEW f \in Fetches,
             \/ ListFeed(f) \/ FetchFails(f) \/ \E by \in Filters : ChangeFilter(f, by)
             \/ Poll(f) \/ LoadMore(f)
             \/ LandNothing(f) \/ LandPoll(f) \/ LandFirst(f) \/ LandMore(f)
      PROVE  FeedInv'
  BY <1>3, ListFeedKeeps, FetchFailsKeeps, ChangeFilterKeeps, PollKeeps, LoadMoreKeeps,
     LandNothingKeeps, LandPollKeeps, LandFirstKeeps, LandMoreKeeps
<1>4. CASE UNCHANGED feedVars
  <2>1. UNCHANGED <<timed, storedRows, filter, pageVars, loading, tangled>>
    BY <1>4 DEF feedVars, pageVars
  <2>2. FeedTyped'
    BY <2>1 DEF FeedInv, FeedTyped, pageVars
  <2> QED
    BY <2>1, <2>2, RestKeeps
<1> QED
  BY <1>1, <1>2, <1>3, <1>4 DEF FeedNext

LEMMA FeedInvariance == FeedInit /\ [][FeedNext]_feedVars => []FeedInv
  BY InitFeedInv, FeedStep, PTL

LEMMA FeedInvKeeps == FeedInv => FeedTypeOK /\ NoRowTwice /\ FeedIsWhole
<1> SUFFICES ASSUME FeedInv PROVE FeedTypeOK /\ NoRowTwice /\ FeedIsWhole
  OBVIOUS
<1>1. FeedTypeOK
  <2>1. \A f \in Fetches : loading[f].state \in {"asked", "answered", "failed"}
    BY LoadFields DEF FeedInv, LoadsFit, LoadFits
  <2>2. cursorRef \in 0 .. MaxActivities
    BY FeedAssumption DEF FeedInv, FeedTyped, PageTyped
  <2> QED
    BY <2>1, <2>2 DEF FeedTypeOK, FeedInv, FeedTyped, PageTyped
<1>2. NoRowTwice
  BY DEF NoRowTwice, FeedInv, PageTyped
<1>3. FeedIsWhole
  BY DEF FeedIsWhole, FeedInv, PageInv, PageStands, Descends
<1> QED
  BY <1>1, <1>2, <1>3
=============================================================================
