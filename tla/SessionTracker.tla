---------------------------- MODULE SessionTracker ----------------------------
(***************************************************************************)
(* One browser tab of a visitor: UserSessionTracker.tsx, which keeps one   *)
(* presence session for the connected wallet, and ConnectModal.tsx, where  *)
(* the wallet signs in.  Whenever the wallet or a signature changes, the   *)
(* tracker runs syncSession; its awaits interleave with those of earlier   *)
(* runs, of heartbeats and of forced logouts.  A request is one step of    *)
(* the tab and the API: what the API did is known when the answer comes.   *)
(***************************************************************************)
EXTENDS Naturals, FiniteSets

CONSTANTS
    Accounts,      \* wallets the visitor has
    NoAccount,
    Tasks,         \* asynchronous functions of the tab under way at once
    MaxSessions,   \* sessions the API creates
    MaxMoves       \* wallets chosen, reloads, heartbeats, and what others do
ASSUME TrackerAssumption ==
    /\ NoAccount \notin Accounts
    /\ MaxSessions \in Nat /\ MaxMoves \in Nat

VARIABLES
    wallet,        \* the wallet the adapter is connected to
    connectOn,     \* the platform's connectEnabled
    barred,        \* blocked wallets
    token,         \* whose access token the cookie holds
    signed,        \* wallets with a signature marker in localStorage
    saved,         \* the session id stored for each wallet, 0 if none
    active,        \* activeSessionRef, 0 if none
    loop,          \* trackedSessionId of the heartbeat timer, 0 when cleared
    starting,      \* isStartingRef
    observed,      \* observedWalletAddressRef
    had,           \* hadConnectedWalletRef
    task,          \* each asynchronous function under way
    modal,         \* requestSessionSignature of the modal
    owner,         \* the wallet of each session of the API
    live,          \* the sessions of the API that have not ended
    lost,          \* history: sessions whose end or whose answer was lost
    strayed,       \* history: a run or a heartbeat went on for what was no more
    moves

tabVars == <<wallet, active, loop, starting, observed, had, task, modal, signed, saved>>
apiVars == <<connectOn, barred, token, owner, live>>
trackerVars == <<tabVars, apiVars, lost, strayed, moves>>

Ids == 1 .. MaxSessions
Maybe == Accounts \cup {NoAccount}
Idle == [stage |-> "idle", of |-> NoAccount, session |-> 0, then |-> "done", holds |-> FALSE]

TrackerInit ==
    /\ wallet = NoAccount /\ connectOn = TRUE /\ barred = {} /\ token = NoAccount
    /\ signed = {} /\ saved = [w \in Accounts |-> 0]
    /\ active = 0 /\ loop = 0 /\ starting = FALSE /\ observed = NoAccount /\ had = FALSE
    /\ task = [t \in Tasks |-> Idle] /\ modal = [stage |-> "none", of |-> NoAccount]
    /\ owner = [s \in Ids |-> NoAccount] /\ live = {} /\ lost = {} /\ strayed = FALSE
    /\ moves = 0

FreeTask(t) == task[t].stage = "idle"
\* saveStoredSession, clearStoredWalletUserSession.
Stores(w, s) == saved' = [saved EXCEPT ![w] = s]
To(t, stage) == task' = [task EXCEPT ![t].stage = stage]
Handling(what) == \E t \in Tasks : task[t].stage # "idle" /\ task[t].then = what
\* What ends a function resets isStartingRef if it is the one that set it.
Finish(t) ==
    /\ task' = [task EXCEPT ![t] = Idle]
    /\ starting' = (starting /\ ~task[t].holds)

-----------------------------------------------------------------------------
(* Ending the session.                                                      *)

\* closeActiveSession up to its first await; then is what its caller does afterwards.
Close(t, w, then, holds) ==
    /\ active' = 0 /\ loop' = 0
    /\ task' = [task EXCEPT ![t] =
         [stage |-> IF active = 0 THEN "leaving" ELSE "ending", of |-> w, session |-> active,
          then |-> then, holds |-> holds]]
\* Mutant: only the tab forgets the session.
EndedOnlyHere(s) == lost' = lost /\ live' = live
\* endWalletUserSession: the API ends it if the token is of its wallet and the request
\* gets there.
Ended(s) ==
    \/ token = owner[s] /\ live' = live \ {s} /\ lost' = lost
    \/ lost' = lost \cup {s} /\ live' = live
End(t) ==
    /\ task[t].stage = "ending" /\ To(t, "leaving")
    /\ Ended(task[t].session)
    /\ Stores(owner[task[t].session], 0)
    /\ UNCHANGED <<wallet, connectOn, barred, token, signed, active, loop, starting, observed,
                   had, modal, owner, strayed, moves>>

\* Mutant: the tracker never sees a switch.
SwitchedNever(w) == FALSE
\* The wallet is another than at the last run.
Switched(w) == observed \notin {NoAccount, w}
\* syncSession up to its first await, run when the wallet is w: not at all while another
\* run is starting a session.
SyncBegins(t, w) ==
    \/ /\ starting /\ strayed' = TRUE
       /\ task' = [task EXCEPT ![t] = Idle]
       /\ UNCHANGED <<active, loop, observed, had, saved>>
    \/ /\ ~starting /\ w = NoAccount
       /\ observed' = NoAccount /\ had' = FALSE
       /\ IF had \/ active # 0
          THEN Close(t, w, "done", FALSE)
          ELSE loop' = 0 /\ task' = [task EXCEPT ![t] = Idle] /\ UNCHANGED active
       /\ UNCHANGED <<saved, strayed>>
    \/ /\ ~starting /\ w # NoAccount /\ ~Switched(w)
       /\ had' = TRUE /\ observed' = w
       /\ task' = [task EXCEPT ![t] = [Idle EXCEPT !.stage = "gating", !.of = w]]
       /\ UNCHANGED <<active, loop, saved, strayed>>
    \/ /\ ~starting /\ w # NoAccount /\ Switched(w)
       /\ had' = TRUE /\ Stores(observed, 0)
       /\ Close(t, w, "observe", FALSE)
       /\ UNCHANGED <<observed, strayed>>

\* logoutWalletAuth, best effort, and then what the caller of closeActiveSession does.
\* That a cleared marker runs the tracker again is left out: it would find no marker.
Leave(t) ==
    /\ task[t].stage = "leaving"
    /\ token' \in {token, NoAccount}
    /\ LET w == task[t].of  then == task[t].then IN
       \/ /\ then = "done" /\ Finish(t)
          /\ UNCHANGED <<signed, saved, observed, strayed>>
       \/ /\ then = "observe" /\ observed' = w
          /\ task' = [task EXCEPT ![t] = [Idle EXCEPT !.stage = "gating", !.of = w]]
          /\ strayed' = (strayed \/ wallet # w)
          /\ UNCHANGED <<signed, saved, starting>>
       \/ /\ then \in {"reauth", "bar", "disable"}
          /\ signed' = signed \ {w} /\ Stores(w, 0)
          /\ IF then = "reauth"
             THEN Finish(t)
             ELSE /\ task' = [task EXCEPT ![t] = [Idle EXCEPT !.stage = "dropping"]]
                  /\ starting' = (starting /\ ~task[t].holds)
          /\ UNCHANGED <<observed, strayed>>
    /\ UNCHANGED <<wallet, connectOn, barred, active, loop, had, modal, owner, live, lost, moves>>
\* forceBlockedLogout and forceConnectDisabledLogout disconnect whatever wallet is there.
Drop(t) ==
    /\ task[t].stage = "dropping" /\ wallet' = NoAccount
    /\ SyncBegins(t, NoAccount)
    /\ UNCHANGED <<connectOn, barred, token, signed, starting, modal, owner, live, lost, moves>>

-----------------------------------------------------------------------------
(* syncSession after its first await, and what it asks of the API.          *)

\* A forced logout under way for one reason is not begun again.
ForcedLogout(t, w, what, holds) ==
    IF Handling(what)
    THEN /\ task' = [task EXCEPT ![t] = Idle] /\ UNCHANGED <<active, loop>>
         /\ starting' = (starting /\ ~holds)
    ELSE Close(t, w, what, holds) /\ UNCHANGED starting
\* fetchPublicConnectEnabled.
Gate(t) ==
    /\ task[t].stage = "gating"
    /\ IF connectOn
       THEN To(t, "checking") /\ UNCHANGED <<active, loop, starting>>
       ELSE ForcedLogout(t, task[t].of, "disable", FALSE)
    /\ UNCHANGED <<wallet, connectOn, barred, token, signed, saved, observed, had, modal, owner,
                   live, lost, strayed, moves>>
\* checkWalletAccess, which lets in when it fails; then a session of this wallet or a
\* missing marker ends the run.
Check(t) ==
    /\ task[t].stage = "checking"
    /\ LET w == task[t].of IN
       \/ /\ w \in barred /\ ForcedLogout(t, w, "bar", FALSE) /\ UNCHANGED strayed
       \/ /\ w \notin signed \/ (active # 0 /\ owner[active] = w)
          /\ Finish(t) /\ UNCHANGED <<active, loop, strayed>>
       \/ /\ w \in signed /\ (active # 0 => owner[active] # w)
          /\ starting' = TRUE
          /\ strayed' = (strayed \/ starting \/ wallet # w)
          /\ task' = [task EXCEPT ![t] =
               [@ EXCEPT !.stage = IF saved[w] = 0 THEN "starting" ELSE "beating",
                         !.session = saved[w], !.holds = TRUE]]
          /\ UNCHANGED <<active, loop>>
    /\ UNCHANGED <<wallet, connectOn, barred, token, signed, saved, observed, had, modal, owner,
                   live, lost, moves>>

Served(w) == token = w /\ connectOn /\ w \notin barred
Fresh == {s \in Ids : owner[s] = NoAccount /\ \A r \in Ids : owner[r] = NoAccount => s <= r}
Created(w, s) == owner' = [owner EXCEPT ![s] = w] /\ live' = live \cup {s}
Kept == UNCHANGED <<owner, live>>
\* The run ends with s as the session of the tab, whatever became of the wallet.
Begun(t, w, s) ==
    /\ Stores(w, s) /\ active' = s /\ loop' = s
    /\ lost' = lost \cup ({active} \ {0, s})
    /\ Finish(t)
\* handleSessionError: 401 signs the wallet out, 403 of a blocked wallet also disconnects.
Refused(t, w) ==
    /\ \/ token # w /\ Close(t, w, "reauth", task[t].holds) /\ UNCHANGED starting
       \/ token = w /\ w \in barred /\ ForcedLogout(t, w, "bar", task[t].holds)
    /\ Kept /\ UNCHANGED <<saved, lost>>
\* startWalletUserSession: with a stored key the API finds the open session of that key,
\* or cannot insert one; without, it creates one.  The answer may be lost.
Start(t) ==
    /\ task[t].stage = "starting"
    /\ LET w == task[t].of  s == saved[w] IN
       \/ Served(w) /\ s \in live /\ Begun(t, w, s) /\ Kept
       \/ Served(w) /\ s = 0 /\ \E n \in Fresh : Begun(t, w, n) /\ Created(w, n)
       \/ Refused(t, w)
       \/ /\ Stores(w, 0) /\ Finish(t) /\ UNCHANGED <<active, loop>>
          /\ \/ Kept /\ lost' = lost \cup ({s} \ {0})
             \/ Served(w) /\ s = 0 /\ \E n \in Fresh : Created(w, n) /\ lost' = lost \cup {n}
    /\ UNCHANGED <<wallet, connectOn, barred, token, signed, observed, had, modal, strayed, moves>>
\* heartbeatWalletUserSession of the stored session: an ended one is replaced.
Resume(t) ==
    /\ task[t].stage = "beating"
    /\ LET w == task[t].of  s == task[t].session IN
       \/ Served(w) /\ s \in live /\ Begun(t, w, s) /\ Kept
       \/ Served(w) /\ s \notin live /\ \E n \in Fresh : Begun(t, w, n) /\ Created(w, n)
       \/ Refused(t, w)
       \/ To(t, "starting") /\ Kept /\ UNCHANGED <<saved, active, loop, starting, lost>>
    /\ UNCHANGED <<wallet, connectOn, barred, token, signed, observed, had, modal, strayed, moves>>

-----------------------------------------------------------------------------
(* The heartbeat timer.                                                     *)

Ping(t) ==
    /\ FreeTask(t) /\ moves < MaxMoves /\ moves' = moves + 1
    /\ active # 0 /\ loop = active
    /\ task' = [task EXCEPT ![t] =
         [Idle EXCEPT !.stage = "pinging", !.of = owner[active], !.session = active]]
    /\ UNCHANGED <<wallet, active, loop, starting, observed, had, modal, signed, saved, apiVars,
                   lost, strayed>>
\* A replacement becomes the session of the tab though the tab may have ended the one
\* that was asked for.
Replaced(t, n) ==
    LET w == task[t].of  s == task[t].session IN
    /\ Stores(w, n) /\ active' = n
    /\ loop' = (IF loop = s THEN n ELSE loop)
    /\ lost' = lost \cup ({active} \ {0, s}) /\ strayed' = (strayed \/ active # s)
    /\ Finish(t)
Pong(t) ==
    /\ task[t].stage = "pinging"
    /\ LET w == task[t].of  s == task[t].session IN
       \/ /\ Served(w) /\ s \in live /\ Finish(t) /\ Kept
          /\ UNCHANGED <<saved, active, loop, lost, strayed>>
       \/ Served(w) /\ s \notin live /\ \E n \in Fresh : Replaced(t, n) /\ Created(w, n)
       \/ Refused(t, w) /\ UNCHANGED strayed
       \/ /\ To(t, "rechecking") /\ Kept
          /\ UNCHANGED <<saved, active, loop, starting, lost, strayed>>
    /\ UNCHANGED <<wallet, connectOn, barred, token, signed, observed, had, modal, moves>>
\* After another failure only a block matters, and only to the session asked for.
Recheck(t) ==
    /\ task[t].stage = "rechecking"
    /\ IF task[t].of \in barred /\ active = task[t].session
       THEN ForcedLogout(t, task[t].of, "bar", FALSE)
       ELSE Finish(t) /\ UNCHANGED <<active, loop>>
    /\ UNCHANGED <<wallet, observed, had, modal, signed, saved, apiVars, lost, strayed, moves>>

-----------------------------------------------------------------------------
(* The visitor, and others.                                                 *)

Moves == moves < MaxMoves /\ moves' = moves + 1
\* The adapter connects, switches or disconnects; the tracker's effect runs.
Choose(t, w) ==
    /\ FreeTask(t) /\ Moves /\ w # wallet /\ wallet' = w /\ SyncBegins(t, w)
    /\ UNCHANGED <<starting, modal, signed, apiVars, lost>>
\* A page that is left ends its session by a beacon; an end under way is kept alive, and
\* other requests are given up.
Reload ==
    /\ Moves
    /\ LET asked == {task[t].session : t \in {x \in Tasks : task[x].stage = "ending"}}
           left == asked \cup ({active} \ {0}) IN
       \E lose \in SUBSET left :
          /\ \A s \in left \ lose : token = owner[s]
          /\ live' = live \ (left \ lose) /\ lost' = lost \cup lose
    /\ saved' = [w \in Accounts |-> IF active # 0 /\ owner[active] = w THEN 0 ELSE saved[w]]
    /\ wallet' = NoAccount /\ active' = 0 /\ loop' = 0 /\ starting' = FALSE
    /\ observed' = NoAccount /\ had' = FALSE
    /\ task' = [t \in Tasks |-> Idle] /\ modal' = [stage |-> "none", of |-> NoAccount]
    /\ UNCHANGED <<signed, connectOn, barred, token, owner, strayed>>
\* The gate is looked at again every CONNECT_ENABLED_RECHECK_MS and on focus.
Regate(t) ==
    /\ FreeTask(t) /\ wallet # NoAccount /\ ~connectOn /\ ForcedLogout(t, wallet, "disable", FALSE)
    /\ ~Handling("disable")
    /\ UNCHANGED <<wallet, observed, had, modal, signed, saved, apiVars, lost, strayed, moves>>

\* The window asks when it opens or its button is pressed, and once.
MayAskSignature == modal.stage = "none" /\ wallet # NoAccount /\ wallet \notin signed
\* requestSessionSignature: access, a challenge, the wallet's signature, and its proof.
AskSignature ==
    /\ MayAskSignature
    /\ modal' = [stage |-> "signing", of |-> wallet]
    /\ UNCHANGED <<wallet, active, loop, starting, observed, had, task, signed, saved, apiVars,
                   lost, strayed, moves>>
Signs ==
    /\ modal.stage = "signing" /\ wallet = modal.of /\ connectOn /\ wallet \notin barred
    /\ token' = wallet /\ modal' = [modal EXCEPT !.stage = "marking"]
    /\ UNCHANGED <<wallet, active, loop, starting, observed, had, task, signed, saved, connectOn,
                   barred, owner, live, lost, strayed, moves>>
\* saveWalletSignatureSession runs the tracker.
Mark(t) ==
    /\ FreeTask(t) /\ modal.stage = "marking" /\ modal' = [stage |-> "none", of |-> NoAccount]
    /\ signed' = signed \cup {modal.of} /\ SyncBegins(t, wallet)
    /\ UNCHANGED <<wallet, starting, apiVars, lost, moves>>
SignFails ==
    /\ modal.stage # "none" /\ modal' = [stage |-> "none", of |-> NoAccount]
    /\ UNCHANGED <<wallet, active, loop, starting, observed, had, task, signed, saved, apiVars,
                   lost, strayed, moves>>
\* handleBlockedAccess.
SignBarred(t) ==
    /\ FreeTask(t) /\ modal.stage = "signing" /\ modal.of \in barred
    /\ modal' = [stage |-> "none", of |-> NoAccount] /\ wallet' = NoAccount
    /\ SyncBegins(t, NoAccount) /\ signed' = signed \ {modal.of}
    /\ UNCHANGED <<starting, apiVars, lost, moves>>

Turns == Moves /\ UNCHANGED <<tabVars, lost, strayed>>
\* An administrator blocks a wallet, which ends its sessions, or turns connections off.
Bar(w) ==
    /\ Turns /\ w \notin barred /\ barred' = barred \cup {w}
    /\ live' = {s \in live : owner[s] # w} /\ UNCHANGED <<connectOn, token, owner>>
TurnOff == Turns /\ connectOn /\ connectOn' = FALSE /\ UNCHANGED <<barred, token, owner, live>>
TokenExpires ==
    Turns /\ token # NoAccount /\ token' = NoAccount /\ UNCHANGED <<connectOn, barred, owner, live>>
\* A session not heard of for a while is closed by the API.
Sweep(s) == Turns /\ s \in live /\ live' = live \ {s} /\ UNCHANGED <<connectOn, barred, token, owner>>

TrackerNext ==
    \/ \E t \in Tasks :
          \/ End(t) \/ Leave(t) \/ Drop(t) \/ Gate(t) \/ Check(t) \/ Start(t) \/ Resume(t)
          \/ Ping(t) \/ Pong(t) \/ Recheck(t) \/ Regate(t) \/ Mark(t) \/ SignBarred(t)
          \/ \E w \in Maybe : Choose(t, w)
    \/ Reload \/ AskSignature \/ Signs \/ SignFails \/ TurnOff \/ TokenExpires
    \/ \E w \in Accounts : Bar(w)
    \/ \E s \in Ids : Sweep(s)
TrackerSpec == TrackerInit /\ [][TrackerNext]_trackerVars

-----------------------------------------------------------------------------
\* Types.
TrackerTypeOK ==
    /\ wallet \in Maybe /\ token \in Maybe /\ observed \in Maybe
    /\ barred \subseteq Accounts /\ signed \subseteq Accounts
    /\ {connectOn, starting, had, strayed} \subseteq BOOLEAN
    /\ saved \in [Accounts -> Ids \cup {0}] /\ owner \in [Ids -> Maybe]
    /\ {active, loop} \subseteq Ids \cup {0} /\ live \subseteq Ids /\ lost \subseteq Ids

AtRest == modal.stage = "none" /\ \A t \in Tasks : FreeTask(t)

\* At rest, the session the tab keeps is of the wallet that is connected; unless a run
\* was skipped because another was starting, started beside another or went on for a wallet
\* that is no longer there, or a heartbeat came back for a session already left
\* (UserSessionTracker.tsx, syncSession).
SessionIsOfTheWallet == AtRest /\ ~strayed /\ active # 0 => owner[active] = wallet

\* At rest, what is still open at the API is the tab's session, or the network lost its end
\* or its answer (closeActiveSession, endWalletUserSession).
OpenSessionsAreKnown == AtRest => live \subseteq {active} \cup lost
=============================================================================
