----------------------------- MODULE AdminPanels -----------------------------
(***************************************************************************)
(* An administrator's browser tab: the session it believes in, and, below, *)
(* the administrators' pages (src/apps/web/components/admin) and the one   *)
(* function all their requests go through, requestJson                     *)
(* (src/apps/web/lib/api/api-request.ts): it remembers answers of GET      *)
(* requests for some seconds, lets equal GET requests share one call, and  *)
(* forgets every answer when something is about to be changed.             *)
(*                                                                         *)
(* A page is data here: what it loads together, and its handlers: what     *)
(* each one changes, whether the answer is put into what the page shows,   *)
(* and what it loads afterwards.  What is stored is a set of changes, so   *)
(* that a list can miss one change and show another.                       *)
(***************************************************************************)
EXTENDS Naturals, FiniteSets

-----------------------------------------------------------------------------
(* The tab: signing in at /admin/login, the store useAdminAuth             *)
(* (src/apps/web/store/admin/use-admin-auth.ts) that the pages ask whether *)
(* somebody is signed in, and signing out.  The session itself is a cookie *)
(* the tab cannot read; beside it stands a hint it can read, and in the    *)
(* storage of the tab a marker that it was signed out.                     *)
CONSTANTS MaxSignIns, MaxVisits
ASSUME AdminSessionAssumption == MaxSignIns \in Nat /\ MaxVisits \in Nat

VARIABLES
    cookie,      \* the session cookie is valid
    hint,        \* the cookie solera_admin_state is there
    marker,      \* solera_admin_signed_out in the storage of the tab
    place,       \* the page of the tab
    authed,      \* isAuthenticated of the store
    profile,     \* the GET of the profile under way
    signing,     \* handleAuthenticate of the login page
    leaving,     \* handleLogout of the layout
    gone,        \* history: signed out here, and not in again
    overtaken,       \* history: a profile was asked for while that happened
    signIns, visits

adminSessionVars == <<cookie, hint, marker, place, authed, profile, signing, leaving, gone, overtaken,
                      signIns, visits>>

AdminSessionInit ==
    /\ cookie \in BOOLEAN /\ hint = cookie /\ marker = FALSE
    /\ place = "elsewhere" /\ authed = FALSE
    /\ profile = "none" /\ signing = "none" /\ leaving = "none"
    /\ gone = FALSE /\ overtaken = FALSE /\ signIns = 0 /\ visits = 0

\* Mutant: a forced load does not look at the marker.
MayAskForced(force) == force \/ (~marker /\ hint)
\* loadProfile: without a marker, and when forced or hinted at, the profile is asked for.
MayAsk(force) == ~marker /\ (force \/ hint)
\* An equal request under way is waited for.
LoadProfile(force) ==
    IF MayAsk(force)
    THEN /\ profile' = IF profile = "none" THEN "sent" ELSE profile
         /\ overtaken' = (overtaken \/ leaving # "none")
         /\ UNCHANGED authed
    ELSE authed' = FALSE /\ UNCHANGED <<profile, overtaken>>

\* A visit starts the page anew: what was under way in it is gone.
Visit(where) ==
    /\ visits < MaxVisits /\ visits' = visits + 1
    /\ place' = where /\ signing' = "none" /\ leaving' = "none"
    /\ IF MayAsk(where = "panel") THEN profile' = "sent" ELSE profile' = "none"
    /\ authed' = FALSE
    /\ gone' = (gone \/ leaving = "sent")
    /\ UNCHANGED <<cookie, hint, marker, overtaken, signIns>>
\* Within the page, being signed in leads to the panel and not being so to the login.
Redirect ==
    /\ \/ place = "login" /\ authed /\ place' = "panel" /\ LoadProfile(TRUE)
       \/ place = "panel" /\ ~authed /\ profile = "none" /\ leaving = "none" /\ place' = "login"
          /\ LoadProfile(FALSE)
    /\ UNCHANGED <<cookie, hint, marker, signing, leaving, gone, signIns, visits>>

\* The API answers by the cookie it is sent; the store takes the answer.
ProfileServed ==
    /\ profile = "sent" /\ profile' = IF cookie THEN "accepted" ELSE "refused"
    /\ UNCHANGED <<cookie, hint, marker, place, authed, signing, leaving, gone, overtaken, signIns, visits>>
ProfileAccepted ==
    /\ profile = "accepted" /\ profile' = "none"
    /\ marker' = FALSE /\ authed' = TRUE
    /\ UNCHANGED <<cookie, hint, place, signing, leaving, gone, overtaken, signIns, visits>>
\* A refusal takes both cookies with it, be they newer than what was refused.
ProfileRefused ==
    /\ profile = "refused" /\ profile' = "none"
    /\ cookie' = FALSE /\ hint' = FALSE /\ authed' = FALSE
    /\ UNCHANGED <<marker, place, signing, leaving, gone, overtaken, signIns, visits>>
ProfileLost ==
    /\ profile = "sent" /\ profile' = "none"
    /\ authed' = FALSE
    /\ UNCHANGED <<cookie, hint, marker, place, signing, leaving, gone, overtaken, signIns, visits>>

\* handleAuthenticate: a challenge, a signature, and the answer that sets the cookies.
AskChallenge ==
    /\ place = "login" /\ signing = "none" /\ signIns < MaxSignIns
    /\ signing' = "signing" /\ signIns' = signIns + 1
    /\ UNCHANGED <<cookie, hint, marker, place, authed, profile, leaving, gone, overtaken, visits>>
Verified ==
    /\ signing = "signing" /\ signing' = "verified"
    /\ cookie' = TRUE /\ hint' = TRUE
    /\ UNCHANGED <<marker, place, authed, profile, leaving, gone, overtaken, signIns, visits>>
SignedIn ==
    /\ signing = "verified" /\ signing' = "none"
    /\ marker' = FALSE /\ authed' = TRUE /\ gone' = FALSE
    /\ overtaken' = (leaving # "none")
    /\ UNCHANGED <<cookie, hint, place, profile, leaving, signIns, visits>>
\* The proxy drops the hint when the API refused what was signed.
SignInFails ==
    /\ signing # "none" /\ signing' = "none"
    /\ authed' = (IF signing = "verified" THEN FALSE ELSE authed)
    /\ hint' \in (IF signing = "verified" THEN {hint} ELSE {hint, FALSE})
    /\ UNCHANGED <<cookie, marker, place, profile, leaving, gone, overtaken, signIns, visits>>

\* handleLogout: the marker is set and the hint dropped before the API is asked, whose
\* answer drops the session cookie; whatever it says, the tab starts anew at the login.
MarkSignedOut == marker' = TRUE /\ hint' = FALSE
Leave ==
    /\ place = "panel" /\ authed /\ leaving = "none" /\ leaving' = "sent"
    /\ MarkSignedOut
    /\ overtaken' = (overtaken \/ profile # "none")
    /\ UNCHANGED <<cookie, place, authed, profile, signing, gone, signIns, visits>>
Left ==
    /\ leaving = "sent" /\ leaving' = "none"
    /\ cookie' \in {cookie, FALSE} /\ MarkSignedOut
    /\ authed' = FALSE /\ gone' = TRUE /\ place' = "login" /\ signing' = "none"
    /\ UNCHANGED <<profile, overtaken, signIns, visits>>
\* Another tab of the browser signs in.
OtherTabSignsIn ==
    /\ ~cookie /\ signIns < MaxSignIns /\ signIns' = signIns + 1
    /\ cookie' = TRUE /\ hint' = TRUE
    /\ UNCHANGED <<marker, place, authed, profile, signing, leaving, gone, overtaken, visits>>

AdminSessionNext ==
    \/ \E where \in {"login", "panel"} : Visit(where)
    \/ Redirect \/ ProfileServed \/ ProfileAccepted \/ ProfileRefused \/ ProfileLost
    \/ AskChallenge \/ Verified \/ SignedIn \/ SignInFails \/ Leave \/ Left \/ OtherTabSignsIn
AdminSessionSpec == AdminSessionInit /\ [][AdminSessionNext]_adminSessionVars

-----------------------------------------------------------------------------
\* Types.
AdminSessionTypeOK ==
    /\ {cookie, hint, marker, authed, gone, overtaken} \subseteq BOOLEAN
    /\ place \in {"elsewhere", "login", "panel"}
    /\ profile \in {"none", "sent", "accepted", "refused"}
    /\ signing \in {"none", "signing", "verified"} /\ leaving \in {"none", "sent"}

\* Who signed out of a tab stays so until signing in there again, though the API never
\* heard of it or another tab signed in; unless a profile was on its way at that moment
\* (use-admin-auth.ts, logout and loadProfile).
SignedOutStays == gone /\ ~overtaken => ~authed

-----------------------------------------------------------------------------
(* The pages and the requests they share. *)
CONSTANTS
    Pages,       \* the pages that are opened
    Runs,        \* handlers of the page under way at once
    MaxChanges,  \* changes in all, by this page and by other administrators
    MaxRuns      \* handlers and loads started in all

ASSUME PanelsAssumption ==
    /\ Pages \subseteq {"news", "header", "maintenance", "docs", "users", "control", "tokens",
                        "ohlc", "ra", "staking", "metrics", "audit", "dashboard", "blog"}
    /\ MaxChanges \in Nat /\ MaxRuns \in Nat

VARIABLES
    page,       \* the page that is open
    stored,     \* by resource, the changes the API holds
    memo,       \* responseCache: by resource, the answer that is remembered
    gets,       \* inFlightRequests: by resource, the call under way
    shown,      \* by resource, what the page shows
    runs,       \* the page's loads and handlers under way
    late,       \* changes sent by handlers that gave up waiting
    mine,       \* history: changes of this page that were answered
    mixed,    \* history: resources read and changed at the same time, or not read again
    changes, started

panelVars == <<page, stored, memo, gets, shown, runs, late, mine, mixed, changes, started>>

-----------------------------------------------------------------------------
(* The pages.  A load asks for its resources together; those in "keeps"    *)
(* are remembered.  A handler changes one resource: an item of it, or the  *)
(* whole of it from the form; "applies" tells that its answer is put into  *)
(* what is shown, "then" which load follows; handlers of one controller    *)
(* ("busy") wait for each other, and a controller held to the end of the   *)
(* reload is released only then.                                           *)

Load(keys, keeps) == [keys |-> keys, keeps |-> keys \cap keeps]
NoLoad == Load({}, {})
Handler(changes_, whole, applies, then, busy) ==
    [key |-> changes_, whole |-> whole, applies |-> applies, then |-> then, busy |-> busy,
     holds |-> FALSE]
Holding2(handler) == [handler EXCEPT !.holds = TRUE]

\* What the loads keep: the fetches of src/apps/web/lib/admin that name a time to live.
NewsKept == {}
HeaderKept == {"header"}
MaintenanceKept == {"maintenance"}
DocsKept == {"docsSettings"}
UsersKept == {"users", "metrics", "user"}
ProxyKept == {"proxy"}
AdminsKept == {"admins"}
TokensKept == {"tokens", "pricing"}
ConfigsKept == {"configs"}
OhlcKept == {"ohlc", "pairs"}
RaKept == {"ra", "header"}
StakingKept == {"staking", "configs", "batches"}
AuditKept == {"audit"}
PostsKept == {"posts"}

\* AdminNewsPage: the list is asked for anew each time; answers are merged into it.
NewsList == Load({"news"}, NewsKept)
NewsSave == Handler("news", FALSE, TRUE, NoLoad, "news")
NewsToggle == Handler("news", FALSE, TRUE, NoLoad, "news")
NewsRemove == Handler("news", FALSE, TRUE, NoLoad, "news")
NewsPage == [loads |-> {NewsList}, handlers |-> {NewsSave, NewsToggle, NewsRemove}]

\* AdminHeaderPage: save and reset send the whole form and take the answer over.
HeaderLoad == Load({"header"}, HeaderKept)
HeaderSave == Handler("header", TRUE, TRUE, NoLoad, "header")
HeaderReset == Handler("header", TRUE, TRUE, NoLoad, "header")
HeaderPage == [loads |-> {HeaderLoad}, handlers |-> {HeaderSave, HeaderReset}]

\* MaintenanceContent: save, activate and deactivate are one handler on the whole form.
MaintenanceLoad == Load({"maintenance"}, MaintenanceKept)
MaintenanceSave == Handler("maintenance", TRUE, TRUE, NoLoad, "maintenance")
MaintenancePage == [loads |-> {MaintenanceLoad}, handlers |-> {MaintenanceSave}]

\* AdminDocsPage: settings are taken over, categories and pages are loaded again, and
\* the load brings the settings too.
DocsLoad == Load({"docs", "docsSettings"}, DocsKept)
DocsSaveSettings == Handler("docsSettings", TRUE, TRUE, NoLoad, "docs")
DocsSaveCategory == Handler("docs", FALSE, FALSE, DocsLoad, "docs")
DocsSavePage == Handler("docs", FALSE, FALSE, DocsLoad, "docs")
DocsDelete == Handler("docs", FALSE, FALSE, DocsLoad, "docs")
DocsPage == [loads |-> {DocsLoad},
             handlers |-> {DocsSaveSettings, DocsSaveCategory, DocsSavePage, DocsDelete}]

\* AdminUsersPage: list and metrics every thirty seconds, remembered then; blocking and
\* deleting load both again.
UsersList == Load({"users"}, {})
UsersPoll == Load({"users"}, UsersKept)
UsersMetrics == Load({"metrics"}, UsersKept)
UsersDetail == Load({"user"}, UsersKept)
UsersDelete == Handler("users", FALSE, FALSE, UsersList, "delete")
UsersBlock == Handler("users", FALSE, FALSE, UsersList, "block")
UsersPage == [loads |-> {UsersList, UsersPoll, UsersMetrics, UsersDetail},
              handlers |-> {UsersDelete, UsersBlock}]

\* AdminControlPage: three proxy handlers with a controller each, and the
\* administrators, whose handlers wait for the reload of the list.
ControlProxy == Load({"proxy"}, ProxyKept)
ControlAdmins == Load({"admins"}, AdminsKept)
ControlDraft == Handler("proxy", FALSE, TRUE, NoLoad, "draft")
ControlPublish == Handler("proxy", FALSE, TRUE, NoLoad, "publish")
ControlRollback == Handler("proxy", FALSE, TRUE, NoLoad, "rollback")
ControlSaveAdmin == Holding2(Handler("admins", FALSE, FALSE, ControlAdmins, "save"))
ControlDeleteAdmin == Holding2(Handler("admins", FALSE, FALSE, ControlAdmins, "delete"))
ControlCreateAdmin == Handler("admins", FALSE, FALSE, ControlAdmins, "create")
ControlDeleteRole == Holding2(Handler("admins", FALSE, FALSE, ControlAdmins, "role"))
ControlPage ==
    [loads |-> {ControlProxy, ControlAdmins},
     handlers |-> {ControlDraft, ControlPublish, ControlRollback, ControlSaveAdmin,
                   ControlDeleteAdmin, ControlCreateAdmin, ControlDeleteRole}]

\* TokensContent: tokens, pricing runtime and projections; saving and deleting a token
\* take no controller.
TokensList == Load({"tokens"}, TokensKept)
TokensRuntime == Load({"pricing"}, TokensKept)
TokensProjection == Load({"configs"}, ConfigsKept)
TokensSaveRuntime == Handler("pricing", TRUE, TRUE, TokensList, "runtime")
TokensSync == Handler("pricing", FALSE, TRUE, TokensList, "sync")
TokensReload == Load({"tokens", "configs"}, TokensKept \cup ConfigsKept)
TokensSave == Handler("tokens", FALSE, FALSE, TokensReload, "none")
TokensDelete == Handler("tokens", FALSE, FALSE, TokensReload, "none")
TokensPage == [loads |-> {TokensList, TokensRuntime, TokensProjection},
               handlers |-> {TokensSaveRuntime, TokensSync, TokensSave, TokensDelete}]

\* OhlcContent: settings and pairs are loaded together; handlers of pairs take no
\* controller into account.
OhlcLoad == Load({"ohlc", "pairs"}, OhlcKept)
OhlcSaveRuntime == Handler("ohlc", TRUE, TRUE, NoLoad, "runtime")
OhlcSync == Handler("ohlc", FALSE, TRUE, NoLoad, "sync")
OhlcSavePair == Handler("pairs", FALSE, FALSE, OhlcLoad, "none")
OhlcFeature == Handler("ohlc", FALSE, TRUE, OhlcLoad, "none")
OhlcRemovePair == Handler("pairs", FALSE, FALSE, OhlcLoad, "none")
OhlcCreatePair == Handler("pairs", FALSE, FALSE, OhlcLoad, "create")
OhlcPage == [loads |-> {OhlcLoad},
             handlers |-> {OhlcSaveRuntime, OhlcSync, OhlcSavePair, OhlcFeature,
                           OhlcRemovePair, OhlcCreatePair}]

\* RaContent: the whole form is saved and the answer taken over; the migration of stored
\* rows changes nothing the page shows.
RaLoad == Load({"ra", "header"}, RaKept)
RaSave == Handler("ra", TRUE, TRUE, NoLoad, "save")
RaPage == [loads |-> {RaLoad}, handlers |-> {RaSave}]

\* StakingAdminContent: preparing a batch, syncing and executing load all three again.
StakingLoad == Load({"staking", "configs", "batches"}, StakingKept)
StakingSync == Handler("configs", FALSE, FALSE, StakingLoad, "mirror")
StakingPrepare == Handler("batches", FALSE, FALSE, StakingLoad, "coverage")
StakingExecute == Handler("staking", FALSE, FALSE, StakingLoad, "execute")
StakingPage == [loads |-> {StakingLoad}, handlers |-> {StakingSync, StakingPrepare, StakingExecute}]

\* The pages that only read.
MetricsLoad == Load({"metrics", "audit", "ohlc"}, AuditKept)
MetricsPoll == Load({"metrics", "audit", "ohlc"}, AuditKept \cup OhlcKept)
MetricsPage == [loads |-> {MetricsLoad, MetricsPoll}, handlers |-> {}]
AuditStatus == Load({"audit"}, AuditKept)
AuditLogs == Load({"logs"}, {})
AuditPage == [loads |-> {AuditStatus, AuditLogs}, handlers |-> {}]
DashboardLoad == Load({"infra", "metrics", "staking"}, {"infra", "metrics", "staking"})
DashboardPage == [loads |-> {DashboardLoad}, handlers |-> {}]

\* AdminBlogListPage and the form it leads to: deleting takes the post out of the list;
\* saving a post leads back to the list, which is loaded.
BlogList == Load({"posts"}, PostsKept)
BlogDelete == Handler("posts", FALSE, TRUE, NoLoad, "none")
BlogSave == Handler("posts", FALSE, FALSE, BlogList, "none")
BlogCreate == Handler("posts", FALSE, FALSE, BlogList, "none")
BlogPages == [loads |-> {BlogList}, handlers |-> {BlogDelete, BlogSave, BlogCreate}]

PageNamed(name) ==
    CASE name = "news" -> NewsPage [] name = "header" -> HeaderPage
      [] name = "maintenance" -> MaintenancePage [] name = "docs" -> DocsPage
      [] name = "users" -> UsersPage [] name = "control" -> ControlPage
      [] name = "tokens" -> TokensPage [] name = "ohlc" -> OhlcPage
      [] name = "ra" -> RaPage [] name = "staking" -> StakingPage
      [] name = "metrics" -> MetricsPage [] name = "audit" -> AuditPage
      [] name = "dashboard" -> DashboardPage [] name = "blog" -> BlogPages

Here == PageNamed(page)
KeysHere == UNION {l.keys : l \in Here.loads}

-----------------------------------------------------------------------------
NoRun == [step |-> "none", load |-> NoLoad, handler |-> Handler("", FALSE, FALSE, NoLoad, "none"),
          need |-> {}, got |-> [k \in {} |-> {}], sent |-> {}]
NoGet == [stage |-> "idle", keeps |-> FALSE, answer |-> {}, waiting |-> {}]
Forgotten == [known |-> FALSE, answer |-> {}]

PanelsInit ==
    /\ page \in Pages
    /\ stored = [k \in KeysHere |-> {}] /\ shown = stored /\ mine = [k \in KeysHere |-> {}]
    /\ memo = [k \in KeysHere |-> Forgotten] /\ gets = [k \in KeysHere |-> NoGet]
    /\ runs = [r \in Runs |-> NoRun] /\ late = {}
    /\ mixed = {} /\ changes = 0 /\ started = 0

ChangingBut(r, k) ==
    \/ \E q \in Runs \ {r} : runs[q].step \in {"asked", "changed"} /\ runs[q].handler.key = k
    \/ \E w \in late : w.key = k

Reading(k) == \E r \in Runs : runs[r].step = "loading" /\ k \in runs[r].load.keys

(* requestJson for the resources of a load: what is remembered is taken,   *)
(* what is under way is waited for, the rest is asked for.                 *)
Missing(load) == {k \in load.keys : ~memo[k].known}
AskFor(r, load) ==
    [k \in KeysHere |->
        CASE k \notin Missing(load) -> gets[k]
          [] k \in Missing(load) /\ gets[k].stage = "idle" ->
                [stage |-> "sent", keeps |-> k \in load.keeps, answer |-> {}, waiting |-> {r}]
          [] OTHER -> [gets[k] EXCEPT !.waiting = @ \cup {r}]]
Remembered(load) == [k \in load.keys |-> memo[k].answer]
Crossing(r, load) == {k \in load.keys : ChangingBut(r, k)}

\* The run ends at once when everything is remembered.
BeginLoad(r, load, handler, showing) ==
    /\ gets' = AskFor(r, load)
    /\ mixed' = mixed \cup Crossing(r, load)
    /\ runs' = [runs EXCEPT ![r] =
          IF Missing(load) = {} THEN NoRun
          ELSE [step |-> "loading", load |-> load, handler |-> handler, need |-> Missing(load),
                got |-> Remembered(load), sent |-> {}]]
    /\ shown' = IF Missing(load) = {} THEN [k \in KeysHere |-> IF k \in load.keys THEN memo[k].answer
                                                           ELSE showing[k]]
                ELSE showing

Free == {r \in Runs : runs[r].step = "none"}
OneFree == CHOOSE r \in Free : TRUE

\* An effect, a timer or a button starts a load.
StartLoad(load) ==
    /\ Free # {} /\ started < MaxRuns /\ started' = started + 1
    /\ BeginLoad(OneFree, load, NoRun.handler, shown)
    /\ UNCHANGED <<page, stored, memo, late, mine, changes>>

Busy(controller) ==
    \E r \in Runs : /\ runs[r].handler.busy = controller
                    /\ \/ runs[r].step \in {"asked", "changed"}
                       \/ runs[r].step = "loading" /\ runs[r].handler.holds

\* Mutant: what is remembered stays.
KeptOnChange(remembered) == remembered
\* A mutation first forgets every answer; calls under way go on.
ForgottenOnChange(remembered) == [k \in KeysHere |-> Forgotten]

\* A handler starts, and sends what it changes; a form is sent as it is shown.
StartHandler(handler) ==
    /\ Free # {} /\ started < MaxRuns /\ started' = started + 1
    /\ changes < MaxChanges /\ changes' = changes + 1
    /\ handler.busy = "none" \/ ~Busy(handler.busy)
    /\ memo' = ForgottenOnChange(memo)
    /\ runs' = [runs EXCEPT ![OneFree] =
          [NoRun EXCEPT !.step = "asked", !.handler = handler,
              !.sent = {changes'} \cup (IF handler.whole THEN shown[handler.key] ELSE {})]]
    /\ mixed' = mixed \cup {k \in {handler.key} : Reading(k) \/ ChangingBut(OneFree, k)}
    /\ UNCHANGED <<page, stored, gets, shown, late, mine>>

After(key, whole, sent) == IF whole THEN sent ELSE stored[key] \cup sent

\* The API carries a change out, and answers a request.
Change(r) ==
    LET run == runs[r] IN
    /\ run.step = "asked"
    /\ stored' = [stored EXCEPT ![run.handler.key] = After(run.handler.key, run.handler.whole, run.sent)]
    /\ runs' = [runs EXCEPT ![r].step = "changed",
                            ![r].got = [k \in {run.handler.key} |-> stored'[k]]]
    /\ UNCHANGED <<page, memo, gets, shown, late, mine, mixed, changes, started>>
AnswerGet(k) ==
    /\ gets[k].stage = "sent"
    /\ gets' = [gets EXCEPT ![k].stage = "answered", ![k].answer = stored[k]]
    /\ UNCHANGED <<page, stored, memo, shown, runs, late, mine, mixed, changes, started>>
LateChange ==
    \E w \in late :
        /\ stored' = [stored EXCEPT ![w.key] = After(w.key, w.whole, w.sent)]
        /\ late' = late \ {w}
        /\ UNCHANGED <<page, memo, gets, shown, runs, mine, mixed, changes, started>>
OtherChanges(k) ==
    /\ changes < MaxChanges /\ changes' = changes + 1
    /\ stored' = [stored EXCEPT ![k] = @ \cup {changes'}]
    /\ UNCHANGED <<page, memo, gets, shown, runs, late, mine, mixed, started>>

\* The answer to a change arrives: a form takes all of it over, a list the one item; then
\* the page loads again.
Taken(run) ==
    [shown EXCEPT ![run.handler.key] =
        CASE ~run.handler.applies -> @
          [] run.handler.whole -> run.got[run.handler.key]
          [] OTHER -> @ \cup run.sent]
Changed(r) ==
    LET run == runs[r] IN
    /\ run.step = "changed"
    /\ mine' = [mine EXCEPT ![run.handler.key] = @ \cup run.sent]
    /\ IF run.handler.then = NoLoad
       THEN shown' = Taken(run) /\ runs' = [runs EXCEPT ![r] = NoRun] /\ UNCHANGED <<gets, mixed>>
       ELSE BeginLoad(r, run.handler.then, run.handler, Taken(run))
    /\ UNCHANGED <<page, stored, memo, late, changes, started>>
\* It fails, or nobody waits for it any longer; it may be carried out nevertheless.
ChangeFails(r) ==
    LET run == runs[r] IN
    /\ run.step \in {"asked", "changed"}
    /\ late' \in IF run.step = "asked"
                 THEN {late, late \cup {[key |-> run.handler.key, whole |-> run.handler.whole,
                                         sent |-> run.sent]}}
                 ELSE {late}
    /\ runs' = [runs EXCEPT ![r] = NoRun]
    /\ UNCHANGED <<page, stored, memo, gets, shown, mine, mixed, changes, started>>

\* The answer to a GET arrives at everybody who waits for it; a load ends with its last.
Served(r, k, answer) ==
    LET run == runs[r] IN
    [run EXCEPT !.need = @ \ {k}, !.got = [j \in DOMAIN @ |-> IF j = k THEN answer ELSE @[j]]]
Arrives(k) ==
    LET waiting == gets[k].waiting
        now == [r \in Runs |-> IF r \in waiting THEN Served(r, k, gets[k].answer) ELSE runs[r]]
        done == {r \in waiting : now[r].need = {}}
        showers(j) == {r \in done : j \in now[r].load.keys}
    IN  /\ gets[k].stage = "answered"
        /\ memo' = IF gets[k].keeps
                   THEN [memo EXCEPT ![k] = [known |-> TRUE, answer |-> gets[k].answer]] ELSE memo
        /\ gets' = [gets EXCEPT ![k] = NoGet]
        /\ runs' = [r \in Runs |-> IF r \in done THEN NoRun ELSE now[r]]
        /\ shown' = [j \in KeysHere |-> IF showers(j) = {} THEN shown[j]
                                    ELSE now[CHOOSE r \in showers(j) : TRUE].got[j]]
        /\ UNCHANGED <<page, stored, late, mine, mixed, changes, started>>
\* It fails, or times out: all who wait for it give up, and show what they showed.
GetFails(k) ==
    /\ gets[k].stage # "idle"
    /\ mixed' = mixed \cup UNION {runs[r].load.keys : r \in gets[k].waiting}
    /\ runs' = [r \in Runs |-> IF r \in gets[k].waiting THEN NoRun ELSE runs[r]]
    /\ gets' = [j \in KeysHere |-> IF j = k THEN NoGet
                               ELSE [gets[j] EXCEPT !.waiting = @ \ gets[k].waiting]]
    /\ UNCHANGED <<page, stored, memo, shown, late, mine, changes, started>>
MemoExpires(k) ==
    /\ memo[k].known /\ memo' = [memo EXCEPT ![k] = Forgotten]
    /\ UNCHANGED <<page, stored, gets, shown, runs, late, mine, mixed, changes, started>>

PanelsNext ==
    \/ \E load \in Here.loads : StartLoad(load)
    \/ \E handler \in Here.handlers : StartHandler(handler)
    \/ \E r \in Runs : Change(r) \/ Changed(r) \/ ChangeFails(r)
    \/ \E k \in KeysHere : AnswerGet(k) \/ OtherChanges(k) \/ Arrives(k) \/ GetFails(k) \/ MemoExpires(k)
    \/ LateChange
PanelsSpec == PanelsInit /\ [][PanelsNext]_panelVars

-----------------------------------------------------------------------------
\* Types.
PanelsTypeOK ==
    /\ page \in Pages /\ late \subseteq [key : KeysHere, whole : BOOLEAN, sent : SUBSET (1..MaxChanges)]
    /\ \A k \in KeysHere : /\ stored[k] \subseteq 1..MaxChanges /\ shown[k] \subseteq 1..MaxChanges
                       /\ gets[k].waiting \subseteq Runs /\ memo[k].known \in BOOLEAN
    /\ \A r \in Runs : runs[r].step \in {"none", "asked", "changed", "loading"}

Quiet == \A r \in Runs : runs[r].step = "none"

\* When nothing of the page is under way, it shows every change it made that is still
\* stored; except where a read of the same resource was under way with a change of it, or
\* failed (api-request.ts, requestJson, with the handlers of every page).
ShowsItsChanges == Quiet => \A k \in KeysHere \ mixed : mine[k] \cap stored[k] \subseteq shown[k]
=============================================================================
