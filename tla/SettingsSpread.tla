---------------------------- MODULE SettingsSpread ----------------------------
(***************************************************************************)
(* How a saved setting reaches those who use it: the caches of             *)
(* UsersService, which every operation of a wallet reads, and the browser  *)
(* tabs, which fetch, poll, keep what they got for a while and hear of a   *)
(* save from the administrator's tab by two routes, the storage event and  *)
(* the BroadcastChannel.  item is the setting followed: the network of the *)
(* header settings, the rest of them (the branding, which no message tells *)
(* of) or the rules of the RA settings; what is saved is known by the      *)
(* number of the save, 0 being the defaults.                               *)
(*                                                                         *)
(* The second part is what three readers make of one saved row of the      *)
(* rules of RA: the payload of system-ra.service.ts, which the panel and   *)
(* the public page get; what a browser makes of that payload               *)
(* (ra-runtime.ts); and what users.service.ts enforces, which reads the    *)
(* row by itself.  A row is written field by field, and a field never      *)
(* written is null.  Amounts of dollars are whole numbers here; stake and  *)
(* conversion limits, the three fees and the choices are read alike, so    *)
(* there is one of each.                                                   *)
(***************************************************************************)
EXTENDS Integers, Sequences

CONSTANTS
    OpenTabs,          \* open tabs of visitors
    MaxSaves,      \* saves by administrators
    MaxFails       \* requests of a tab that fail
ASSUME SpreadAssumption == MaxSaves \in Nat /\ MaxFails \in Nat

VARIABLES
    item,          \* "network", "branding" or "rules"
    savedRow,           \* the save the database holds
    untold,        \* saves whose answer has not reached the administrator's tab
    apiCache,      \* headerRuntimeCache, raRuntimeCache
    apiReads,      \* headerRuntimeInFlight, raRuntimeInFlight: what was read
    view,          \* what the hook of each tab returns
    tabCache,      \* cachedNetwork, headerBrandingCache, raRuntimeCache of each tab
    tabMemo,          \* the response the request layer of each tab keeps
    fetching,      \* inflightRequest, raRuntimeInFlight of each tab
    mail,          \* messages on their way to each tab, by route
    fails

spreadVars == <<item, savedRow, untold, apiCache, apiReads, view, tabCache, tabMemo, fetching, mail, fails>>
tabStateVars == <<view, tabCache, tabMemo, fetching, mail, fails>>

Saves == 0 .. MaxSaves
Routes == {"storage", "channel"}
Nothing == [at |-> 0, fresh |-> FALSE]
Entry(v) == [at |-> v, fresh |-> TRUE]
NotFetching == [busy |-> FALSE, answer |-> FALSE, at |-> 0]

SpreadInit ==
    /\ item \in {"network", "branding", "rules"} /\ savedRow = 0 /\ untold = {}
    /\ apiCache = Nothing /\ apiReads = {}
    /\ view = [t \in OpenTabs |-> 0] /\ tabCache = [t \in OpenTabs |-> Nothing]
    /\ tabMemo = [t \in OpenTabs |-> Nothing] /\ fetching = [t \in OpenTabs |-> NotFetching]
    /\ mail = [t \in OpenTabs |-> [r \in Routes |-> <<>>]] /\ fails = 0

-----------------------------------------------------------------------------
(* Saving.                                                                  *)

Save ==
    /\ savedRow < MaxSaves /\ savedRow' = savedRow + 1
    /\ untold' = untold \cup {savedRow + 1}
    /\ UNCHANGED <<item, apiCache, apiReads, tabStateVars>>
\* A message to every tab, by the routes that work.
Posts(v, routes) ==
    mail' = [t \in OpenTabs |-> [r \in Routes |->
               IF r \in routes THEN Append(mail[t][r], v) ELSE mail[t][r]]]
\* broadcastRuntimeNetworkChange, broadcastRaRuntimeSettingsChange in the tab that saved;
\* a storage quota or a closed channel is ignored.
Broadcast(v) ==
    /\ item # "branding" /\ v \in untold /\ untold' = untold \ {v}
    /\ \E routes \in SUBSET Routes : Posts(v, routes)
    /\ UNCHANGED <<item, savedRow, apiCache, apiReads, view, tabCache, tabMemo, fetching, fails>>

-----------------------------------------------------------------------------
(* UsersService: loadWalletHeaderRuntimeSettings, loadRaRuntimeSettings.    *)

\* Mutant: a read under way is not joined.
MayReadAlways == TRUE
MayRead == apiReads = {}
\* An operation finds no fresh settings (or asks for new ones) and reads the row.
ApiReads ==
    /\ MayRead
    /\ apiReads' = apiReads \cup {savedRow}
    /\ UNCHANGED <<item, savedRow, untold, apiCache, tabStateVars>>
ApiStores(v) ==
    /\ v \in apiReads /\ apiReads' = apiReads \ {v}
    /\ apiCache' = Entry(v)
    /\ UNCHANGED <<item, savedRow, untold, tabStateVars>>
ApiExpires ==
    /\ apiCache.fresh /\ apiCache' = [apiCache EXCEPT !.fresh = FALSE]
    /\ UNCHANGED <<item, savedRow, untold, apiReads, tabStateVars>>

-----------------------------------------------------------------------------
(* A tab.                                                                   *)

\* A request, answered at once where the request layer still has a response.
Fetches(t) ==
    /\ ~fetching[t].busy
    /\ fetching' = [fetching EXCEPT ![t] =
          [busy |-> TRUE, answer |-> tabMemo[t].fresh, at |-> tabMemo[t].at]]
Shows(t, v) == view' = [view EXCEPT ![t] = v]
\* The hook or the header mounts, the timer of the network fires or the window is focused
\* (and then the cache is passed by); a request under way is joined.
Wants(t, forced) ==
    IF ~forced /\ tabCache[t].fresh
    THEN Shows(t, tabCache[t].at) /\ UNCHANGED fetching
    ELSE Fetches(t) /\ view' = view
TabReads(t, forced) ==
    /\ item # "rules"
    /\ Wants(t, forced)
    /\ UNCHANGED <<item, savedRow, untold, apiCache, apiReads, tabCache, tabMemo, mail, fails>>
PollNetwork(t) == TabReads(t, FALSE)
FocusTab(t) == TabReads(t, TRUE)
\* A page with the hook of the rules is entered: it starts from the cache or the defaults.
MountRules(t) ==
    /\ item = "rules"
    /\ LET start == IF tabCache[t].fresh THEN tabCache[t].at ELSE 0 IN Shows(t, start)
    /\ \/ tabCache[t].fresh /\ fetching' = fetching
       \/ ~tabCache[t].fresh /\ fetching[t].busy /\ fetching' = fetching
       \/ ~tabCache[t].fresh /\ Fetches(t)
    /\ UNCHANGED <<item, savedRow, untold, apiCache, apiReads, tabCache, tabMemo, mail, fails>>
\* The API answers with the row: GET /system/header, GET /system/ra.
TabAnswered(t) ==
    /\ fetching[t].busy /\ ~fetching[t].answer
    /\ fetching' = [fetching EXCEPT ![t].answer = TRUE, ![t].at = savedRow]
    /\ tabMemo' = [tabMemo EXCEPT ![t] = Entry(savedRow)]
    /\ UNCHANGED <<item, savedRow, untold, apiCache, apiReads, view, tabCache, mail, fails>>
\* The answer is there: it is kept and shown.
TabStores(t) ==
    /\ fetching[t].busy /\ fetching[t].answer
    /\ LET v == fetching[t].at IN
       /\ tabCache' = [tabCache EXCEPT ![t] = Entry(v)]
       /\ Shows(t, v)
    /\ fetching' = [fetching EXCEPT ![t] = NotFetching]
    /\ UNCHANGED <<item, savedRow, untold, apiCache, apiReads, tabMemo, mail, fails>>
\* A request fails: the network falls back to the last one known, which counts as fresh
\* again; the rules and the branding stay.
TabFails(t) ==
    /\ fetching[t].busy /\ ~fetching[t].answer /\ fails < MaxFails /\ fails' = fails + 1
    /\ fetching' = [fetching EXCEPT ![t] = NotFetching]
    /\ IF item = "network"
       THEN Shows(t, tabCache[t].at) /\ tabCache' = [tabCache EXCEPT ![t].fresh = TRUE]
       ELSE UNCHANGED <<view, tabCache>>
    /\ UNCHANGED <<item, savedRow, untold, apiCache, apiReads, tabMemo, mail>>
\* A message of either route: what it says is kept and shown.
TabHears(t, r) ==
    /\ mail[t][r] # <<>>
    /\ LET v == Head(mail[t][r]) IN
       /\ tabCache' = [tabCache EXCEPT ![t] = Entry(v)]
       /\ Shows(t, v)
    /\ mail' = [mail EXCEPT ![t][r] = Tail(@)]
    /\ UNCHANGED <<item, savedRow, untold, apiCache, apiReads, tabMemo, fetching, fails>>
\* Mutant: what a message or an answer brought is kept for good.
CacheKept(t) == FALSE /\ tabCache' = tabCache
CacheExpires(t) == tabCache[t].fresh /\ tabCache' = [tabCache EXCEPT ![t].fresh = FALSE]
TabExpires(t) ==
    /\ CacheExpires(t)
    /\ UNCHANGED <<item, savedRow, untold, apiCache, apiReads, view, tabMemo, fetching, mail, fails>>
TabMemoExpires(t) ==
    /\ tabMemo[t].fresh /\ tabMemo' = [tabMemo EXCEPT ![t].fresh = FALSE]
    /\ UNCHANGED <<item, savedRow, untold, apiCache, apiReads, view, tabCache, fetching, mail, fails>>

SpreadNext ==
    \/ Save \/ ApiReads \/ ApiExpires
    \/ \E v \in Saves : Broadcast(v) \/ ApiStores(v)
    \/ \E t \in OpenTabs : \/ PollNetwork(t) \/ FocusTab(t) \/ MountRules(t) \/ TabAnswered(t)
                       \/ TabStores(t) \/ TabFails(t) \/ TabExpires(t) \/ TabMemoExpires(t)
                       \/ \E r \in Routes : TabHears(t, r)
\* Timers fire, requests are answered, messages are delivered and entries expire.
SpreadFairness ==
    \A t \in OpenTabs :
      /\ WF_spreadVars(item = "network" /\ PollNetwork(t)) /\ WF_spreadVars(TabAnswered(t))
      /\ WF_spreadVars(TabStores(t)) /\ WF_spreadVars(TabExpires(t))
      /\ WF_spreadVars(TabMemoExpires(t))
      /\ \A r \in Routes : WF_spreadVars(TabHears(t, r))
SpreadSpec == SpreadInit /\ [][SpreadNext]_spreadVars /\ SpreadFairness

-----------------------------------------------------------------------------
\* A type invariant.
SpreadTypeOK ==
    LET Entries == [at : Saves, fresh : BOOLEAN] IN
    /\ item \in {"network", "branding", "rules"} /\ savedRow \in Saves /\ untold \subseteq Saves
    /\ apiCache \in Entries /\ apiReads \subseteq Saves
    /\ view \in [OpenTabs -> Saves] /\ tabCache \in [OpenTabs -> Entries] /\ tabMemo \in [OpenTabs -> Entries]
    /\ fetching \in [OpenTabs -> [busy : BOOLEAN, answer : BOOLEAN, at : Saves]]
    /\ \A t \in OpenTabs, r \in Routes : mail[t][r] \in Seq(Saves)
    /\ fails \in 0 .. MaxFails

\* Operations of wallets never go back to settings older than those an earlier one used:
\* the cache of UsersService only moves forward, since one read is under way at a time.
OperationsNeverGoBack == [][apiCache'.at >= apiCache.at]_spreadVars

\* Whatever is lost, late or out of order, every tab ends on the network last saved: the
\* poll of useRuntimeSolanaNetwork and the expiry of its cache see to it.
NetworkSettles == item = "network" => <>[](\A t \in OpenTabs : view[t] = savedRow)

-----------------------------------------------------------------------------
(* The rules of RA.                                                         *)

CONSTANTS
    Null,
    Dollars,          \* values a request may give for a limit, out of range ones included
    Points,           \* values it may give for a fee
    Counts,           \* values it may give for the tokens of one session
    DefaultRules      \* the defaults of every field
ASSUME RulesAssumption ==
    /\ Dollars \subseteq Int /\ Points \subseteq Int /\ Counts \subseteq Int
    /\ DefaultRules.minUsd \in Nat /\ DefaultRules.maxUsd \in Nat
    /\ DefaultRules.feeBps \in 0 .. 10000 /\ DefaultRules.tokens \in 1 .. 5

VARIABLE ruleRow      \* raRuntimeSetting

Providers == {"DEXSCREENER", "RAYDIUM"}
Fields == {"minUsd", "maxUsd", "feeBps", "tokens", "primary", "secondary", "enabled"}
RulesInit == ruleRow = [f \in Fields |-> Null]

Higher(x, y) == IF x < y THEN y ELSE x
Lower(x, y) == IF x < y THEN x ELSE y
Or(v, f) == IF v = Null THEN DefaultRules[f] ELSE v

-----------------------------------------------------------------------------
(* system-ra.service.ts.                                                    *)

\* What updateRaSettings accepts for a field; a secondary provider may be taken away.
Acceptable(f, v) ==
    CASE f \in {"minUsd", "maxUsd"} -> v >= 0
      [] f = "feeBps" -> v \in 0 .. 10000
      [] f = "tokens" -> v \in 1 .. 5
      [] f = "primary" -> v \in Providers
      [] f = "secondary" -> v \in Providers \cup {Null}
      [] f = "enabled" -> v \in BOOLEAN
Given(f) ==
    CASE f \in {"minUsd", "maxUsd"} -> Dollars
      [] f = "feeBps" -> Points
      [] f = "tokens" -> Counts
      [] f = "primary" -> Providers
      [] f = "secondary" -> Providers \cup {Null}
      [] f = "enabled" -> BOOLEAN
\* The panel checks the whole form; other clients send the fields they want, and nothing
\* refuses a lower limit above the upper one.
SaveRules(f, v) == v \in Given(f) /\ Acceptable(f, v) /\ ruleRow' = [ruleRow EXCEPT ![f] = v]

\* toRaSettingsPayload.
Published(stored) ==
    LET low == Higher(0, Or(stored.minUsd, "minUsd")) IN
    [minUsd |-> low, maxUsd |-> Higher(low, Or(stored.maxUsd, "maxUsd")),
     feeBps |-> Or(stored.feeBps, "feeBps"), tokens |-> Higher(1, Lower(5, Or(stored.tokens, "tokens"))),
     primary |-> Or(stored.primary, "primary"), secondary |-> stored.secondary,
     enabled |-> Or(stored.enabled, "enabled")]

-----------------------------------------------------------------------------
(* users.service.ts and the browser.                                        *)

\* Mutant: the upper limit is taken as it is stored.
UpperLimitAsStored(low, high) == high
UpperLimit(low, high) == Higher(low, high)
\* loadRaRuntimeSettings: what operations of wallets are held to.
Enforced(stored) ==
    LET low == Or(stored.minUsd, "minUsd") IN
    [minUsd |-> low, maxUsd |-> UpperLimit(low, Or(stored.maxUsd, "maxUsd")),
     feeBps |-> Or(stored.feeBps, "feeBps"), tokens |-> Higher(1, Lower(5, Or(stored.tokens, "tokens"))),
     primary |-> Or(stored.primary, "primary"), secondary |-> Or(stored.secondary, "secondary"),
     enabled |-> Or(stored.enabled, "enabled")]
\* normalizeRaRuntime: what a browser shows and checks a form against.
Understood(payload) ==
    LET low == Higher(0, payload.minUsd) IN
    [payload EXCEPT !.minUsd = low, !.maxUsd = Higher(low, payload.maxUsd),
                    !.feeBps = Higher(0, Lower(10000, payload.feeBps)),
                    !.tokens = Higher(1, Lower(5, payload.tokens))]

RulesNext == \E f \in Fields : \E v \in Given(f) : SaveRules(f, v)
RulesSpec == RulesInit /\ [][RulesNext]_ruleRow

-----------------------------------------------------------------------------
\* A type invariant: a stored field was accepted, and the payload can be made of it.
RulesTypeOK == \A f \in Fields : ruleRow[f] = Null \/ Acceptable(f, ruleRow[f])

\* A wallet is held to the limits, fees and counts its browser shows, whatever fields were
\* saved in whatever order, and the limits leave an amount between them.
EnforcesWhatItShows ==
    LET shown == Understood(Published(ruleRow))
        held == Enforced(ruleRow) IN
    /\ \A f \in Fields \ {"secondary"} : held[f] = shown[f]
    /\ held.minUsd <= held.maxUsd
=============================================================================
