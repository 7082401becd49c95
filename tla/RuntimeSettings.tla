--------------------------- MODULE RuntimeSettings ---------------------------
(***************************************************************************)
(* The settings an administrator changes at run time                       *)
(* (src/apps/api/src/system): the RA settings with the pool of each        *)
(* network and the limits in dollars, the network in the header, the       *)
(* address the web server sends calls to (a draft, the published one and   *)
(* the one before), and the rewriting of old activity records.  A change   *)
(* of the RA settings or of the network makes the price poller feature the *)
(* pool of the network; what the poller does for it is one step here and   *)
(* taken apart in PriceHistory.                                            *)
(*                                                                         *)
(* The second part is where the processes of the web server send the calls *)
(* they pass on (src/apps/web/app/api/_shared/proxy/backend-target.ts): to *)
(* the published address, which each process looks up and keeps for a      *)
(* while, or to the one of its environment.  The request that publishes    *)
(* passes through one of them too, which forgets what it kept when the     *)
(* answer comes back.                                                      *)
(***************************************************************************)
EXTENDS Naturals, Sequences, FiniteSets

CONSTANTS
    Admins,          \* requests that may be under way at once
    Networks, DefaultNetwork,
    Pools, NoPool, CorePool,
    Matching,        \* pools whose mints the price service confirms
    Limits,          \* values in dollars a limit may be given
    DefaultMin, DefaultMax,
    Addresses, NoAddress,
    Records,         \* activity records
    MaxRequests

ASSUME SettingsAssumption ==
    /\ DefaultNetwork \in Networks /\ CorePool \in Pools /\ NoPool \notin Pools
    /\ Matching \subseteq Pools /\ Limits \subseteq Nat /\ DefaultMin \in Nat /\ DefaultMax \in Nat
    /\ NoAddress \notin Addresses /\ MaxRequests \in Nat

VARIABLES
    ra,             \* RaRuntimeSetting: pool by network, min, max
    network,        \* of the header
    featuredPool,   \* what the poller features
    proxy,          \* ProxyBackendSetting
    records,        \* by record: how often it was written, and for which model
    request,        \* what each administrator's request is doing
    published,      \* history: the addresses that were published, in order
    unsynced,       \* history: the poller was left behind by a failure, a reset or a crossing
    swapped,        \* history: two publishings crossed
    overwritten,    \* history: the rewriting undid what another had written
    requests

settingsVars == <<ra, network, featuredPool, proxy, records, request, published, unsynced,
                  swapped, overwritten, requests>>

AddressOrNone == Addresses \cup {NoAddress}
NoRequest == [stage |-> "none", ra |-> [pool |-> [n \in Networks |-> NoPool],
                                        min |-> DefaultMin, max |-> DefaultMax],
              network |-> DefaultNetwork, change |-> "none", at |-> DefaultNetwork,
              value |-> NoPool, proxy |-> [draft |-> NoAddress, published |-> NoAddress,
                                           previous |-> NoAddress, version |-> 1],
              seen |-> [r \in Records |-> 0], left |-> {}]

SettingsInit ==
    /\ ra = NoRequest.ra /\ network = DefaultNetwork /\ featuredPool = CorePool
    \* no row yet, or one that two publishings left
    /\ \/ proxy = NoRequest.proxy /\ published = <<>>
       \/ \E first, second \in Addresses :
             /\ proxy = [draft |-> second, published |-> second, previous |-> first, version |-> 3]
             /\ published = <<first, second>>
    /\ records = [r \in Records |-> [written |-> 0, model |-> 0]]
    /\ request = [a \in Admins |-> NoRequest]
    /\ unsynced = FALSE /\ swapped = FALSE /\ overwritten = FALSE
    /\ requests = 0

Free(a) == request[a].stage = "none" /\ requests < MaxRequests
Stage(a, stage) == request[a].stage = stage
Moves(a, r) == request' = [request EXCEPT ![a] = r]
Finishes(a) == Moves(a, NoRequest)
Others(a, stages) == \E b \in Admins \ {a} : request[b].stage \in stages

-----------------------------------------------------------------------------
(* RA settings.                                                             *)

\* toRaSettingsPayload: what a row says, a limit below its lower one raised to it.
Larger(x, y) == IF x < y THEN y ELSE x
Payload(row) == [row EXCEPT !.max = Larger(row.min, row.max)]

Changed(row, change, at, value) ==
    IF change = "pool" THEN [row EXCEPT !.pool[at] = value]
    ELSE IF change = "min" THEN [row EXCEPT !.min = value]
    ELSE [row EXCEPT !.max = value]

\* The row is read, and the row it would become is looked at in its normalised form.
UpdateRa(a) ==
    /\ Free(a)
    /\ \E change \in {"pool", "min", "max"}, at \in Networks, value \in Pools \cup Limits :
          /\ IF change = "pool" THEN value \in Pools ELSE value \in Limits /\ at = DefaultNetwork
          /\ LET candidate == Payload(Changed(ra, change, at, value)) IN
                candidate.min <= candidate.max
          /\ Moves(a, [NoRequest EXCEPT !.stage = "saving", !.change = change,
                          !.at = at, !.value = value])
    /\ requests' = requests + 1
    /\ UNCHANGED <<ra, network, featuredPool, proxy, records, published, unsynced, swapped,
                   overwritten>>

SyncStages == {"reading", "syncing", "loading"}
SaveRa(a) ==
    LET r == request[a]  row == Changed(ra, r.change, r.at, r.value) IN
    /\ Stage(a, "saving")
    /\ ra' = row
    /\ unsynced' = (unsynced \/ Others(a, SyncStages))
    /\ Moves(a, [r EXCEPT !.stage = "reading", !.ra = row])
    /\ UNCHANGED <<network, featuredPool, proxy, records, published, swapped, overwritten, requests>>

ReadNetwork(a) ==
    /\ Stage(a, "reading")
    /\ Moves(a, [request[a] EXCEPT !.stage = "syncing", !.network = network])
    /\ UNCHANGED <<ra, network, featuredPool, proxy, records, published, unsynced, swapped,
                   overwritten, requests>>

-----------------------------------------------------------------------------
(* The network of the header.                                               *)

SetNetwork(a) ==
    /\ Free(a)
    /\ \E n \in Networks :
          /\ network' = n
          /\ Moves(a, [NoRequest EXCEPT !.stage = "loading", !.network = n])
    /\ unsynced' = (unsynced \/ Others(a, SyncStages))
    /\ requests' = requests + 1
    /\ UNCHANGED <<ra, featuredPool, proxy, records, published, swapped, overwritten>>

\* resetHeaderSettings gives the poller no word of the network.
ResetHeader(a) ==
    /\ Free(a)
    /\ network' = DefaultNetwork
    /\ unsynced' = (unsynced \/ network # DefaultNetwork \/ Others(a, SyncStages))
    /\ requests' = requests + 1
    /\ UNCHANGED <<ra, featuredPool, proxy, records, request, published, swapped, overwritten>>

\* syncForNetwork without settings.
LoadRa(a) ==
    /\ Stage(a, "loading")
    /\ Moves(a, [request[a] EXCEPT !.stage = "syncing", !.ra = ra])
    /\ UNCHANGED <<ra, network, featuredPool, proxy, records, published, unsynced, swapped,
                   overwritten, requests>>

\* Mutant: the pool of the wrong network.
WantedElsewhere(row, n, f) ==
    LET m == CHOOSE m \in Networks : m # n IN IF row.pool[m] = NoPool THEN f ELSE row.pool[m]
\* syncForNetwork: nothing for a network that has no pool; the pool, if the price
\* service confirms it, else the configured one, if it confirms that.
Wanted(row, n, f) ==
    IF row.pool[n] = NoPool THEN f
    ELSE IF row.pool[n] \in Matching THEN row.pool[n]
    ELSE IF CorePool \in Matching THEN CorePool ELSE f
Sync(a) ==
    /\ Stage(a, "syncing")
    /\ \/ /\ featuredPool' = Wanted(request[a].ra, request[a].network, featuredPool)
          /\ unsynced' = (unsynced /\ (\/ Others(a, SyncStages) \/ request[a].ra # ra
                                      \/ request[a].network # network))
       \/ unsynced' = TRUE /\ UNCHANGED featuredPool    \* a call failed, and that is logged
    /\ Finishes(a)
    /\ UNCHANGED <<ra, network, proxy, records, published, swapped, overwritten, requests>>

-----------------------------------------------------------------------------
(* The address of the backend.                                              *)

SaveDraft(a) ==
    /\ Free(a)
    /\ \E address \in AddressOrNone : proxy' = [proxy EXCEPT !.draft = address]
    /\ requests' = requests + 1
    /\ UNCHANGED <<ra, network, featuredPool, records, request, published, unsynced, swapped,
                   overwritten>>

\* publish and rollback work on the row they read.
ReadsProxy(a, stage) ==
    /\ Free(a)
    /\ Moves(a, [NoRequest EXCEPT !.stage = stage, !.proxy = proxy])
    /\ requests' = requests + 1
    /\ UNCHANGED <<ra, network, featuredPool, proxy, records, published, unsynced, swapped,
                   overwritten>>
PublishReads(a) == proxy.draft # NoAddress /\ ReadsProxy(a, "publishing")
RollbackReads(a) == proxy.previous # NoAddress /\ ReadsProxy(a, "rolling back")

Publishes(a, address, draft) ==
    /\ proxy' = [draft |-> draft, published |-> address,
                 previous |-> request[a].proxy.published,
                 version |-> request[a].proxy.version + 1]
    /\ published' = Append(published, address)
    /\ swapped' = (swapped \/ Others(a, {"publishing", "rolling back"}))
    /\ Finishes(a)
    /\ UNCHANGED <<ra, network, featuredPool, records, unsynced, overwritten, requests>>
Publish(a) ==
    /\ Stage(a, "publishing")
    /\ Publishes(a, request[a].proxy.draft, proxy.draft)
\* Mutant: the address a rollback leaves is not kept.
RollbackForgets(a) ==
    /\ Stage(a, "rolling back")
    /\ proxy' = [proxy EXCEPT !.published = request[a].proxy.previous]
    /\ published' = Append(published, request[a].proxy.previous)
    /\ Finishes(a)
    /\ UNCHANGED <<ra, network, featuredPool, records, unsynced, swapped, overwritten, requests>>
Rollback(a) ==
    /\ Stage(a, "rolling back")
    /\ Publishes(a, request[a].proxy.previous, request[a].proxy.previous)

-----------------------------------------------------------------------------
(* migrateRaModel: all records are read, and written back one by one.       *)

MigrateReads(a) ==
    /\ Free(a)
    /\ Moves(a, [NoRequest EXCEPT !.stage = "migrating", !.left = Records,
                    !.seen = [r \in Records |-> records[r].written]])
    /\ requests' = requests + 1
    /\ UNCHANGED <<ra, network, featuredPool, proxy, records, published, unsynced, swapped,
                   overwritten>>

MigrateWrites(a) ==
    /\ Stage(a, "migrating")
    /\ \E r \in request[a].left :
          /\ records' = [records EXCEPT ![r] = [written |-> request[a].seen[r], model |-> 1]]
          /\ overwritten' = (overwritten \/ request[a].seen[r] # records[r].written)
          /\ IF request[a].left = {r} THEN Finishes(a)
             ELSE Moves(a, [request[a] EXCEPT !.left = @ \ {r}])
    /\ UNCHANGED <<ra, network, featuredPool, proxy, published, unsynced, swapped, requests>>

\* A conversion or a settlement adds to its record meanwhile.
RecordGrows(r) ==
    /\ requests < MaxRequests /\ requests' = requests + 1
    /\ records' = [records EXCEPT ![r].written = @ + 1]
    /\ UNCHANGED <<ra, network, featuredPool, proxy, request, published, unsynced, swapped,
                   overwritten>>

\* The server stops under a request.
RequestBreaks(a) ==
    /\ request[a].stage # "none"
    /\ unsynced' = (unsynced \/ request[a].stage \in SyncStages)
    /\ Finishes(a)
    /\ UNCHANGED <<ra, network, featuredPool, proxy, records, published, swapped, overwritten,
                   requests>>

-----------------------------------------------------------------------------
SettingsNext ==
    \/ \E a \in Admins :
         \/ UpdateRa(a) \/ SaveRa(a) \/ ReadNetwork(a) \/ SetNetwork(a) \/ ResetHeader(a)
         \/ LoadRa(a) \/ Sync(a) \/ SaveDraft(a) \/ PublishReads(a) \/ RollbackReads(a)
         \/ Publish(a) \/ Rollback(a) \/ MigrateReads(a) \/ MigrateWrites(a) \/ RequestBreaks(a)
    \/ \E r \in Records : RecordGrows(r)
SettingsSpec == SettingsInit /\ [][SettingsNext]_settingsVars

\* Types.
SettingsTypeOK ==
    /\ ra.pool \in [Networks -> Pools \cup {NoPool}] /\ ra.min \in Nat /\ ra.max \in Nat
    /\ network \in Networks /\ featuredPool \in Pools
    /\ proxy \in [draft: AddressOrNone, published: AddressOrNone, previous: AddressOrNone,
                  version: Nat]
    /\ records \in [Records -> [written: Nat, model: {0, 1}]]

\* With no request under way the poller features the pool of the network, whatever
\* changed last, the pool or the network; a reset of the header, a failed call and two
\* changes that cross may leave it behind until the next change (system-ra.service.ts,
\* updateRaSettings; system-platform-settings.service.ts, updateHeaderSettings).
NoneUnderWay == \A a \in Admins : request[a].stage = "none"
PoolFollowsNetwork ==
    NoneUnderWay /\ ~unsynced /\ ra.pool[network] \in Matching => featuredPool = ra.pool[network]

\* The address to roll back to is the one published before, and the version counts the
\* publishings, unless two of them crossed (publishProxyBackendDraft, rollbackProxyBackend).
PreviousIsTheLast ==
    ~swapped =>
      LET n == Len(published) IN
      /\ proxy.version = n + 1
      /\ proxy.published = IF n = 0 THEN NoAddress ELSE published[n]
      /\ proxy.previous = IF n < 2 THEN NoAddress ELSE published[n - 1]

-----------------------------------------------------------------------------
(* The web server's processes.                                              *)

CONSTANTS
    Proxies,          \* processes of the web server
    Trips,            \* calls under way at once
    Targets, EnvTarget, NoTarget,
    MaxPublishings

ASSUME TargetAssumption ==
    EnvTarget \in Targets /\ NoTarget \notin Targets /\ MaxPublishings \in Nat

VARIABLES
    goal,        \* the published address
    backendBaseCache,
    trip,        \* each call
    version,     \* publishings so far
    upToDate     \* history: processes that forgot, or lost, what they kept after the last of them

targetVars == <<goal, backendBaseCache, trip, version, upToDate>>

NoTrip == [stage |-> "none", kind |-> "call", at |-> NoTarget, to |-> NoTarget,
           version |-> 0]

TargetInit ==
    /\ goal = NoTarget /\ version = 0 /\ upToDate = Proxies
    /\ backendBaseCache = [p \in Proxies |-> NoTarget]
    /\ trip = [c \in Trips |-> NoTrip]

LooksUp(p) == {c \in Trips : trip[c].at = p /\ trip[c].stage \in {"asking", "told"}}
Travels(c, q) == trip' = [trip EXCEPT ![c] = q]
Ends(c) == Travels(c, NoTrip)

\* resolveBackendBaseUrl: what is kept is used, otherwise the API is asked.
SetOut(c, p) ==
    /\ trip[c].stage = "none"
    /\ \E kind \in {"call", "publish"} :
         Travels(c, IF backendBaseCache[p] # NoTarget
                    THEN [NoTrip EXCEPT !.stage = "sent", !.kind = kind, !.at = p,
                            !.to = backendBaseCache[p]]
                    ELSE [NoTrip EXCEPT !.stage = "asking", !.kind = kind, !.at = p])
    /\ UNCHANGED <<goal, backendBaseCache, version, upToDate>>
\* Nothing published, an address it would refuse and a failed request all mean its own.
RuntimeAnswers(c) ==
    /\ trip[c].stage = "asking"
    /\ \E to \in {goal, EnvTarget} \ {NoTarget} :
         Travels(c, [trip[c] EXCEPT !.stage = "told", !.to = to])
    /\ UNCHANGED <<goal, backendBaseCache, version, upToDate>>
Keep(c) ==
    /\ trip[c].stage = "told"
    /\ backendBaseCache' = [backendBaseCache EXCEPT ![trip[c].at] = trip[c].to]
    /\ Travels(c, [trip[c] EXCEPT !.stage = "sent"])
    /\ UNCHANGED <<goal, version, upToDate>>

\* publishProxyBackendDraft or rollbackProxyBackend; a saved draft changes nothing here.
Publishing(c) ==
    /\ trip[c].stage = "sent" /\ trip[c].kind = "publish" /\ version < MaxPublishings
    /\ goal' \in Targets
    /\ version' = version + 1 /\ upToDate' = {}
    /\ Travels(c, [trip[c] EXCEPT !.stage = "answered", !.version = version + 1])
    /\ UNCHANGED backendBaseCache

\* Mutant: what was kept serves until it expires.
ForgetsNever(kept) == kept
Forgets(kept) == NoTarget
\* invalidateBackendBaseCacheIfNeeded; a lookup that is under way will keep what it was told.
ForgetBase(c) ==
    LET p == trip[c].at IN
    /\ trip[c].stage = "answered"
    /\ backendBaseCache' = [backendBaseCache EXCEPT ![p] = Forgets(@)]
    /\ upToDate' = IF trip[c].version = version /\ LooksUp(p) = {} THEN upToDate \cup {p}
                                                                   ELSE upToDate
    /\ Ends(c) /\ UNCHANGED <<goal, version>>
\* An answer, or none: after twenty seconds a call is given up, whatever came of it.
ComeBack(c) ==
    /\ trip[c].stage \in {"sent", "answered"}
    /\ Ends(c) /\ UNCHANGED <<goal, backendBaseCache, version, upToDate>>
BaseExpires(p) ==
    /\ backendBaseCache[p] # NoTarget
    /\ backendBaseCache' = [backendBaseCache EXCEPT ![p] = NoTarget]
    /\ upToDate' = IF LooksUp(p) = {} THEN upToDate \cup {p} ELSE upToDate
    /\ UNCHANGED <<goal, trip, version>>

TargetNext ==
    \/ \E c \in Trips :
         \/ \E p \in Proxies : SetOut(c, p)
         \/ RuntimeAnswers(c) \/ Keep(c) \/ Publishing(c) \/ ForgetBase(c) \/ ComeBack(c)
    \/ \E p \in Proxies : BaseExpires(p)
TargetSpec == TargetInit /\ [][TargetNext]_targetVars

-----------------------------------------------------------------------------
\* Types of the look-up.
TargetTypeOK ==
    /\ goal \in Targets \cup {NoTarget} /\ version \in 0 .. MaxPublishings
    /\ backendBaseCache \in [Proxies -> Targets \cup {NoTarget}]
    /\ \A c \in Trips : trip[c].stage \in {"none", "asking", "told", "sent", "answered"}

\* A process that has had the answer of the last publishing, or let what it kept expire,
\* sends calls to the published address or to its own, but to none that was published
\* before; unless a lookup was under way in it at that moment (clearBackendBaseCache).
CallsGoWherePublished ==
    \A p \in upToDate : backendBaseCache[p] \in {goal, EnvTarget, NoTarget}
=============================================================================
