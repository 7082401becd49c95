----------------------------- MODULE PriceHistory -----------------------------
(***************************************************************************)
(* The price poller of the API (src/apps/api/src/ohlc): which pairs it     *)
(* tracks, which of them the site features, and whether and how often it   *)
(* polls.  The tracked pairs and the runtime settings are rows in          *)
(* Postgres; the process keeps a copy of the settings, one interval timer  *)
(* and a flag that a poll is going on.  A request works from a context, a  *)
(* copy of the process's settings taken when it arrives, and so does       *)
(* start-up.  A statement and what follows it up to the next await are two *)
(* steps wherever another request may come between them.  What polls leave *)
(* behind, and what the charts read of it, is the second half: the two     *)
(* share no variable.                                                      *)
(***************************************************************************)
EXTENDS Naturals, Sequences, FiniteSets, FiniteSetsExt

CONSTANTS
    MaxId,           \* rows the table of pairs may see
    Metas,           \* what a pair may say: key, pool, whether the mints are the pool's
    Core,            \* the one the environment configures
    Intervals,       \* poll intervals
    DefaultInterval,
    Requests,        \* requests in flight at once
    Boot, Tick,      \* start-up, and the callback of the timer
    NoKey,           \* a featured key that is NULL
    MaxStarts, MaxCalls

ASSUME PriceAssumption ==
    /\ MaxId \in Nat /\ MaxStarts \in Nat /\ MaxCalls \in Nat
    /\ Core \in Metas /\ DefaultInterval \in Intervals /\ Intervals \subseteq Nat \ {0}
    /\ NoKey \notin {m.key : m \in Metas}
    /\ Boot \notin Requests /\ Tick \notin Requests /\ Boot # Tick

VARIABLES
    phase,       \* of the process: down, starting, up
    pairs,       \* tracked_pairs
    created,     \* the last id its sequence gave out
    stored,      \* the row of ohlc_runtime_settings
    mem,         \* the process's copy of it
    timer,       \* the interval of the poll timer; 0 when there is none
    isPolling,
    call,        \* what each caller is doing
    fresh,       \* history: a request has set the timer since the last start
    crossed,     \* history: two savings of the settings crossed, or a start broke off
    tangled,     \* history: calls about pairs overlapped, or one broke off half done
    starts, calls

priceVars == <<phase, pairs, created, stored, mem, timer, isPolling, call, fresh,
               crossed, tangled, starts, calls>>
priceTables == <<pairs, created, stored>>
priceProcess == <<phase, mem, timer, isPolling>>
priceHistory == <<fresh, crossed, tangled>>
priceCounts == <<starts, calls>>

Ids == 1 .. MaxId
Callers == Requests \cup {Boot, Tick}
Keys == {m.key : m \in Metas}
Memory == [interval: Intervals, ingest: BOOLEAN, featured: Keys \cup {NoKey}]
NoSettings == [exists |-> FALSE]
NoPair == [exists |-> FALSE]
Pairs == [exists: {TRUE}, meta: Metas, active: BOOLEAN, core: BOOLEAN]

\* What the environment configures and a process starts with.
Defaults == [interval |-> DefaultInterval, ingest |-> TRUE, featured |-> Core.key]

\* then: the stage after a poll or a featuring; back: after a sync; fail: after an error.
IdleCall == [kind |-> "none", stage |-> "idle", snap |-> Defaults, id |-> 0,
             row |-> NoPair, meta |-> Core, active |-> TRUE, next |-> Defaults,
             key |-> NoKey, then |-> "idle", back |-> "idle", fail |-> "idle"]

PriceInit ==
    /\ phase = "down"
    /\ pairs = [i \in Ids |-> NoPair] /\ created = 0
    /\ stored = NoSettings /\ mem = Defaults
    /\ timer = 0 /\ isPolling = FALSE
    /\ call = [c \in Callers |-> IdleCall]
    /\ fresh = FALSE /\ crossed = FALSE /\ tangled = FALSE
    /\ starts = 0 /\ calls = 0

Idle(c) == call[c].stage = "idle"
At(c, stage) == call[c].stage = stage
Does(c, f) == call' = [call EXCEPT ![c] = f]
Goes(c, stage) ==
    Does(c, IF stage = "idle" THEN IdleCall ELSE [call[c] EXCEPT !.stage = stage])
Returns(c) == Goes(c, call[c].then)

Existing == {i \in Ids : pairs[i].exists}
Active == {i \in Existing : pairs[i].active}
ByKey(key) == {i \in Existing : pairs[i].meta.key = key}
ByPool(pool) == {i \in Existing : pairs[i].meta.pool = pool}
\* The two unique columns.
Clashes(meta, id) == (ByKey(meta.key) \cup ByPool(meta.pool)) \ {id} # {}

\* A call about pairs or the featured key that is under way.
PairCalls == {c \in Requests : call[c].kind \in {"feature", "create", "update", "delete", "sync"}}
Overlaps(c) == tangled' = (tangled \/ PairCalls \ {c} # {})
\* Between its write of a pair and what it owes the featured key.
HalfDone(c) ==
    call[c].stage \in {"following", "checking", "falling", "featuring", "featured", "reloading"}

-----------------------------------------------------------------------------
(* The process, its timer and the poll.                                     *)

Start ==
    /\ phase = "down" /\ starts < MaxStarts
    /\ phase' = "starting" /\ starts' = starts + 1
    /\ mem' = Defaults /\ fresh' = FALSE
    /\ Does(Boot, [IdleCall EXCEPT !.kind = "boot", !.stage = "core", !.fail = "syncing"])
    /\ UNCHANGED <<priceTables, timer, isPolling, crossed, tangled, calls>>

Crash ==
    /\ phase # "down"
    /\ phase' = "down" /\ timer' = 0 /\ isPolling' = FALSE
    /\ call' = [c \in Callers |-> IdleCall]
    /\ tangled' = (tangled \/ \E c \in PairCalls \cup {Boot} : HalfDone(c))
    /\ UNCHANGED <<priceTables, mem, fresh, crossed, priceCounts>>

\* Mutant: the flag is not looked at.
PollOnceUnguarded(c, then) ==
    Does(c, [call[c] EXCEPT !.stage = "polling", !.then = then]) /\ isPolling' = TRUE
\* pollOnce, whose flag is read and set without an await in between.
PollOnce(c, then) ==
    IF isPolling
        THEN Goes(c, then) /\ UNCHANGED isPolling
        ELSE /\ Does(c, [call[c] EXCEPT !.stage = "polling", !.then = then])
             /\ isPolling' = TRUE

TimerFires ==
    /\ timer # 0 /\ mem.ingest /\ Idle(Tick) /\ ~isPolling
    /\ Does(Tick, [IdleCall EXCEPT !.kind = "tick", !.stage = "polling"])
    /\ isPolling' = TRUE
    /\ UNCHANGED <<priceTables, phase, mem, timer, priceHistory, priceCounts>>

\* Whatever happened to the pairs of a poll is caught and logged.
PollEnds(c) ==
    /\ At(c, "polling")
    /\ isPolling' = FALSE /\ Returns(c)
    /\ UNCHANGED <<priceTables, phase, mem, timer, priceHistory, priceCounts>>

\* startPolling of a request, which looks at the settings anew.
StartPolling(c) ==
    /\ At(c, "retiming")
    /\ timer' = IF mem.ingest THEN mem.interval ELSE 0
    /\ fresh' = TRUE
    /\ Goes(c, "idle")
    /\ UNCHANGED <<priceTables, phase, mem, isPolling, crossed, tangled, priceCounts>>

-----------------------------------------------------------------------------
(* Requests.  Each begins with a context: the settings of the process then. *)

Calls(kind, stage) == [IdleCall EXCEPT !.kind = kind, !.stage = stage, !.snap = mem]
Begins(c) == phase = "up" /\ Idle(c) /\ calls < MaxCalls /\ calls' = calls + 1
SamePrices == UNCHANGED <<priceTables, priceProcess, priceHistory, starts>>
SamePairs == UNCHANGED <<priceTables, priceProcess, fresh, crossed, starts>>

SyncNow(c) ==
    /\ Begins(c)
    /\ ~isPolling /\ isPolling' = TRUE
    /\ Does(c, Calls("poll", "polling"))
    /\ UNCHANGED <<priceTables, phase, mem, timer, priceHistory, starts>>

\* updateAdminConfig: what is not given is taken from the context.
ConfigBegins(c) ==
    /\ Begins(c)
    /\ \E i \in Intervals, on \in BOOLEAN :
          Does(c, [Calls("config", "saving") EXCEPT
                     !.next = [mem EXCEPT !.interval = i, !.ingest = on]])
    /\ SamePrices

\* The statement leaves the featured key alone.
ConfigSaves(c) ==
    /\ At(c, "saving")
    /\ stored' = [exists |-> TRUE,
                  set |-> [call[c].next EXCEPT
                             !.featured = IF stored.exists THEN stored.set.featured ELSE NoKey]]
    /\ crossed' = (crossed \/ \E d \in Requests \ {c} : At(d, "applying"))
    /\ Goes(c, "applying")
    /\ UNCHANGED <<pairs, created, priceProcess, fresh, tangled, priceCounts>>

ConfigApplies(c) ==
    LET snap == call[c].snap  next == call[c].next IN
    /\ At(c, "applying")
    /\ mem' = [next EXCEPT !.featured = mem.featured]
    /\ crossed' = (crossed \/ snap.interval # mem.interval \/ snap.ingest # mem.ingest)
    /\ \/ /\ ~next.ingest
          /\ timer' = 0 /\ fresh' = TRUE /\ Goes(c, "idle") /\ UNCHANGED isPolling
       \/ /\ next.ingest /\ ~snap.ingest
          /\ PollOnce(c, "retiming") /\ UNCHANGED <<timer, fresh>>
       \/ /\ next.ingest /\ snap.ingest /\ next.interval # snap.interval
          /\ timer' = next.interval /\ fresh' = TRUE /\ Goes(c, "idle") /\ UNCHANGED isPolling
       \/ /\ next.ingest /\ snap.ingest /\ next.interval = snap.interval
          /\ Goes(c, "idle") /\ UNCHANGED <<timer, fresh, isPolling>>
    /\ UNCHANGED <<priceTables, phase, tangled, priceCounts>>

\* setAdminFeaturedPair: the pair is read and found active, then featured.
FeatureBegins(c) ==
    /\ Begins(c)
    /\ \E i \in Active :
          Does(c, [Calls("feature", "featuring") EXCEPT !.key = pairs[i].meta.key])
    /\ Overlaps(c)
    /\ UNCHANGED <<priceTables, priceProcess, fresh, crossed, starts>>

\* updateRuntimeFeaturedPairKey; the other settings are written only if there is no row.
FeatureSaves(c) ==
    /\ At(c, "featuring")
    /\ stored' = IF stored.exists
                   THEN [stored EXCEPT !.set.featured = call[c].key]
                   ELSE [exists |-> TRUE, set |-> [call[c].snap EXCEPT !.featured = call[c].key]]
    /\ Overlaps(c)
    /\ Goes(c, "featured")
    /\ UNCHANGED <<pairs, created, priceProcess, fresh, crossed, priceCounts>>

FeatureApplies(c) ==
    /\ At(c, "featured")
    /\ mem' = [mem EXCEPT !.featured = call[c].key]
    /\ Returns(c)
    /\ UNCHANGED <<priceTables, phase, timer, isPolling, priceHistory, priceCounts>>

\* ensureFeaturedPairKeyIsValid, which looks for the key of the context.
CheckFeatured(c) ==
    /\ At(c, "checking")
    /\ IF ByKey(call[c].snap.featured) \cap Active # {} THEN Returns(c) ELSE Goes(c, "falling")
    /\ UNCHANGED <<priceTables, priceProcess, priceHistory, priceCounts>>

\* The configured key, else a core pair, else any; the lowest id of those.
Preferred(ids) ==
    LET named == {i \in ids : pairs[i].meta.key = Core.key}
        core == {i \in ids : pairs[i].core}
    IN  Min(IF named # {} THEN named ELSE IF core # {} THEN core ELSE ids)
FallBack(c) ==
    /\ At(c, "falling")
    /\ Does(c, [call[c] EXCEPT !.stage = "featuring",
                  !.key = IF Active = {} THEN NoKey ELSE pairs[Preferred(Active)].meta.key])
    /\ UNCHANGED <<priceTables, priceProcess, priceHistory, priceCounts>>

Inserted(meta, active, core) ==
    /\ created < MaxId
    /\ pairs' = [pairs EXCEPT ![created + 1] =
         [exists |-> TRUE, meta |-> meta, active |-> active, core |-> core]]
    /\ created' = created + 1

\* createAdminPair.  A clash is an error to the administrator.
CreatePair(c) ==
    /\ Begins(c)
    /\ \E meta \in Metas, active \in BOOLEAN :
          /\ ~Clashes(meta, 0)
          /\ Inserted(meta, active, FALSE)
          /\ IF mem.featured = NoKey
               THEN Does(c, [Calls("create", "checking") EXCEPT !.meta = meta])
               ELSE UNCHANGED call
    /\ Overlaps(c)
    /\ UNCHANGED <<stored, priceProcess, fresh, crossed, starts>>

\* Mutant: core pairs are edited like others.
EditAllowedAny(row, meta) == TRUE
\* updateAdminPair and deleteAdminPair: the row is read, and a core pair refused.
EditAllowed(row, meta) == row.core => meta = row.meta
UpdateBegins(c) ==
    /\ Begins(c)
    /\ \E i \in Existing, meta \in Metas, active \in BOOLEAN :
          /\ EditAllowed(pairs[i], meta)
          /\ Does(c, [Calls("update", "writing") EXCEPT
                        !.id = i, !.row = pairs[i], !.meta = meta, !.active = active])
    /\ Overlaps(c)
    /\ SamePairs

DeleteBegins(c) ==
    /\ Begins(c)
    /\ \E i \in Existing :
          /\ ~pairs[i].core
          /\ Does(c, [Calls("delete", "writing") EXCEPT !.id = i, !.row = pairs[i]])
    /\ Overlaps(c)
    /\ SamePairs

\* An update of a row that is gone changes none and is not noticed.
UpdateWrites(c) ==
    LET id == call[c].id  meta == call[c].meta  active == call[c].active IN
    /\ At(c, "writing") /\ call[c].kind = "update"
    /\ IF pairs[id].exists
         THEN /\ ~Clashes(meta, id)
              /\ pairs' = [pairs EXCEPT ![id] = [@ EXCEPT !.meta = meta, !.active = active]]
         ELSE UNCHANGED pairs
    /\ Overlaps(c)
    /\ Goes(c, "following")
    /\ UNCHANGED <<created, stored, priceProcess, fresh, crossed, priceCounts>>

DeleteWrites(c) ==
    /\ At(c, "writing") /\ call[c].kind = "delete"
    /\ pairs' = [pairs EXCEPT ![call[c].id] = NoPair]
    /\ Overlaps(c)
    /\ Goes(c, "following")
    /\ UNCHANGED <<created, stored, priceProcess, fresh, crossed, priceCounts>>

\* Mutant: nothing follows.
FollowUpForgets(c) ==
    At(c, "following") /\ Goes(c, "idle")
    /\ UNCHANGED <<priceTables, priceProcess, priceHistory, priceCounts>>
\* What the write means for the featured key, by the context.
FollowUp(c) ==
    LET r == call[c]
        gone == r.kind = "delete" \/ ~r.active
        renamed == r.meta.key # r.row.meta.key
    IN
    /\ At(c, "following")
    /\ \/ /\ r.snap.featured = r.row.meta.key /\ gone /\ Goes(c, "checking")
       \/ /\ r.snap.featured = r.row.meta.key /\ ~gone /\ renamed
          /\ Does(c, [r EXCEPT !.stage = "featuring", !.key = r.meta.key])
       \/ (r.snap.featured # r.row.meta.key \/ (~gone /\ ~renamed)) /\ Goes(c, "idle")
    /\ UNCHANGED <<priceTables, priceProcess, priceHistory, priceCounts>>

-----------------------------------------------------------------------------
(* The pair of the RA settings: syncRuntimeFeaturedPair.                    *)

\* syncForNetwork: the pair of the settings if the price service says that the
\* pool's mints are its own, else the configured one if that can be said of it.
Fitting == {m \in Metas : m.fits}
SyncPair(c) ==
    /\ Begins(c)
    /\ \E meta \in Fitting : Does(c, [Calls("sync", "finding") EXCEPT !.meta = meta])
    /\ Overlaps(c)
    /\ SamePairs

\* By key, else by pool.
FindPair(c) ==
    LET byKey == ByKey(call[c].meta.key)  byPool == ByPool(call[c].meta.pool)
        found == IF byKey # {} THEN byKey ELSE byPool
    IN
    /\ At(c, "finding")
    /\ Does(c, [call[c] EXCEPT !.stage = "upserting", !.id = IF found = {} THEN 0 ELSE Min(found)])
    /\ UNCHANGED <<priceTables, priceProcess, priceHistory, priceCounts>>

UpsertPair(c) ==
    LET id == call[c].id  meta == call[c].meta IN
    /\ At(c, "upserting")
    /\ \/ /\ id \in Existing /\ ~Clashes(meta, id)
          /\ pairs' = [pairs EXCEPT ![id] = [@ EXCEPT !.meta = meta, !.active = TRUE, !.core = TRUE]]
          /\ UNCHANGED created
       \/ id \in Ids \ Existing /\ UNCHANGED <<pairs, created>>
       \/ id = 0 /\ ~Clashes(meta, 0) /\ Inserted(meta, TRUE, TRUE)
    /\ Overlaps(c)
    /\ Does(c, [call[c] EXCEPT !.stage = "featuring", !.key = meta.key, !.then = "reloading"])
    /\ UNCHANGED <<stored, priceProcess, fresh, crossed, priceCounts>>

\* The row is read back by its key, and polled for if the process now ingests.
ReloadPair(c) ==
    /\ At(c, "reloading")
    /\ ByKey(call[c].meta.key) # {}
    /\ IF mem.ingest THEN PollOnce(c, call[c].back) ELSE Goes(c, call[c].back) /\ UNCHANGED isPolling
    /\ UNCHANGED <<priceTables, phase, mem, timer, priceHistory, priceCounts>>

\* A statement that fails, or finds a clash or no row, ends the call; the error of a
\* start-up is logged and the next module started.
Statements == {"saving", "writing", "checking", "falling", "featuring", "finding", "upserting",
               "reloading", "core", "insert", "settings", "reconciling"}
QueryFails(c) ==
    /\ call[c].stage \in Statements
    /\ crossed' = (crossed \/ call[c].fail = "syncing")
    /\ tangled' = (tangled \/ HalfDone(c))
    /\ IF call[c].fail = "idle"
         THEN Goes(c, "idle")
         ELSE Does(c, [IdleCall EXCEPT !.kind = "boot", !.stage = call[c].fail, !.fail = "ready"])
    /\ UNCHANGED <<priceTables, priceProcess, fresh, priceCounts>>

-----------------------------------------------------------------------------
(* Start-up: initializeRuntime with the context of a process that has just *)
(* been created, then the first sync of the system module.                 *)

\* ensureDefaultTrackedPair.
MarkCore ==
    /\ At(Boot, "core")
    /\ pairs' = [i \in Ids |->
         IF i \in ByKey(Core.key) \cup ByPool(Core.pool) THEN [pairs[i] EXCEPT !.core = TRUE]
         ELSE pairs[i]]
    /\ Goes(Boot, "insert")
    /\ UNCHANGED <<created, stored, priceProcess, priceHistory, priceCounts>>
InsertCore ==
    /\ At(Boot, "insert")
    /\ IF Clashes(Core, 0) THEN UNCHANGED <<pairs, created>> ELSE Inserted(Core, TRUE, TRUE)
    /\ Goes(Boot, "settings")
    /\ UNCHANGED <<stored, priceProcess, priceHistory, priceCounts>>

\* ensureRuntimeSettings; the check that follows is for the key of the context.
LoadSettings ==
    /\ At(Boot, "settings")
    /\ LET set == IF stored.exists THEN stored.set ELSE Defaults IN
          /\ stored' = [exists |-> TRUE, set |-> set]
          /\ mem' = [set EXCEPT !.featured = IF @ = NoKey THEN Core.key ELSE @]
    /\ Does(Boot, [call[Boot] EXCEPT !.stage = "checking", !.then = "reconciling"])
    /\ UNCHANGED <<pairs, created, phase, timer, isPolling, priceHistory, priceCounts>>

\* reconcileStartupPairs: of the active pairs the price service answers for, those
\* whose mints are not the pool's are switched off, as long as some are.
Reconcile ==
    LET fitting == {i \in Active : pairs[i].meta.fits} IN
    /\ At(Boot, "reconciling")
    /\ \E compatible \in SUBSET fitting, mismatched \in SUBSET (Active \ fitting) :
          \/ /\ mismatched = {} \/ (compatible = {} /\ ~Core.fits)
             /\ Goes(Boot, "polling1") /\ UNCHANGED pairs
          \/ /\ mismatched # {} /\ compatible = {} /\ Core.fits
             /\ Does(Boot, [call[Boot] EXCEPT !.stage = "finding", !.meta = Core, !.back = "polling1"])
             /\ UNCHANGED pairs
          \/ /\ mismatched # {} /\ compatible # {}
             /\ pairs' = [i \in Ids |-> IF i \in mismatched
                    THEN [pairs[i] EXCEPT !.active = FALSE, !.core = FALSE] ELSE pairs[i]]
             /\ IF mem.featured \in {pairs[i].meta.key : i \in mismatched}
                  THEN LET cores == {i \in compatible : pairs[i].core}
                           first == Min(IF cores # {} THEN cores ELSE compatible)
                       IN  Does(Boot, [call[Boot] EXCEPT !.stage = "featuring",
                                         !.key = pairs[first].meta.key, !.then = "polling1"])
                  ELSE Goes(Boot, "polling1")
    /\ UNCHANGED <<created, stored, priceProcess, priceHistory, priceCounts>>

\* Start-up polls, and then starts the timer, by its context: whatever is stored.
FirstPoll ==
    /\ At(Boot, "polling1")
    /\ IF call[Boot].snap.ingest THEN PollOnce(Boot, "timing")
                                 ELSE Goes(Boot, "timing") /\ UNCHANGED isPolling
    /\ UNCHANGED <<priceTables, phase, mem, timer, priceHistory, priceCounts>>
FirstTimer ==
    /\ At(Boot, "timing")
    /\ timer' = IF call[Boot].snap.ingest THEN call[Boot].snap.interval ELSE 0
    /\ Does(Boot, [call[Boot] EXCEPT !.stage = "syncing", !.fail = "ready"])
    /\ UNCHANGED <<priceTables, phase, mem, isPolling, priceHistory, priceCounts>>

FirstSync ==
    /\ At(Boot, "syncing")
    /\ \/ Goes(Boot, "ready")
       \/ \E meta \in Fitting :
             Does(Boot, [IdleCall EXCEPT !.kind = "boot", !.stage = "finding", !.snap = mem,
                           !.meta = meta, !.back = "ready", !.fail = "ready"])
    /\ UNCHANGED <<priceTables, priceProcess, priceHistory, priceCounts>>
Ready ==
    /\ At(Boot, "ready")
    /\ phase' = "up" /\ Goes(Boot, "idle")
    /\ UNCHANGED <<priceTables, mem, timer, isPolling, priceHistory, priceCounts>>

-----------------------------------------------------------------------------
(* Queries.                                                                 *)

\* resolvePair without a name: the featured pair if it is active, else the fallback.
ResolvePair ==
    LET featured == ByKey(mem.featured) \cap Active
    IN  IF featured # {} THEN Min(featured) ELSE Preferred(Active)
\* getAdminConfig, getFeaturedPair and getHealth.
AdminConfig ==
    [ingest |-> mem.ingest, interval |-> mem.interval,
     pair |-> IF Active # {} THEN pairs[ResolvePair].meta.key
              ELSE IF mem.featured # NoKey THEN mem.featured ELSE Core.key]

-----------------------------------------------------------------------------
Requested(c) ==
    \/ SyncNow(c) \/ ConfigBegins(c) \/ FeatureBegins(c) \/ CreatePair(c)
    \/ UpdateBegins(c) \/ DeleteBegins(c) \/ SyncPair(c)
    \/ ConfigSaves(c) \/ ConfigApplies(c) \/ StartPolling(c)
    \/ UpdateWrites(c) \/ DeleteWrites(c) \/ FollowUp(c)
Shared(c) ==
    \/ PollEnds(c) \/ FeatureSaves(c) \/ FeatureApplies(c) \/ CheckFeatured(c) \/ FallBack(c)
    \/ FindPair(c) \/ UpsertPair(c) \/ ReloadPair(c) \/ QueryFails(c)
Boots ==
    \/ MarkCore \/ InsertCore \/ LoadSettings \/ Reconcile \/ FirstPoll \/ FirstTimer
    \/ FirstSync \/ Ready
PriceNext ==
    \/ Start \/ Crash \/ TimerFires \/ Boots
    \/ \E c \in Requests : Requested(c)
    \/ \E c \in Callers : Shared(c)
PriceSpec == PriceInit /\ [][PriceNext]_priceVars

-----------------------------------------------------------------------------
(* Properties.                                                              *)

\* Types.
PriceTypeOK ==
    /\ phase \in {"down", "starting", "up"} /\ created \in 0 .. MaxId
    /\ \A i \in Ids : pairs[i] \in Pairs \cup {NoPair}
    /\ stored = NoSettings \/ stored.set \in Memory
    /\ mem \in Memory /\ timer \in Intervals \cup {0} /\ isPolling \in BOOLEAN
    /\ \A c \in Callers :
          /\ call[c].meta \in Metas
          /\ call[c].then \in {"idle", "retiming", "timing", "polling1", "ready", "reconciling",
                               "reloading"}

\* Whoever starts it, there is one poll at a time (ohlc-runtime.service.ts, pollOnce).
Polling == {c \in Callers : At(c, "polling")}
OnePoll == Cardinality(Polling) <= 1 /\ (isPolling <=> Polling # {})

\* Once no call is under way the process runs on the settings that are stored, its
\* timer included once a request has set it (ohlc-admin.service.ts, updateAdminConfig).
Quiet == phase = "up" /\ \A c \in Requests \cup {Boot} : Idle(c)
RunsAsStored ==
    Quiet /\ stored.exists =>
      /\ ~crossed => /\ mem.interval = stored.set.interval /\ mem.ingest = stored.set.ingest
                     /\ fresh => timer = IF mem.ingest THEN mem.interval ELSE 0
      /\ ~crossed /\ ~tangled => \/ mem.featured = stored.set.featured
                                 \/ stored.set.featured = NoKey

\* The pair the site shows is the featured one, whatever was switched off, renamed or
\* deleted since, unless calls about pairs overlapped or broke off
\* (ohlc-persistence.service.ts, resolvePair, ensureFeaturedPairKeyIsValid).
FeaturedIsTracked ==
    Quiet /\ ~tangled /\ ~crossed /\ mem.featured # NoKey /\ Active # {} =>
        AdminConfig.pair = mem.featured

\* A core pair is not deleted, and while the calls about pairs come one at a time only
\* a sync changes what it says (ohlc-admin.service.ts: "Core pair metadata is locked").
CorePairStands ==
    [][\A i \in Ids : pairs[i].exists /\ pairs[i].core /\ ~tangled' =>
          /\ pairs[i]'.exists
          /\ pairs[i]'.meta # pairs[i].meta => \E c \in Callers : At(c, "upserting")]_priceVars

-----------------------------------------------------------------------------
(***************************************************************************)
(* The bars.  A poll of the price service writes a tick and adds to a bar  *)
(* of every stored interval, in one transaction; longer bars are put       *)
(* together from those of the longest stored interval when they are asked  *)
(* for; the ticker is the close of the newest of the shortest bars.  Time  *)
(* is counted in the shortest interval, prices are a small set.            *)
(***************************************************************************)
CONSTANTS
    StoredIntervals, \* STORAGE_INTERVAL_KEYS, in multiples of the shortest
    LongInterval,    \* of the bars put together on request
    TickSizes,       \* what the poll interval may be
    Prices, BarLimit,
    LastTime, MaxPolls

ASSUME BarsAssumption ==
    /\ 1 \in StoredIntervals /\ StoredIntervals \subseteq Nat \ {0}
    /\ \E longest \in StoredIntervals :
          /\ \A i \in StoredIntervals : i <= longest
          /\ LongInterval \in Nat \ {0} /\ LongInterval % longest = 0
    /\ TickSizes \subseteq Nat \ {0} /\ Prices \subseteq Nat \ {0}
    /\ LastTime \in Nat /\ MaxPolls \in Nat /\ BarLimit \in Nat \ {0}

VARIABLES
    now,
    tickSize,   \* currentPollIntervalMs
    priceTicks, \* price_ticks by ts
    bars,       \* ohlc_bars by interval and bucket
    polled,     \* history: what was recorded, in order
    slowed      \* history: the time of a tick lay before that of an earlier one

barVars == <<now, tickSize, priceTicks, bars, polled, slowed>>

Times == 0 .. LastTime
NoTick == [exists |-> FALSE]
NoBar == [exists |-> FALSE]
SourceInterval == Max(StoredIntervals)
BucketOf(t, interval) == (t \div interval) * interval

BarsInit ==
    /\ now = 0 /\ tickSize \in TickSizes
    /\ priceTicks = [t \in Times |-> NoTick]
    /\ bars = [i \in StoredIntervals |-> [t \in Times |-> NoBar]]
    /\ polled = <<>> /\ slowed = FALSE

Larger2(x, y) == IF x < y THEN y ELSE x
Smaller2(x, y) == IF x < y THEN x ELSE y

\* Mutant: a bar that exists keeps its close.
UpsertBarOpenOnly(bar, price) ==
    IF bar = NoBar
      THEN [exists |-> TRUE, open |-> price, high |-> price, low |-> price, close |-> price, count |-> 1]
      ELSE [bar EXCEPT !.high = Larger2(@, price), !.low = Smaller2(@, price), !.count = @ + 1]
\* upsertBar.
UpsertBar(bar, price) ==
    IF bar = NoBar
      THEN [exists |-> TRUE, open |-> price, high |-> price, low |-> price, close |-> price, count |-> 1]
      ELSE [bar EXCEPT !.high = Larger2(@, price), !.low = Smaller2(@, price), !.close = price,
                       !.count = @ + 1]

\* The tick of the time, and the bar of every stored interval it falls into.
PersistSnapshot(ts, price) ==
    /\ priceTicks' = [priceTicks EXCEPT ![ts] = [exists |-> TRUE, price |-> price]]
    /\ bars' = [i \in StoredIntervals |->
                  [bars[i] EXCEPT ![BucketOf(ts, i)] = UpsertBar(@, price)]]
\* fetchCurrentSnapshot gives the price at a time rounded down to the poll interval; a pool that does not answer leaves no trace.
Poll ==
    /\ Len(polled) < MaxPolls
    /\ \E price \in Prices :
          LET ts == BucketOf(now, tickSize) IN
          /\ PersistSnapshot(ts, price)
          /\ polled' = Append(polled, [ts |-> ts, price |-> price])
          /\ slowed' = (slowed \/ \E k \in DOMAIN polled : polled[k].ts > ts)
    /\ UNCHANGED <<now, tickSize>>

TimePasses == now < LastTime /\ now' = now + 1 /\ UNCHANGED <<tickSize, priceTicks, bars, polled, slowed>>

\* updateAdminConfig, or a start with another interval than before.
IntervalChanges ==
    /\ tickSize' \in TickSizes \ {tickSize}
    /\ UNCHANGED <<now, priceTicks, bars, polled, slowed>>

BarsNext == Poll \/ TimePasses \/ IntervalChanges
BarsSpec == BarsInit /\ [][BarsNext]_barVars

-----------------------------------------------------------------------------
(* Queries.                                                                 *)

\* The n newest of some buckets.
Newest(buckets, n) == {b \in buckets : Cardinality({c \in buckets : c > b}) < n}

\* getStoredBars: the newest buckets of the interval.
StoredBars(interval) == Newest({t \in Times : bars[interval][t] # NoBar}, BarLimit)

\* getAggregatedBars: the source bars of the time looked back, by long bucket.
Lookback == LongInterval * BarLimit + SourceInterval
SourceBars == {t \in Times : bars[SourceInterval][t] # NoBar /\ t + Lookback >= now}
Parts(b) == {t \in SourceBars : BucketOf(t, LongInterval) = b}
AggregatedBars == Newest({BucketOf(t, LongInterval) : t \in SourceBars}, BarLimit)
\* Mutant: the highest of the opens.
AggregatedHigh(b) ==
    LET source == bars[SourceInterval]  parts == Parts(b) IN
    [open |-> Max({source[t].open : t \in parts}), high |-> Max({source[t].high : t \in parts}),
     low |-> Min({source[t].low : t \in parts}), close |-> source[Max(parts)].close]
Aggregated(b) ==
    LET source == bars[SourceInterval]  parts == Parts(b) IN
    [open |-> source[Min(parts)].open, high |-> Max({source[t].high : t \in parts}),
     low |-> Min({source[t].low : t \in parts}), close |-> source[Max(parts)].close]

\* getTicker: the newest close, and the close a day (here DayAgo) before for the change.
DayAgo == LongInterval
ClosesUpTo(t) == {u \in 0 .. t : bars[1][u] # NoBar}
Ticker ==
    LET buckets == ClosesUpTo(LastTime)
        before == IF now < DayAgo THEN {} ELSE ClosesUpTo(now - DayAgo)
        close == IF buckets = {} THEN 0 ELSE bars[1][Max(buckets)].close
    IN  [price |-> close, reference |-> IF before = {} THEN close ELSE bars[1][Max(before)].close]

-----------------------------------------------------------------------------
(* Properties.                                                              *)

\* Types.
BarsTypeOK ==
    /\ now \in Times /\ tickSize \in TickSizes /\ slowed \in BOOLEAN
    /\ \A t \in Times : priceTicks[t] # NoTick => priceTicks[t].price \in Prices

\* What was recorded between two times, as one bar.
PolledBetween(from, to) == {k \in DOMAIN polled : polled[k].ts >= from /\ polled[k].ts < to}
BarOf(ks) ==
    [open |-> polled[Min(ks)].price, high |-> Max({polled[k].price : k \in ks}),
     low |-> Min({polled[k].price : k \in ks}), close |-> polled[Max(ks)].price]
Told(bar, ks) == /\ bar.open = BarOf(ks).open /\ bar.high = BarOf(ks).high
                 /\ bar.low = BarOf(ks).low /\ bar.close = BarOf(ks).close

\* The ticker is the price of the last poll, as long as no tick was dated back
\* (ohlc-query.service.ts, getTicker).
TickerIsLatest ==
    polled # <<>> /\ ~slowed =>
        /\ Ticker.price = polled[Len(polled)].price
        /\ LET old == PolledBetween(0, IF now < DayAgo THEN 0 ELSE now - DayAgo + 1) IN
              Ticker.reference = IF old = {} THEN Ticker.price ELSE BarOf(old).close

\* A bar that is read tells exactly the polls of its time, be it stored or put together
\* from stored ones; of those put together, the ones that lie wholly within the time
\* looked back, and while no tick was dated before an earlier one; and so does the ticker
\* (ohlc.service.ts, upsertBar; ohlc-persistence.service.ts, getAggregatedBars).
BarsTellThePolls ==
    /\ \A i \in StoredIntervals : \A b \in StoredBars(i) : Told(bars[i][b], PolledBetween(b, b + i))
    /\ ~slowed => \A b \in AggregatedBars : b + Lookback >= now =>
                     Told(Aggregated(b), PolledBetween(b, b + LongInterval))
    /\ TickerIsLatest
=============================================================================
