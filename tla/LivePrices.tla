------------------------------ MODULE LivePrices ------------------------------
(***************************************************************************)
(* The live prices of market.service.ts: one fetch per mint from the price *)
(* source, a cache with a time to live, lists of tokens and administrators'*)
(* syncs that take the prices of their mints with a few workers at a time, *)
(* and the settings that turn it off, empty the cache or change the number *)
(* of workers.                                                             *)
(***************************************************************************)
EXTENDS Naturals, FiniteSets

CONSTANTS
    Mints,         \* mints of the listed tokens
    Flights,       \* requests to the price source under way at once
    NoFlight,
    Lists,         \* lists and syncs under way at once
    MaxTides,      \* changes of the prices at the source
    MaxTweaks,     \* changes of the settings
    Widths         \* values of maxParallelRequests
ASSUME PricesAssumption ==
    /\ MaxTides \in Nat /\ MaxTweaks \in Nat /\ Widths \subseteq Nat \ {0} /\ NoFlight \notin Flights
    /\ IsFiniteSet(Mints)

VARIABLES
    tide,          \* the prices at the source, numbered
    livePriceEnabled, maxParallel,
    priceCache,    \* livePriceCache: the prices kept, 0 when there is none
    flightOf,      \* livePriceInflight
    flights,       \* fetchDexPriceRaw under way
    list,          \* enrichTokensWithLivePrice and syncLivePricingNow under way
    discarded,     \* history: a fetch under way was taken off livePriceInflight
    tweaks

priceSettings == <<livePriceEnabled, maxParallel, tweaks, discarded>>
livePricesVars == <<tide, priceSettings, priceCache, flightOf, flights, list>>

NoPrice == [at |-> 0, fresh |-> FALSE]
Landed == [of |-> {}, answered |-> FALSE, at |-> 0]
NoList == [kind |-> "none", todo |-> {}, waits |-> {}, workers |-> 0]

LivePricesInit ==
    /\ tide = 1 /\ livePriceEnabled = TRUE /\ maxParallel \in Widths
    /\ priceCache = [m \in Mints |-> NoPrice] /\ flightOf = [m \in Mints |-> NoFlight]
    /\ flights = [f \in Flights |-> Landed] /\ list = [j \in Lists |-> NoList]
    /\ discarded = FALSE /\ tweaks = 0

Underway(f) == flights[f].of # {}
\* The source's prices change.
TideTurns ==
    /\ tide <= MaxTides /\ tide' = tide + 1
    /\ UNCHANGED <<priceSettings, priceCache, flightOf, flights, list>>

-----------------------------------------------------------------------------
(* Settings: updateLivePricingSettings.                                     *)

TurnOff ==
    /\ tweaks < MaxTweaks /\ tweaks' = tweaks + 1
    /\ livePriceEnabled' = FALSE
    /\ discarded' = (discarded \/ \E m \in Mints : flightOf[m] # NoFlight)
    /\ flightOf' = [m \in Mints |-> NoFlight]
    /\ UNCHANGED <<tide, maxParallel, priceCache, flights, list>>
Retune ==
    /\ tweaks < MaxTweaks /\ tweaks' = tweaks + 1
    /\ \/ livePriceEnabled' = TRUE /\ UNCHANGED <<maxParallel, priceCache>>
       \/ maxParallel' \in Widths /\ UNCHANGED <<livePriceEnabled, priceCache>>
       \/ priceCache' = [m \in Mints |-> NoPrice] /\ UNCHANGED <<livePriceEnabled, maxParallel>>
    /\ UNCHANGED <<tide, discarded, flightOf, flights, list>>
PriceExpires(m) ==
    /\ priceCache[m].fresh /\ priceCache' = [priceCache EXCEPT ![m].fresh = FALSE]
    /\ UNCHANGED <<tide, priceSettings, flightOf, flights, list>>

-----------------------------------------------------------------------------
(* Lists and syncs: mapWithConcurrency over getLivePrice.                   *)

\* The rows are read, and as many workers are started as the setting allows.
BeginList(j, kind) ==
    /\ list[j] = NoList
    /\ list' = [list EXCEPT ![j] =
         [kind |-> kind, todo |-> IF livePriceEnabled THEN Mints ELSE {}, waits |-> {},
          workers |-> IF maxParallel < Cardinality(Mints) THEN maxParallel
                                                          ELSE Cardinality(Mints)]]
    /\ UNCHANGED <<tide, priceSettings, priceCache, flightOf, flights>>

\* Mutant: a fetch under way is not joined.
JoinsNever(m) == FALSE
Joins(m) == flightOf[m] # NoFlight
Needed(j, m) == livePriceEnabled /\ (list[j].kind = "sync" \/ ~priceCache[m].fresh)
Takes(j, m) == list[j].todo \cap {m} # {} /\ Cardinality(list[j].waits) < list[j].workers
\* A worker takes a mint: the cache has it or prices are off, ...
TakeKept(j, m) ==
    /\ Takes(j, m) /\ ~Needed(j, m)
    /\ list' = [list EXCEPT ![j].todo = @ \ {m}]
    /\ UNCHANGED <<tide, priceSettings, priceCache, flightOf, flights>>
\* ... a fetch of it is under way, ...
TakeJoined(j, m) ==
    /\ Takes(j, m) /\ Needed(j, m) /\ Joins(m)
    /\ list' = [list EXCEPT ![j].todo = @ \ {m}, ![j].waits = @ \cup {flightOf[m]}]
    /\ UNCHANGED <<tide, priceSettings, priceCache, flightOf, flights>>
\* ... or it starts one.
TakeFetched(j, m) ==
    /\ Takes(j, m) /\ Needed(j, m) /\ ~Joins(m)
    /\ \E f \in Flights :
         /\ ~Underway(f)
         /\ flights' = [flights EXCEPT ![f] = [of |-> {m}, answered |-> FALSE, at |-> 0]]
         /\ flightOf' = [flightOf EXCEPT ![m] = f]
         /\ list' = [list EXCEPT ![j].todo = @ \ {m}, ![j].waits = @ \cup {f}]
    /\ UNCHANGED <<tide, priceSettings, priceCache>>
\* The source answers, ...
SourceAnswers(f) ==
    /\ Underway(f) /\ ~flights[f].answered
    /\ flights' = [flights EXCEPT ![f].answered = TRUE, ![f].at = tide]
    /\ UNCHANGED <<tide, priceSettings, priceCache, flightOf, list>>
\* ... and what it said is kept; or nothing came in time.  Whatever fetch of the mint is
\* registered is taken off.
FlightLands(f) ==
    /\ Underway(f)
    /\ LET m == CHOOSE x \in Mints : x \in flights[f].of IN
       /\ \/ flights[f].answered /\ priceCache' = [priceCache EXCEPT ![m] =
                                       [at |-> flights[f].at, fresh |-> TRUE]]
          \/ ~flights[f].answered /\ priceCache' = priceCache
       /\ discarded' = (discarded \/ flightOf[m] \notin {f, NoFlight})
       /\ flightOf' = [flightOf EXCEPT ![m] = NoFlight]
    /\ flights' = [flights EXCEPT ![f] = Landed]
    /\ list' = [j \in Lists |-> [list[j] EXCEPT !.waits = @ \ {f}]]
    /\ UNCHANGED <<tide, livePriceEnabled, maxParallel, tweaks>>
\* Every worker is done.
ListEnds(j) ==
    /\ list[j].kind # "none" /\ list[j].todo = {} /\ list[j].waits = {}
    /\ list' = [list EXCEPT ![j] = NoList]
    /\ UNCHANGED <<tide, priceSettings, priceCache, flightOf, flights>>

LivePricesNext ==
    \/ TideTurns \/ TurnOff \/ Retune
    \/ \E m \in Mints : PriceExpires(m)
    \/ \E j \in Lists : \/ ListEnds(j)
                        \/ \E kind \in {"list", "sync"} : BeginList(j, kind)
                        \/ \E m \in Mints : TakeKept(j, m) \/ TakeJoined(j, m) \/ TakeFetched(j, m)
    \/ \E f \in Flights : SourceAnswers(f) \/ FlightLands(f)
LivePricesSpec == LivePricesInit /\ [][LivePricesNext]_livePricesVars

-----------------------------------------------------------------------------
\* A type invariant.
LivePricesTypeOK ==
    /\ tide \in 1 .. MaxTides + 1 /\ livePriceEnabled \in BOOLEAN /\ maxParallel \in Widths
    /\ priceCache \in [Mints -> [at : 0 .. tide, fresh : BOOLEAN]]
    /\ flightOf \in [Mints -> Flights \cup {NoFlight}]
    /\ flights \in [Flights -> [of : SUBSET Mints, answered : BOOLEAN, at : 0 .. tide]]
    /\ list \in [Lists -> [kind : {"none", "list", "sync"}, todo : SUBSET Mints,
                           waits : SUBSET Flights, workers : Nat]]
    /\ discarded \in BOOLEAN /\ tweaks \in 0 .. MaxTweaks

\* While the prices are not turned off in the middle of a fetch, a mint is fetched once at
\* a time, the fetch is the one others find, and a kept price is not replaced by an older
\* one.
OneFetchPerMint ==
    ~discarded => \A f \in Flights, m \in Mints : m \in flights[f].of => flightOf[m] = f
PricesMoveForward ==
    [][~discarded' => \A m \in Mints : priceCache'[m].at \in {0} \cup {v \in 0 .. tide : v >= priceCache[m].at}]_livePricesVars

\* A list waits only for fetches under way and never for more than it has workers.
ListsWaitForFetches ==
    \A j \in Lists : /\ \A f \in list[j].waits : Underway(f)
                     /\ Cardinality(list[j].waits) <= list[j].workers
=============================================================================
