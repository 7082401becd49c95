------------------------------- MODULE MCPrices -------------------------------
(* Prices and amounts: the poller of price history, its pairs and the bars   *)
(* made of the polls (PriceHistory), the settings of RA that choose the pair *)
(* and the published address, and the web server's processes that look it up *)
(* (RuntimeSettings), the live prices of market tokens (LivePrices), and the *)
(* amounts of a stake (PayoutRounding). The parts share no variable: every   *)
(* behaviour runs one of them while the others rest in one initial state, so *)
(* that their states add up instead of multiplying.                          *)
(*                                                                           *)
(* A token may be tracked as three pairs, two of them with one pool.  Quotes *)
(* go up to eight micros in thirds of a micro against several period rates   *)
(* and claim fees: fractions on both sides of a half, none of them at the    *)
(* mercy of how a tie rounds.                                                *)
EXTENDS PriceHistory, RuntimeSettings, LivePrices, PayoutRounding, TLC

MCCore == [key |-> "ra_sol", pool |-> "p1", fits |-> TRUE]
MCMetas == {MCCore,
            [key |-> "ra_usdc", pool |-> "p1", fits |-> FALSE],
            [key |-> "ra_alt", pool |-> "p2", fits |-> TRUE]}
MCPrincipals == 1 .. 24

-----------------------------------------------------------------------------
VARIABLE part   \* which of them runs

PricesInit ==
    /\ PriceInit /\ SettingsInit /\ BarsInit /\ LivePricesInit /\ PayoutInit /\ TargetInit
    /\ part \in {"history", "settings", "bars", "live", "payout", "target"}
    /\ part # "settings" => published = <<>>
    /\ part # "bars" => tickSize = 1
    /\ part # "live" => maxParallel = 1
    /\ part # "payout" => quote = [principal |-> 1, apr |-> 5] /\ feeBps = 0

HistoryPart ==
    /\ part = "history" /\ PriceNext
    /\ UNCHANGED <<part, settingsVars, barVars, livePricesVars, payoutVars, targetVars>>
SettingsPart ==
    /\ part = "settings" /\ SettingsNext
    /\ UNCHANGED <<part, priceVars, barVars, livePricesVars, payoutVars, targetVars>>
BarsPart ==
    /\ part = "bars" /\ BarsNext
    /\ UNCHANGED <<part, priceVars, settingsVars, livePricesVars, payoutVars, targetVars>>
LivePart ==
    /\ part = "live" /\ LivePricesNext
    /\ UNCHANGED <<part, priceVars, settingsVars, barVars, payoutVars, targetVars>>
PayoutPart ==
    /\ part = "payout" /\ PayoutNext
    /\ UNCHANGED <<part, priceVars, settingsVars, barVars, livePricesVars, targetVars>>

TargetPart ==
    /\ part = "target" /\ TargetNext
    /\ UNCHANGED <<part, priceVars, settingsVars, barVars, livePricesVars, payoutVars>>

PricesNext ==
    HistoryPart \/ SettingsPart \/ BarsPart \/ LivePart \/ PayoutPart \/ TargetPart
PricesSpec ==
    PricesInit /\ [][PricesNext]_<<part, priceVars, settingsVars, barVars, livePricesVars,
                                   payoutVars, targetVars>>

\* Every variable of every part keeps its shape.
PricesTypeOK ==
    /\ PriceTypeOK /\ SettingsTypeOK /\ BarsTypeOK /\ LivePricesTypeOK /\ PayoutTypeOK
    /\ TargetTypeOK

\* Whoever asks for prices finds the reading that is under way: one poll at a time
\* (pollOnce of ohlc-runtime.service.ts), one fetch for a mint, and no kept price replaced
\* by an older one (getLivePrice of market.service.ts).
OneReaderAtATime ==
    [](OnePoll /\ OneFetchPerMint /\ ListsWaitForFetches) /\ PricesMoveForward

\* Amounts rounded one by one miss each other by a micro at most, and what the program
\* accepts pays the right share (staking-transaction.service.ts, stake-pool).
AmountsAreRounded == []RoundingIsTheOnlyError /\ PaysTheRoundedShare

\* What administrators set holds: the poller runs on the stored settings and features a
\* pair that is tracked, of the pool of the network; the core pair stands; the proxy goes
\* back to the address before, and calls go to the address that was published
\* (ohlc-admin.service.ts, system-ra.service.ts, system-platform-settings.service.ts,
\* backend-target.ts).
SettingsHold ==
    /\ [](RunsAsStored /\ FeaturedIsTracked /\ PoolFollowsNetwork /\ PreviousIsTheLast
           /\ CallsGoWherePublished)
    /\ CorePairStands

\* The processes and administrators of some parts stand for the mints of another, their
\* calls and requests for its lists.
Interchangeable == Permutations(Mints) \cup Permutations(Lists)
=============================================================================
