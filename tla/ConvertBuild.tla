----------------------------- MODULE ConvertBuild -----------------------------
(***************************************************************************)
(* What a conversion is made of (src/apps/api/src/users): the candidates   *)
(* among a wallet's tokens (listWalletConvertCandidates), their quotes and *)
(* swap transactions, which come from Raydium or from a cache shared by    *)
(* all requests, and the session a prepare request stores of them          *)
(* (prepareWalletConvert).  Its execution is in ConvertSession.            *)
(*                                                                         *)
(* A token stands for its account and its mint, an amount is a small       *)
(* number, and a quote promises as many RA as the amount times the price   *)
(* of the moment.  The checks before the first read are in WalletCalls,    *)
(* the limits in dollars in SettingsSpread.                                *)
(***************************************************************************)
EXTENDS Naturals, FiniteSets, Sequences, SequencesExt

CONSTANTS
    Tokens, NoToken,
    ConvertPools, FirstPool,      \* pools of RA: configured, or chosen by Raydium
    MaxAmount, MaxPrice,
    Requests,        \* previews and prepares that may be under way at once
    MaxTokensPerSession,
    MaxSwaps,        \* swap transactions built by Raydium
    MaxTurns         \* requests, and changes of anything around them

ASSUME BuildAssumption ==
    /\ IsFiniteSet(Tokens) /\ NoToken \notin Tokens /\ FirstPool \in ConvertPools
    /\ MaxAmount \in Nat \ {0} /\ MaxPrice \in Nat \ {0} /\ MaxTokensPerSession \in Nat
    /\ MaxSwaps \in Nat /\ MaxTurns \in Nat

VARIABLES
    wallet,      \* on chain: the amount of each token, whether there is an account for RA, and SOL
    pool,        \* RaRuntimeSetting: the pool a conversion must go through
    market,      \* Raydium: its price, and the pool it routes through
    quotes,      \* users:convert:raydium:quote, by token and amount
    built,       \* users:convert:raydium:prepared, by token, amount and promise
    swaps,       \* the swap transactions there are
    request,     \* each request under way
    got,         \* history: by token, how often the wallet got some from elsewhere
    repooled,    \* history: the pool was changed, or Raydium's route
    turns

buildVars == <<wallet, pool, market, quotes, built, swaps, request, got, repooled, turns>>

Amounts == 1 .. MaxAmount
Promises == 1 .. (MaxAmount * MaxPrice)
NoQuote == [promise |-> 0, pool |-> FirstPool]
SwapIds == 1 .. MaxSwaps
NoSwap == [token |-> NoToken, amount |-> 0, promise |-> 0, pool |-> FirstPool, landed |-> FALSE,
           got |-> 0]
NoRequest == [kind |-> "none", stage |-> "none", asked |-> <<>>, pool |-> FirstPool,
              amounts |-> [t \in Tokens |-> 0], sol |-> 0, needs |-> FALSE, left |-> {},
              found |-> [t \in Tokens |-> NoQuote], legs |-> <<>>, landed |-> {},
              got |-> [t \in Tokens |-> 0]]

BuildInit ==
    /\ wallet \in [amounts : [Tokens -> {0, 1}], opened : BOOLEAN, sol : {1, 3}]
    /\ pool = FirstPool /\ market = [price |-> 1, via |-> FirstPool]
    /\ quotes = [t \in Tokens |-> [a \in Amounts |-> NoQuote]]
    /\ built = [t \in Tokens |-> [a \in Amounts |-> [p \in Promises |-> 0]]]
    /\ swaps = [i \in SwapIds |-> NoSwap]
    /\ request = [r \in Requests |-> NoRequest]
    /\ got = [t \in Tokens |-> 0] /\ repooled = FALSE /\ turns = 0

Turns == turns < MaxTurns /\ turns' = turns + 1
At(r, stage) == request[r].stage = stage
Goes(r, q) == request' = [request EXCEPT ![r] = q]
Around == UNCHANGED <<wallet, pool, market, got, repooled, turns>>
Caches == UNCHANGED <<quotes, built, swaps>>
Landed == {i \in SwapIds : swaps[i].landed}

-----------------------------------------------------------------------------
(* The candidates.                                                          *)

\* A preview asks for all tokens, a prepare for some of them in some order, never for more
\* than a session takes (normalizeConvertTokenTickers leaves out doubles).
BeginRequest(r) ==
    /\ At(r, "none") /\ Turns
    /\ \/ Goes(r, [NoRequest EXCEPT !.kind = "preview", !.stage = "balances", !.pool = pool])
       \/ \E wanted \in SUBSET Tokens :
            /\ wanted # {} /\ Cardinality(wanted) <= MaxTokensPerSession
            /\ \E order \in SetToSeqs(wanted) :
                 Goes(r, [NoRequest EXCEPT !.kind = "prepare", !.stage = "balances", !.pool = pool,
                             !.asked = order])
    /\ Caches /\ UNCHANGED <<wallet, pool, market, got, repooled>>

\* The balances, then whether there is an account for RA.
ReadBalances(r) ==
    /\ At(r, "balances")
    /\ Goes(r, [request[r] EXCEPT !.stage = "account", !.amounts = wallet.amounts,
                   !.sol = wallet.sol, !.landed = Landed, !.got = got])
    /\ Caches /\ Around
ReadAccount(r) ==
    /\ At(r, "account")
    /\ LET q == request[r] IN
       Goes(r, [q EXCEPT !.stage = "quoting", !.needs = ~wallet.opened,
                   !.left = {t \in Tokens : q.amounts[t] > 0
                                            /\ (q.kind = "prepare" => Contains(q.asked, t))}])
    /\ Caches /\ Around

\* assertRaydiumRoutePolicy, for a quote fetched as for one that was kept.
\* Mutant: what was kept is taken as it is.
PolicyOfFetched(quote, required, kept) == kept \/ quote.pool = required
Policy(quote, required, kept) == quote.pool = required

\* fetchRaydiumConvertQuote, for the tokens in any order: a token whose quote fails, or
\* takes another route, is no candidate.
Quote(r) ==
    /\ At(r, "quoting")
    /\ \E t \in request[r].left :
         LET q == request[r]  amount == q.amounts[t]
             kept == quotes[t][amount]
             fetched == [promise |-> amount * market.price, pool |-> market.via]
             Found(quote, known) == IF Policy(quote, q.pool, known)
                   THEN Goes(r, [q EXCEPT !.left = @ \ {t}, !.found[t] = quote])
                   ELSE Goes(r, [q EXCEPT !.left = @ \ {t}])
         IN \/ kept # NoQuote /\ Found(kept, TRUE) /\ UNCHANGED quotes
            \/ /\ kept = NoQuote /\ Found(fetched, FALSE)
               /\ quotes' = IF fetched.pool = q.pool THEN [quotes EXCEPT ![t][amount] = fetched]
                                                     ELSE quotes
            \/ kept = NoQuote /\ Goes(r, [q EXCEPT !.left = @ \ {t}]) /\ UNCHANGED quotes
    /\ UNCHANGED <<built, swaps>> /\ Around

\* The transactions a session will be of, and the fee asked for them: one for each token,
\* and one for the account.
Estimate(q, candidates) ==
    IF candidates = {} THEN 0 ELSE Cardinality(candidates) + (IF q.needs THEN 1 ELSE 0)
Candidates(q) == {t \in Tokens : q.found[t] # NoQuote}

\* Every leg looks at shouldAttachUserRaAtaInit before the first of them has reset it.
\* Mutant: the last leg opens the account.
OpensLast(q, i) == q.needs /\ i = Len(q.asked)
Opens(q, i) == q.needs
\* With a token that is no candidate, or too little SOL, nothing is prepared.
BeginLegs(r) ==
    LET q == request[r] IN
    /\ At(r, "quoting") /\ q.left = {}
    /\ IF q.kind = "prepare" /\ ToSet(q.asked) \subseteq Candidates(q)
                             /\ q.sol >= Estimate(q, Candidates(q))
       THEN Goes(r, [q EXCEPT !.stage = "building",
              !.legs = [i \in DOMAIN q.asked |->
                          [token |-> q.asked[i], amount |-> q.amounts[q.asked[i]],
                           quote |-> q.found[q.asked[i]], opens |-> Opens(q, i), swap |-> 0]]])
       ELSE Goes(r, NoRequest)
    /\ Caches /\ Around

-----------------------------------------------------------------------------
(* The transactions.                                                        *)

\* The key of a swap that was built.
\* Mutant: a key without the promise.
KeptForAmount(leg) == LET P == {p \in Promises : built[leg.token][leg.amount][p] # 0}
                      IN IF P = {} THEN 0 ELSE built[leg.token][leg.amount][CHOOSE p \in P : TRUE]
KeptSwap(leg) == built[leg.token][leg.amount][leg.quote.promise]

\* buildRaydiumSwapTransactions, for the legs in any order; one that fails ends the request.
BuildLeg(r) ==
    /\ At(r, "building")
    /\ \E i \in DOMAIN request[r].legs :
         LET leg == request[r].legs[i]
             free == {j \in SwapIds : swaps[j] = NoSwap}
         IN /\ leg.swap = 0
            /\ \/ /\ KeptSwap(leg) # 0
                  /\ Goes(r, [request[r] EXCEPT !.legs[i].swap = KeptSwap(leg)])
                  /\ UNCHANGED <<built, swaps>>
               \/ \E j \in free :
                    /\ KeptSwap(leg) = 0 /\ \A k \in free : j <= k
                    /\ swaps' = [swaps EXCEPT ![j] = [NoSwap EXCEPT !.token = leg.token,
                          !.amount = leg.amount, !.promise = leg.quote.promise,
                          !.pool = leg.quote.pool, !.got = request[r].got[leg.token]]]
                    /\ built' = [built EXCEPT ![leg.token][leg.amount][leg.quote.promise] = j]
                    /\ Goes(r, [request[r] EXCEPT !.legs[i].swap = j])
    /\ UNCHANGED quotes /\ Around
BuildFails(r) ==
    /\ At(r, "building")
    /\ Goes(r, NoRequest) /\ Caches /\ Around

\* walletConversionSession.create; the answer goes to the wallet.
Save(r) ==
    /\ At(r, "building") /\ \A i \in DOMAIN request[r].legs : request[r].legs[i].swap # 0
    /\ Goes(r, [request[r] EXCEPT !.stage = "saved"])
    /\ Caches /\ Around
Answered(r) ==
    /\ At(r, "saved")
    /\ Goes(r, NoRequest) /\ Caches /\ Around

-----------------------------------------------------------------------------
(* Meanwhile.                                                               *)

\* A swap that was handed out lands, if the wallet still holds what it sells.
SwapLands ==
    /\ \E j \in SwapIds \ Landed :
         LET s == swaps[j] IN
         /\ s # NoSwap /\ wallet.amounts[s.token] >= s.amount /\ wallet.opened
         /\ swaps' = [swaps EXCEPT ![j].landed = TRUE]
         /\ wallet' = [wallet EXCEPT !.amounts[s.token] = @ - s.amount]
    /\ UNCHANGED <<pool, market, quotes, built, request, got, repooled, turns>>
\* The wallet gets a token from elsewhere, or opens its account.
Receive ==
    /\ Turns
    /\ \/ \E t \in Tokens :
            /\ wallet.amounts[t] < MaxAmount
            /\ wallet' = [wallet EXCEPT !.amounts[t] = @ + 1]
            /\ got' = [got EXCEPT ![t] = @ + 1]
       \/ ~wallet.opened /\ wallet' = [wallet EXCEPT !.opened = TRUE] /\ UNCHANGED got
    /\ UNCHANGED <<pool, market, quotes, built, swaps, request, repooled>>
Retune ==
    /\ Turns
    /\ \/ \E p \in ConvertPools \ {pool} : pool' = p /\ repooled' = TRUE /\ UNCHANGED market
       \/ \E p \in ConvertPools \ {market.via} :
             market' = [market EXCEPT !.via = p] /\ repooled' = TRUE /\ UNCHANGED pool
       \/ \E n \in (1 .. MaxPrice) \ {market.price} :
             market' = [market EXCEPT !.price = n] /\ UNCHANGED <<pool, repooled>>
    /\ UNCHANGED <<wallet, quotes, built, swaps, request, got>>
CacheExpires ==
    /\ Turns
    /\ \E t \in Tokens, a \in Amounts :
         \/ /\ quotes[t][a] # NoQuote /\ quotes' = [quotes EXCEPT ![t][a] = NoQuote]
            /\ UNCHANGED built
         \/ \E p \in Promises :
              /\ built[t][a][p] # 0 /\ built' = [built EXCEPT ![t][a][p] = 0]
              /\ UNCHANGED quotes
    /\ UNCHANGED <<wallet, pool, market, swaps, request, got, repooled>>

BuildNext ==
    \/ \E r \in Requests :
         \/ BeginRequest(r) \/ ReadBalances(r) \/ ReadAccount(r) \/ Quote(r) \/ BeginLegs(r)
         \/ BuildLeg(r) \/ BuildFails(r) \/ Save(r) \/ Answered(r)
    \/ SwapLands \/ Receive \/ Retune \/ CacheExpires
BuildSpec == BuildInit /\ [][BuildNext]_buildVars

-----------------------------------------------------------------------------
\* Types.
BuildTypeOK ==
    /\ wallet \in [amounts : [Tokens -> 0 .. MaxAmount], opened : BOOLEAN, sol : Nat]
    /\ pool \in ConvertPools /\ market \in [price : 1 .. MaxPrice, via : ConvertPools]
    /\ \A t \in Tokens, a \in Amounts :
         /\ quotes[t][a] = NoQuote \/ quotes[t][a].promise \in Promises
         /\ \A p \in Promises : built[t][a][p] \in SwapIds \cup {0}
    /\ \A r \in Requests :
         request[r].stage \in {"none", "balances", "account", "quoting", "building", "saved"}

Sessions == {r \in Requests : At(r, "saved")}
LegsOf(r) == ToSet(request[r].legs)

\* The swap of a leg sells the amount the leg is about for the RA its quote promised,
\* whatever other requests left in the caches; it goes through the pool of the quote too,
\* unless the pool or the route changed while a swap was kept (buildRaydiumSwapTransactions).
SwapsAreAsQuoted ==
    \A r \in Sessions : \A leg \in LegsOf(r) :
      LET s == swaps[leg.swap] IN
      /\ s.token = leg.token /\ s.amount = leg.amount /\ s.promise = leg.quote.promise
      /\ repooled \/ s.pool = leg.quote.pool

\* Every leg is quoted through the pool that was configured when its request began, also
\* where the quote was kept from before a change (assertRaydiumRoutePolicy).
QuotesFollowThePool ==
    \A r \in Sessions : \A leg \in LegsOf(r) : leg.quote.pool = request[r].pool

\* A session holds the tokens that were asked for, in their order, with the first leg
\* opening the account if there was none; it is as many transactions as the fee was
\* estimated for, unless several legs open the account.
SessionsAreAsAsked ==
    \A r \in Sessions :
      LET q == request[r]
          count == Len(q.legs) + Cardinality({i \in DOMAIN q.legs : q.legs[i].opens}) IN
      /\ Len(q.legs) = Len(q.asked) /\ \A i \in DOMAIN q.legs : q.legs[i].token = q.asked[i]
      /\ q.needs => q.legs[1].opens
      /\ count = Estimate(q, ToSet(q.asked)) \/ (q.needs /\ Len(q.asked) > 1)

\* No swap is handed out that had landed when the balances were read, unless the wallet
\* has got the same token again since those that the swap was built from were read.
NoSwapTwice ==
    \A r \in Sessions : \A leg \in LegsOf(r) :
      leg.swap \in request[r].landed => request[r].got[leg.token] > swaps[leg.swap].got
=============================================================================
