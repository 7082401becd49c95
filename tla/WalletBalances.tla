---------------------------- MODULE WalletBalances ----------------------------
(***************************************************************************)
(* What the API knows of the tokens in one wallet                          *)
(* (src/apps/api/src/users/users.service.ts): the balances of the listed   *)
(* tokens are read from the chain and stored, the RA balance beside them   *)
(* in the row of the user; the profile shows what is stored and reads      *)
(* again only after a while; a conversion reads always, and picks the      *)
(* tokens it offers to convert.  The network is the header's, and the API  *)
(* keeps a copy of it and of the conversion settings for some seconds.     *)
(***************************************************************************)
EXTENDS Naturals, FiniteSets, FiniteSetsExt, Sequences

CONSTANTS
    Nets,            \* networks
    Tokens, RA, SOL, \* the tokens of a wallet, RA and SOL among them
    Programs, ProgramOf, \* what owns the accounts of a token, and answers for them
    Amounts,         \* what an account may hold
    AccountsOf,      \* in how many accounts the wallet keeps a token that moves
    Listable,        \* tokens the administrators list and delist
    Calls2,          \* requests in flight at once
    PriceOf,         \* dollars; 0 when no price is known
    MinUsd, MaxUsd, MaxTokens,
    MaxChanges, MaxBalanceCalls

ASSUME BalancesAssumption ==
    /\ {RA, SOL} \subseteq Tokens /\ RA # SOL /\ ProgramOf \in [Tokens -> Programs]
    /\ AccountsOf \in [Tokens -> 0..2] /\ Listable \subseteq Tokens \ {RA}
    /\ Amounts \subseteq Nat /\ 0 \in Amounts /\ PriceOf \in [Tokens -> Nat]
    /\ MaxTokens \in Nat \ {0} /\ MaxChanges \in Nat /\ MaxBalanceCalls \in Nat

VARIABLES
    held,       \* the chain: by network and token, what its two accounts hold
    headerNet,  \* HeaderSetting.network
    cachedNet,  \* the copy the API keeps; {} when it has none
    listed,     \* active market tokens
    holdings,   \* WalletTokenHolding by network and token
    raBalance,  \* raOnchainBalance of the user
    due,        \* the balance is old enough to be read again
    reading,    \* what each request is doing
    answered,   \* the last answer: a profile, or the tokens a conversion offers
    clock,      \* history: counts the changes on the chain
    past,       \* history: what the chain held at each of them
    changes, balanceCalls

balanceVars == <<held, headerNet, cachedNet, listed, holdings, raBalance, due, reading,
                 answered, clock, past, changes, balanceCalls>>

NoHolding == [exists |-> FALSE]
NoReading == [stage |-> "none", kind |-> "profile", net |-> CHOOSE n \in Nets : TRUE,
              tracked |-> {}, found |-> [t \in Tokens |-> 0], blind |-> FALSE, at |-> 0]
Nothing == [t \in Tokens |-> <<0, 0>>]

BalancesInit ==
    /\ held = [n \in Nets |-> Nothing]
    /\ headerNet \in Nets /\ cachedNet = {} /\ listed = Tokens \ {RA}
    /\ holdings = [n \in Nets |-> [t \in Tokens |-> NoHolding]]
    /\ raBalance = [amount |-> 0, net |-> headerNet, at |-> 0, blind |-> FALSE] /\ due = TRUE
    /\ reading = [c \in Calls2 |-> NoReading]
    /\ answered = {}
    /\ clock = 0 /\ past = <<held>>
    /\ changes = 0 /\ balanceCalls = 0

Total(account) == account[1] + account[2]
Reads(c, r) == reading' = [reading EXCEPT ![c] = r]
ReadingAt(c, stage) == reading[c].stage = stage

-----------------------------------------------------------------------------
(* What changes around the API.                                             *)

Change == changes < MaxChanges /\ changes' = changes + 1

\* Tokens move in an account of the wallet.
ChainMoves ==
    /\ Change
    /\ \E n \in Nets, t \in Tokens, a \in Amounts : \E i \in 1..AccountsOf[t] :
          /\ a # held[n][t][i] /\ held' = [held EXCEPT ![n][t][i] = a]
    /\ clock' = clock + 1 /\ past' = Append(past, held')
    /\ UNCHANGED <<headerNet, cachedNet, listed, holdings, raBalance, due, reading, answered,
                   balanceCalls>>
NetworkSwitched ==
    /\ Change
    /\ headerNet' \in Nets \ {headerNet}
    /\ UNCHANGED <<held, cachedNet, listed, holdings, raBalance, due, reading, answered,
                   clock, past, balanceCalls>>
TokenListed ==
    /\ Change
    /\ \E t \in Listable : listed' = IF t \in listed THEN listed \ {t} ELSE listed \cup {t}
    /\ UNCHANGED <<held, headerNet, cachedNet, holdings, raBalance, due, reading, answered,
                   clock, past, balanceCalls>>
\* The copy of the settings gets old, and the balance due for another reading, while a
\* request is still to come.
CopyExpires ==
    /\ cachedNet # {} /\ balanceCalls < MaxBalanceCalls /\ cachedNet' = {}
    /\ UNCHANGED <<held, headerNet, listed, holdings, raBalance, due, reading, answered,
                   clock, past, changes, balanceCalls>>
BecomesDue ==
    /\ ~due /\ balanceCalls < MaxBalanceCalls /\ due' = TRUE
    /\ UNCHANGED <<held, headerNet, cachedNet, listed, holdings, raBalance, reading, answered,
                   clock, past, changes, balanceCalls>>

-----------------------------------------------------------------------------
(* Requests.                                                                *)

\* loadWalletHeaderRuntimeSettings: the copy, or a new one.
Network == IF cachedNet # {} THEN CHOOSE n \in cachedNet : TRUE ELSE headerNet

\* The profile reads the chain when that is due; sessions, stakes, claims and
\* conversions always do.
Request(c) ==
    /\ ReadingAt(c, "none") /\ balanceCalls < MaxBalanceCalls /\ balanceCalls' = balanceCalls + 1
    /\ cachedNet' = {Network} /\ answered' = {}
    /\ \E kind \in {"profile", "session", "convert"} :
          Reads(c, [NoReading EXCEPT !.kind = kind, !.net = Network,
                      !.stage = IF kind = "profile" /\ ~due THEN "showing" ELSE "listing"])
    /\ UNCHANGED <<held, headerNet, listed, holdings, raBalance, due, clock, past, changes>>

\* syncUserTrackedOnchainBalances first reads which tokens are listed; RA always is.
ListTracked(c) ==
    /\ ReadingAt(c, "listing")
    /\ Reads(c, [reading[c] EXCEPT !.stage = "fetching", !.tracked = listed \cup {RA}])
    /\ UNCHANGED <<held, headerNet, cachedNet, listed, holdings, raBalance, due, answered,
                   clock, past, changes, balanceCalls>>

\* fetchOnChainTokenBalanceDetails: SOL and the accounts of each program are asked for
\* on their own, and what did not answer counts as nothing, unless nobody answered.
Found(n, failing) ==
    [t \in Tokens |-> IF ProgramOf[t] \in failing THEN 0 ELSE Total(held[n][t])]
Fetch(c) ==
    /\ ReadingAt(c, "fetching")
    /\ \E failing \in SUBSET Programs \ {Programs} :
          Reads(c, [reading[c] EXCEPT !.stage = "storing", !.at = clock, !.blind = failing # {},
                      !.found = Found(reading[c].net, failing)])
    /\ UNCHANGED <<held, headerNet, cachedNet, listed, holdings, raBalance, due, answered,
                   clock, past, changes, balanceCalls>>
FetchFails(c) ==
    /\ ReadingAt(c, "fetching")
    /\ Reads(c, NoReading)
    /\ UNCHANGED <<held, headerNet, cachedNet, listed, holdings, raBalance, due, answered,
                   clock, past, changes, balanceCalls>>

Holding(r, t) == [exists |-> TRUE, amount |-> r.found[t], at |-> r.at, blind |-> r.blind]
\* Mutant: rows of tokens that are no longer tracked stay.
StoredKeepsOld(r, old) == [t \in Tokens |-> IF t \in r.tracked THEN Holding(r, t) ELSE old[t]]
\* The transaction: tracked tokens are written, other rows deleted, and the user's row
\* gets the RA balance.
Stored(r, old) == [t \in Tokens |-> IF t \in r.tracked THEN Holding(r, t) ELSE NoHolding]
Store(c) ==
    LET r == reading[c] IN
    /\ ReadingAt(c, "storing")
    /\ holdings' = [holdings EXCEPT ![r.net] = Stored(r, @)]
    /\ raBalance' = [amount |-> r.found[RA], net |-> r.net, at |-> r.at, blind |-> r.blind]
    /\ due' = FALSE
    /\ Reads(c, CASE r.kind = "profile" -> [r EXCEPT !.stage = "showing"]
                  [] r.kind = "session" -> NoReading
                  [] r.kind = "convert" -> [r EXCEPT !.stage = "choosing"])
    /\ UNCHANGED <<held, headerNet, cachedNet, listed, answered, clock, past, changes,
                   balanceCalls>>

\* getWalletProfile: the stored rows of the network, RA by the balance of the user's row.
Portfolio(n) ==
    {[token |-> t, amount |-> holdings[n][t].amount] :
        t \in {u \in Tokens \ {RA} : holdings[n][u].exists /\ holdings[n][u].amount > 0}}
    \cup {[token |-> RA, amount |-> raBalance.amount]}
ShowProfile(c) ==
    /\ ReadingAt(c, "showing")
    /\ answered' = {[net |-> reading[c].net, tokens |-> Portfolio(reading[c].net), ra |-> raBalance]}
    /\ Reads(c, NoReading)
    /\ UNCHANGED <<held, headerNet, cachedNet, listed, holdings, raBalance, due, clock, past,
                   changes, balanceCalls>>

-----------------------------------------------------------------------------
(* What a conversion offers.                                                *)

\* A balance is the sum over the accounts of a token, but the first account is named.
FirstAccount(account) == IF account[1] > 0 THEN 1 ELSE 2
\* getLiveMarketSnapshotsByMints: a token nobody quotes has no price.
Priced(t) == PriceOf[t] > 0
Worth(t, amount) ==
    Priced(t) /\ amount * PriceOf[t] >= MinUsd /\ amount * PriceOf[t] <= MaxUsd

\* fetchRaydiumConvertQuote: a token has a route to RA through the pool, or it has not.
Routes == {Tokens, {RA}}

\* listWalletConvertCandidates, after the sync: the chain is read once more, and of the
\* listed tokens whose price and route are known the most valuable are taken.
Candidates(n, failing, routable) ==
    LET found == Found(n, failing)
        usable == {t \in (listed \ {RA, SOL}) \cap routable : found[t] > 0 /\ Worth(t, found[t])}
        value(t) == found[t] * PriceOf[t]
        taken == CHOOSE s \in SUBSET usable :
                    /\ Cardinality(s) = IF Cardinality(usable) < MaxTokens THEN Cardinality(usable)
                                       ELSE MaxTokens
                    /\ \A t \in s, u \in usable \ s : value(t) >= value(u)
    IN  {[token |-> t, amount |-> found[t], account |-> FirstAccount(held[n][t])] : t \in taken}
Choose(c) ==
    /\ ReadingAt(c, "choosing")
    /\ \E failing \in SUBSET Programs \ {Programs}, routable \in Routes :
          answered' = {[net |-> reading[c].net, at |-> clock,
                       tokens |-> Candidates(reading[c].net, failing, routable)]}
    /\ Reads(c, NoReading)
    /\ UNCHANGED <<held, headerNet, cachedNet, listed, holdings, raBalance, due, clock, past,
                   changes, balanceCalls>>

-----------------------------------------------------------------------------
BalancesNext ==
    \/ ChainMoves \/ NetworkSwitched \/ TokenListed \/ CopyExpires \/ BecomesDue
    \/ \E c \in Calls2 : \/ Request(c) \/ ListTracked(c) \/ Fetch(c) \/ FetchFails(c) \/ Store(c)
                         \/ ShowProfile(c) \/ Choose(c)
BalancesSpec == BalancesInit /\ [][BalancesNext]_balanceVars

\* Types.
BalancesTypeOK ==
    /\ headerNet \in Nets /\ cachedNet \subseteq Nets /\ listed \subseteq Tokens
    /\ due \in BOOLEAN /\ raBalance.amount \in Nat
    /\ \A n \in Nets, t \in Tokens : holdings[n][t].exists \in BOOLEAN

\* The rows of a network come from one reading, so together they are what the chain held
\* at one moment; a reading that not everybody answered is the exception
\* (users.service.ts, syncUserTrackedOnchainBalances).
HoldingsAreOneMoment ==
    \A n \in Nets : \A t \in {u \in Tokens : holdings[n][u].exists} :
        /\ holdings[n][t].at = holdings[n][RA].at
        /\ ~holdings[n][t].blind =>
              holdings[n][t].amount = Total(past[holdings[n][t].at + 1][n][t])
=============================================================================
