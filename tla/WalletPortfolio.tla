---------------------------- MODULE WalletPortfolio ----------------------------
(***************************************************************************)
(* What one browser tab shows a visitor of their money.  WalletStoreSync   *)
(* derives the wallet the application works with from the wallet adapter   *)
(* and the signature markers; UserDataSync loads that wallet's profile     *)
(* from the API; useSolanaPortfolio keeps one shared list of the tokens of *)
(* the adapter's wallet on the network in use; the portfolio page merges   *)
(* the two lists.  A React effect runs with the change that triggers it.   *)
(***************************************************************************)
EXTENDS Naturals, FiniteSets

CONSTANTS
    Holders,       \* wallets of the visitor
    NoHolder,
    Nets,          \* networks the adapter's RPC endpoint may be of
    Requests,      \* profile requests under way at once
    MaxSwitches    \* what the visitor, the clock and the administrators do
ASSUME PortfolioAssumption == NoHolder \notin Holders /\ MaxSwitches \in Nat

VARIABLES
    adapter,       \* publicKey of the wallet adapter
    net,           \* the network of its RPC endpoint
    stamped,       \* wallets with a valid signature session
    appWallet,     \* walletAddress of store/wallet
    leaving,       \* handleLogout waits for the adapter to disconnect
    shared,        \* sharedState of use-solana-portfolio.ts
    inFlight,      \* inFlightByWalletKey
    profile,       \* the profile store
    request,       \* loadProfile calls waiting for the API
    delayed,       \* wallets whose profile a timer is about to load
    outlived,      \* history: such a timer ran after the wallet had changed
    switches

walletVars == <<adapter, net, stamped, appWallet, leaving>>
chainVars == <<shared, inFlight>>
profileVars == <<profile, request, delayed, outlived>>
portfolioVars == <<walletVars, chainVars, profileVars, switches>>

Someone == Holders \cup {NoHolder}
PairsOf(n, w) == <<n, w>>
NoKey == <<"none", NoHolder>>
WalletKeys == Nets \X Holders
\* getWalletKey of the wallet the adapter has.
CurrentKey(n, w) == IF w = NoHolder THEN NoKey ELSE PairsOf(n, w)
NoTokens == [of |-> NoKey, has |-> FALSE]
NoProfile == [wallet |-> NoHolder, loading |-> FALSE, loaded |-> FALSE, of |-> NoHolder, has |-> FALSE]
NoRequest == [of |-> NoHolder]

PortfolioInit ==
    /\ adapter = NoHolder /\ net \in Nets /\ stamped = {} /\ appWallet = NoHolder
    /\ leaving = FALSE
    /\ shared = [key |-> NoKey, tokens |-> NoTokens, loading |-> FALSE]
    /\ inFlight = [k \in WalletKeys |-> FALSE]
    /\ profile = NoProfile /\ request = [r \in Requests |-> NoRequest] /\ delayed = {}
    /\ outlived = FALSE /\ switches = 0

Switches == switches < MaxSwitches /\ switches' = switches + 1

-----------------------------------------------------------------------------
(* The list of tokens on the chain.                                         *)

\* ensurePortfolioLoaded: join the load of the key under way, or start one.
Ensure(s, flying, k) ==
    IF k = NoKey THEN /\ shared' = [key |-> NoKey, tokens |-> NoTokens, loading |-> FALSE]
                      /\ inFlight' = flying
    ELSE /\ inFlight' = [flying EXCEPT ![k] = TRUE]
         /\ shared' = [key |-> k, loading |-> TRUE,
                       tokens |-> IF flying[k] \/ s.key = k THEN s.tokens ELSE NoTokens]
\* The list is less than 20 s old.
CacheServes(k) == shared.key = k /\ ~shared.loading /\ UNCHANGED chainVars

\* Mutant: a load that brings nothing publishes nothing.
PublishesOnSuccess(k) ==
    IF shared.key # k THEN shared' = shared
    ELSE \/ shared' = [shared EXCEPT !.tokens = [of |-> k, has |-> TRUE], !.loading = FALSE]
         \/ shared' = shared
\* A load ends: the RPC was reached for all, or nothing is known but a zero of SOL.
Publishes(k) ==
    IF shared.key # k THEN shared' = shared
    ELSE \E has \in BOOLEAN :
           shared' = [shared EXCEPT !.tokens = [of |-> k, has |-> has], !.loading = FALSE]
LoadEnds(k) ==
    /\ inFlight[k] /\ inFlight' = [inFlight EXCEPT ![k] = FALSE]
    /\ Publishes(k)
    /\ UNCHANGED <<walletVars, profileVars, switches>>

\* refreshPortfolio({clearFirst: true}), which the conversion window calls at its end.
ClearAndRefresh ==
    /\ adapter # NoHolder /\ Switches
    /\ LET k == CurrentKey(net, adapter) IN
       /\ shared' = [key |-> k, tokens |-> NoTokens, loading |-> TRUE]
       /\ inFlight' = [inFlight EXCEPT ![k] = TRUE]
    /\ UNCHANGED <<walletVars, profileVars>>

-----------------------------------------------------------------------------
(* The profile.                                                             *)

\* loadProfile up to its await: another wallet's data is cleared.
Asked(p, w) ==
    IF p.wallet = w THEN [p EXCEPT !.loading = ~p.loaded]
    ELSE [p EXCEPT !.wallet = w, !.loading = TRUE, !.of = NoHolder, !.has = FALSE]
LoadProfile(p, w) ==
    /\ profile' = Asked(p, w)
    /\ \E r \in Requests : request[r] = NoRequest /\ request' = [request EXCEPT ![r].of = w]
ClearProfile == profile' = NoProfile /\ request' = request
\* What the effects of UserDataSync do for wallet w.
SyncProfile(p, w, marks) ==
    IF w # NoHolder /\ w \in marks THEN LoadProfile(p, w) ELSE ClearProfile
\* Mutant: the answer is stored whatever wallet is shown by then.
AnswerIsOursAlways(w) == TRUE
AnswerIsOurs(w) == profile.wallet = w
ProfileAnswered(r) ==
    LET w == request[r].of IN
    /\ w # NoHolder /\ request' = [request EXCEPT ![r] = NoRequest]
    /\ IF AnswerIsOurs(w)
       THEN \/ \E has \in BOOLEAN :
                 profile' = [profile EXCEPT !.loading = FALSE, !.loaded = TRUE,
                                            !.of = w, !.has = has]
            \/ profile' = [profile EXCEPT !.loading = FALSE]
       ELSE profile' = profile
    /\ UNCHANGED <<walletVars, chainVars, delayed, outlived, switches>>

\* The 45 s timer, the tab is focused, or the runtime settings changed.
RefreshDue ==
    /\ appWallet # NoHolder /\ Switches
    /\ SyncProfile(profile, appWallet, stamped)
    /\ UNCHANGED <<walletVars, chainVars, delayed, outlived>>
\* The 700 ms timer of a signature event; it is not cancelled when the wallet changes.
DelayedLoad(w) ==
    /\ w \in delayed /\ delayed' = delayed \ {w}
    /\ LoadProfile(profile, w)
    /\ outlived' = (outlived \/ w # appWallet)
    /\ UNCHANGED <<walletVars, chainVars, switches>>

-----------------------------------------------------------------------------
(* The wallet.                                                              *)

\* The application's wallet once the effect of WalletStoreSync ran.
Derived(w, marks) == IF w \in marks THEN w ELSE NoHolder
\* setConnection and the effect of UserDataSync, when it changed.  The listener of the
\* old wallet has cleared the profile when that wallet's marker went away first.
Reconnect(w, marks) ==
    /\ stamped' = marks /\ appWallet' = Derived(w, marks)
    /\ LET left == appWallet # NoHolder /\ appWallet \notin marks
           p == IF left THEN NoProfile ELSE profile IN
       IF Derived(w, marks) = appWallet THEN profile' = p /\ request' = request
       ELSE SyncProfile(p, Derived(w, marks), marks)

\* The visitor picks a wallet in the extension, or disconnects it: the marker of the
\* wallet before is taken away.
Switch(w) ==
    /\ w # adapter /\ Switches
    /\ adapter' = w
    /\ Reconnect(w, stamped \ {adapter})
    /\ LET k == CurrentKey(net, w) IN Ensure(shared, inFlight, k) \/ CacheServes(k)
    /\ UNCHANGED <<net, leaving, delayed, outlived>>
\* The platform's network changes: so does the RPC endpoint.
SwitchNet(n) ==
    /\ n # net /\ Switches /\ net' = n
    /\ LET k == CurrentKey(n, adapter) IN Ensure(shared, inFlight, k) \/ CacheServes(k)
    /\ UNCHANGED <<adapter, stamped, appWallet, leaving, profileVars>>
\* The wallet signs in: saveWalletSignatureSession.
SignIn ==
    /\ adapter # NoHolder /\ adapter \notin stamped /\ Switches
    /\ Reconnect(adapter, stamped \cup {adapter})
    /\ UNCHANGED <<adapter, net, leaving, chainVars, delayed, outlived>>
\* A forced sign-out of w, maybe a late one of a wallet no longer shown: its marker goes
\* and every listener hears of it.
MarkerCleared(w) ==
    /\ w \in Holders /\ Switches
    /\ Reconnect(adapter, stamped \ {w})
    /\ delayed' = IF appWallet # NoHolder /\ appWallet \in stamped \ {w}
                  THEN delayed \cup {appWallet} ELSE delayed
    /\ UNCHANGED <<adapter, net, leaving, chainVars, outlived>>
\* handleLogout: the marker first, then the adapter, which may refuse, then the store.
LogOut ==
    /\ adapter # NoHolder /\ ~leaving /\ Switches
    /\ Reconnect(adapter, stamped \ {adapter}) /\ leaving' = TRUE
    /\ UNCHANGED <<adapter, net, chainVars, delayed, outlived>>
LoggedOut ==
    /\ leaving /\ leaving' = FALSE
    /\ \E w \in {adapter, NoHolder} :
         /\ adapter' = w /\ stamped' = stamped \ ({adapter} \ {w})
         /\ IF w = adapter THEN UNCHANGED chainVars
            ELSE Ensure(shared, inFlight, NoKey)
    /\ appWallet' = NoHolder
    /\ IF appWallet = NoHolder THEN UNCHANGED <<profile, request>> ELSE ClearProfile
    /\ UNCHANGED <<net, delayed, outlived, switches>>

PortfolioNext ==
    \/ \E k \in WalletKeys : LoadEnds(k)
    \/ \E r \in Requests : ProfileAnswered(r)
    \/ ClearAndRefresh \/ RefreshDue \/ SignIn \/ LogOut \/ LoggedOut
    \/ \E w \in Holders : DelayedLoad(w) \/ MarkerCleared(w)
    \/ \E w \in Someone : Switch(w)
    \/ \E n \in Nets : SwitchNet(n)
PortfolioSpec == PortfolioInit /\ [][PortfolioNext]_portfolioVars

-----------------------------------------------------------------------------
(* What is shown.                                                           *)

\* The list useSolanaPortfolio returns.
Returned == IF shared.key = CurrentKey(net, adapter) THEN shared.tokens ELSE NoTokens
\* buildTrackedPortfolioTokens: whose amount the row of a listed token shows, and the row
\* of the platform's own token.  The pages prefer the profile when it is the newer of the
\* two, the staking window never does.
ListedRow(prefer) == IF prefer \/ ~Returned.has THEN profile.of ELSE Returned.of[2]
RaRow(prefer) == IF prefer \/ profile.has THEN profile.of ELSE Returned.of[2]
Rows == UNION {{ListedRow(prefer), RaRow(prefer)} : prefer \in BOOLEAN}

\* A type invariant.
PortfolioTypeOK ==
    /\ adapter \in Someone /\ net \in Nets /\ stamped \subseteq Holders /\ appWallet \in Someone
    /\ leaving \in BOOLEAN
    /\ shared \in [key : WalletKeys \cup {NoKey}, loading : BOOLEAN,
                   tokens : [of : WalletKeys \cup {NoKey}, has : BOOLEAN]]
    /\ inFlight \in [WalletKeys -> BOOLEAN]
    /\ profile \in [wallet : Someone, loading : BOOLEAN, loaded : BOOLEAN, of : Someone,
                    has : BOOLEAN]
    /\ request \in [Requests -> [of : Someone]] /\ delayed \subseteq Holders
    /\ outlived \in BOOLEAN /\ switches \in 0 .. MaxSwitches

\* A signed-in visitor sees amounts of their own wallet on the network in use, however
\* the answers and the wallets interleave, except that the tokens of another wallet may
\* be shown until the load of this one that is under way ends (ensurePortfolioLoaded
\* joins it without clearing the list), and that the profile of a wallet left may be
\* loaded by the timer of a signature event.
RowsAreOfTheWallet ==
    appWallet # NoHolder =>
        LET k == CurrentKey(net, adapter)
            late == (IF outlived THEN {profile.of} ELSE {})
                    \cup (IF inFlight[k] THEN {Returned.of[2]} ELSE {})
        IN /\ Rows \subseteq {NoHolder, appWallet} \cup late
           /\ Returned.of \in {NoKey, k} \/ inFlight[k]

\* A list said to be loading has a load under way that will publish it, and a profile
\* said to be loading has its request.
SpinnersEnd ==
    /\ shared.loading => shared.key # NoKey /\ inFlight[shared.key]
    /\ profile.loading => \E r \in Requests : request[r].of = profile.wallet

\* The application works with a wallet that is connected and has signed.
AppIsSigned == appWallet # NoHolder => appWallet = adapter /\ appWallet \in stamped
=============================================================================
