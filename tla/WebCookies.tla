------------------------------ MODULE WebCookies ------------------------------
(***************************************************************************)
(* The cookies of one browser, and the web server that sets and clears     *)
(* them: the proxy in front of the API (apps/web/app/api/_shared) and the  *)
(* middleware in front of the pages (apps/web/middleware.ts).  A call      *)
(* carries the cookies of the moment it is sent, and what its answer does  *)
(* to them happens when it arrives, by then to other cookies perhaps.  The *)
(* challenge a wallet signs is in AuthChallenge, the runs of a tab that    *)
(* send the calls are in SessionTracker.                                   *)
(* What the page tells of a block (solera_blocked_notice) is left out.     *)
(***************************************************************************)
EXTENDS Naturals, FiniteSets

CONSTANTS
    Wallets,         \* wallets the browser connects
    NoWallet,
    Errands,         \* calls that may be under way at once
    MaxTokens,       \* tokens the API gives out
    MaxErrands       \* calls, and changes by administrators

ASSUME CookieAssumption ==
    MaxTokens \in Nat /\ MaxErrands \in Nat /\ NoWallet \notin Wallets

VARIABLES
    jar,         \* solera_user_token and solera_news_vid; 0 for none
    holder,      \* by token: the wallet it was given to; NoWallet before
    stale,       \* tokens that have expired
    bar,         \* by wallet: whether the message of its block has the word in it, and which
    connect,     \* HeaderSetting.connectEnabled
    gateCache,   \* connectEnabledCache of the middleware
    errand,      \* each call under way
    readers,     \* how many reader ids were issued
    voted,       \* history: reader ids that reached the API
    dropped,     \* history: tokens that were cleared before they expired
    told,        \* history: tokens whose barred wallet was answered
    excused,     \* history: tokens that a call of another time or wallet may clear
    shut,        \* history: connecting was off, or could not be asked
    split,       \* history: the first calls for news overlapped or failed
    errands

cookieVars == <<jar, holder, stale, bar, connect, gateCache, errand, readers, voted, dropped,
                told, excused, shut, split, errands>>
cookieHistory == <<voted, dropped, told, excused, shut, split>>

Tokens == 1 .. MaxTokens
NoErrand == [kind |-> "none", stage |-> "none", answer |-> "none", token |-> 0, of |-> NoWallet,
             reader |-> 0, gave |-> 0, bar |-> [how |-> "no", nr |-> 0], fallback |-> FALSE]

CookiesInit ==
    /\ jar = [token |-> 0, reader |-> 0]
    /\ holder = [t \in Tokens |-> NoWallet] /\ stale = {}
    /\ bar = [w \in Wallets |-> [how |-> "no", nr |-> 0]]
    /\ connect \in BOOLEAN /\ gateCache = [known |-> FALSE, fresh |-> FALSE, on |-> FALSE]
    /\ errand = [c \in Errands |-> NoErrand] /\ readers = 0
    /\ voted = {} /\ dropped = {} /\ told = {} /\ excused = {} /\ split = FALSE
    /\ shut = ~connect /\ errands = 0

OnTheWay == {c \in Errands : errand[c].kind # "none"}
InStage(c, stage) == errand[c].stage = stage
Counts == errands < MaxErrands /\ errands' = errands + 1
Becomes(c, e) == errand' = [errand EXCEPT ![c] = e]
Valid(t) == t # 0 /\ t \notin stale
OtherCookies == UNCHANGED <<jar, holder, stale, bar, connect, gateCache>>

-----------------------------------------------------------------------------
(* A call is sent, with the cookies there are.                              *)

Sends(c, kind, of, stage) ==
    /\ c \notin OnTheWay /\ Counts
    /\ Becomes(c, [NoErrand EXCEPT !.kind = kind, !.stage = stage, !.of = of, !.token = jar.token,
                   !.bar = IF of = NoWallet THEN @ ELSE bar[of]])

\* A call about one wallet, or its signature; the token need not be of that wallet.
AskFor(c, kind) ==
    /\ \E w \in Wallets :
          /\ Sends(c, kind, w, "asked")
          /\ excused' = excused \cup {t \in Tokens : jar.token = t /\ holder[t] # w}
    /\ OtherCookies /\ UNCHANGED <<readers, voted, dropped, told, shut, split>>
AskUsers(c) == AskFor(c, "users")
AskVerify(c) == AskFor(c, "verify")
\* The proxy answers a logout by itself.
AskLogout(c) ==
    /\ Sends(c, "logout", NoWallet, "answered")
    /\ excused' = excused \cup ({jar.token} \ {0})
    /\ OtherCookies /\ UNCHANGED <<readers, voted, dropped, told, shut, split>>
\* Without a token the middleware has nothing to clear.
AskPage(c) ==
    /\ jar.token # 0
    /\ Sends(c, "page", holder[jar.token], "gate")
    /\ OtherCookies /\ UNCHANGED <<readers, cookieHistory>>

\* Mutant: the id a browser brings is not looked at.
BroughtNone(j) == 0
Brought(j) == j.reader
\* getOrIssueNewsClientId: a browser that brings no id is given one.
AskNews(c) ==
    /\ c \notin OnTheWay /\ Counts
    /\ LET fresh == Brought(jar) = 0 IN
          /\ readers' = IF fresh THEN readers + 1 ELSE readers
          /\ Becomes(c, [NoErrand EXCEPT !.kind = "news", !.stage = "asked",
                        !.reader = IF fresh THEN readers + 1 ELSE Brought(jar)])
    /\ split' = (split \/ (jar.reader = 0 /\ \E d \in OnTheWay : errand[d].kind = "news"))
    /\ OtherCookies /\ UNCHANGED <<voted, dropped, told, excused, shut>>

-----------------------------------------------------------------------------
(* The API.                                                                 *)

\* What assertWalletNotBlocked answers; the proxy knows a block by a word in the message.
BarAnswer(w) == CASE bar[w].how = "no" -> "ok" [] bar[w].how = "worded" -> "barred"
                  [] bar[w].how = "silent" -> "silent"
Answers(c, answer) == Becomes(c, [errand[c] EXCEPT !.stage = "answered", !.answer = answer])

\* assertWalletAccessToken: the token must be valid, and of the wallet the call is about.
AnswerUsers(c) ==
    LET e == errand[c] IN
    /\ InStage(c, "asked") /\ e.kind = "users"
    /\ Answers(c, IF Valid(e.token) /\ holder[e.token] = e.of THEN BarAnswer(e.of) ELSE "refused")
    /\ OtherCookies /\ UNCHANGED <<readers, errands, cookieHistory>>
AnswerVerify(c) ==
    LET e == errand[c]  fresh == {t \in Tokens : holder[t] = NoWallet} IN
    /\ InStage(c, "asked") /\ e.kind = "verify"
    /\ IF BarAnswer(e.of) # "ok" THEN Answers(c, BarAnswer(e.of)) /\ UNCHANGED holder
       ELSE \E t \in fresh :
              /\ \A u \in fresh : t <= u
              /\ holder' = [holder EXCEPT ![t] = e.of]
              /\ Becomes(c, [e EXCEPT !.stage = "answered", !.answer = "ok", !.gave = t])
    /\ UNCHANGED <<jar, stale, bar, connect, gateCache, readers, errands, cookieHistory>>
AnswerNews(c) ==
    /\ InStage(c, "asked") /\ errand[c].kind = "news"
    /\ voted' = voted \cup {errand[c].reader}
    /\ Answers(c, "ok")
    /\ OtherCookies /\ UNCHANGED <<readers, dropped, told, excused, shut, split, errands>>

\* The API refuses for another reason, or does not answer in time: no cookie is touched.
AskedInVain(c) ==
    /\ InStage(c, "asked")
    /\ Answers(c, "failed")
    /\ IF errand[c].kind # "news" THEN UNCHANGED <<voted, split>>
       ELSE /\ voted' \in {voted, voted \cup {errand[c].reader}}
            /\ split' = (split \/ errand[c].reader # jar.reader)
    /\ OtherCookies /\ UNCHANGED <<readers, dropped, told, excused, shut, errands>>

-----------------------------------------------------------------------------
(* The middleware, for a page asked for with a token.                       *)

\* With connecting off, or a token that has expired, the cookie goes; else the wallet is
\* looked up.
Gated(c, on) ==
    IF on /\ Valid(errand[c].token)
        THEN Becomes(c, [errand[c] EXCEPT !.stage = "access", !.fallback = FALSE])
        ELSE Answers(c, "cleared")
AskGate(c) ==
    /\ InStage(c, "gate")
    /\ IF gateCache.fresh THEN Gated(c, gateCache.on)
       ELSE Becomes(c, [errand[c] EXCEPT !.stage = "fetching",
                                      !.fallback = gateCache.known /\ gateCache.on])
    /\ OtherCookies /\ UNCHANGED <<readers, errands, cookieHistory>>
\* fetchMiddlewareBackendJson: what the API says, or what to take it for if no address
\* answers in time.
Fetched(says, fallback) == {says, fallback}
\* isConnectEnabled: a fetch that fails answers what was kept, or FALSE, and that is kept.
GateFetched(c) ==
    /\ InStage(c, "fetching")
    /\ \E on \in Fetched(connect, errand[c].fallback) :
          /\ gateCache' = [known |-> TRUE, fresh |-> TRUE, on |-> on]
          /\ shut' = (shut \/ ~on)
          /\ Gated(c, on)
    /\ UNCHANGED <<jar, holder, stale, bar, connect, readers, errands, voted, dropped, told,
                   excused, split>>
\* getWalletAccess tells a block whatever its message.
WalletAccess(w) == IF bar[w].how = "no" THEN "ok" ELSE "barred"
\* A lookup that fails lets the page through.
CheckAccess(c) ==
    /\ InStage(c, "access")
    /\ \E answer \in Fetched(WalletAccess(errand[c].of), "unchecked") :
          Answers(c, answer)
    /\ OtherCookies /\ UNCHANGED <<readers, errands, cookieHistory>>
GateExpires ==
    /\ gateCache.fresh /\ gateCache' = [gateCache EXCEPT !.fresh = FALSE]
    /\ UNCHANGED <<jar, holder, stale, bar, connect, errand, readers, errands, cookieHistory>>

-----------------------------------------------------------------------------
(* The answer arrives.                                                      *)

\* Mutants: an answer clears whatever was refused; a block clears nothing.
ClearsOnAnyRefusal(e) ==
    e.answer \in {"cleared", "barred", "refused", "failed"} \/ e.kind = "logout"
ClearsNotBarred(e) == e.answer \in {"cleared", "refused"} \/ e.kind = "logout"
Clears(e) == e.answer \in {"cleared", "barred", "refused"} \/ e.kind = "logout"

\* A block this call was sent under and answered under, and of which the answer told.
ToldOf(e) ==
    {t \in Tokens : /\ t = e.token /\ t \notin stale /\ holder[t] = e.of /\ bar[e.of] = e.bar
                    /\ \/ e.kind = "page" /\ e.bar.how # "no" /\ e.answer # "unchecked"
                       \/ e.kind = "users" /\ e.bar.how = "worded" /\ e.answer # "failed"}

\* applyCookies, with what the answer sets or clears.
Applied(e) ==
    [token |-> IF Clears(e) THEN 0 ELSE IF e.gave # 0 THEN e.gave ELSE jar.token,
     reader |-> IF e.kind = "news" /\ e.answer = "ok" THEN e.reader ELSE jar.reader]

AnswerArrives(c) ==
    LET e == errand[c] IN
    /\ InStage(c, "answered")
    /\ jar' = Applied(e)
    /\ dropped' = dropped \cup {t \in Tokens \ stale : t = jar.token /\ jar'.token = 0}
    /\ told' = told \cup ToldOf(e)
    /\ excused' = excused \cup {t \in Tokens : t = e.gave /\ OnTheWay # {c}}
    /\ Becomes(c, NoErrand)
    /\ UNCHANGED <<holder, stale, bar, connect, gateCache, readers, errands, voted, shut, split>>

\* It does not: the page is gone.
NeverArrives(c) ==
    /\ InStage(c, "answered")
    /\ split' = (split \/ (errand[c].kind = "news" /\ errand[c].reader # jar.reader))
    /\ Becomes(c, NoErrand)
    /\ OtherCookies /\ UNCHANGED <<readers, errands, voted, dropped, told, excused, shut>>

-----------------------------------------------------------------------------
(* Meanwhile.                                                               *)

TokenGoesStale ==
    /\ \E t \in Tokens \ stale : holder[t] # NoWallet /\ stale' = stale \cup {t}
    /\ UNCHANGED <<jar, holder, bar, connect, gateCache, errand, readers, errands, cookieHistory>>
\* updateWalletUserBlock; a block ended ends what was told of it.
BarOrUnbar(w) ==
    /\ Counts
    /\ IF bar[w].how = "no"
       THEN /\ \E how \in {"worded", "silent"} :
                 bar' = [bar EXCEPT ![w] = [how |-> how, nr |-> @.nr + 1]]
            /\ UNCHANGED told
       ELSE /\ bar' = [bar EXCEPT ![w].how = "no"]
            /\ told' = {t \in told : holder[t] # w}
    /\ UNCHANGED <<jar, holder, stale, connect, gateCache, errand, readers, voted, dropped,
                   excused, shut, split>>
SwitchConnect ==
    /\ Counts /\ connect' = ~connect /\ shut' = TRUE
    /\ UNCHANGED <<jar, holder, stale, bar, gateCache, errand, readers, voted, dropped, told,
                   excused, split>>

CookiesNext ==
    \/ \E c \in Errands :
         \/ AskUsers(c) \/ AskVerify(c) \/ AskLogout(c) \/ AskPage(c) \/ AskNews(c)
         \/ AnswerUsers(c) \/ AnswerVerify(c) \/ AnswerNews(c) \/ AskedInVain(c)
         \/ AskGate(c) \/ GateFetched(c) \/ CheckAccess(c) \/ AnswerArrives(c) \/ NeverArrives(c)
    \/ \E w \in Wallets : BarOrUnbar(w)
    \/ GateExpires \/ TokenGoesStale \/ SwitchConnect
CookiesSpec == CookiesInit /\ [][CookiesNext]_cookieVars

-----------------------------------------------------------------------------
\* Types; a token in the jar was given to a wallet.
CookiesTypeOK ==
    /\ jar \in [token : Tokens \cup {0}, reader : 0 .. readers]
    /\ holder \in [Tokens -> Wallets \cup {NoWallet}] /\ stale \subseteq Tokens
    /\ jar.token # 0 => holder[jar.token] # NoWallet
    /\ \A c \in Errands :
          errand[c].stage \in {"none", "asked", "gate", "fetching", "access", "answered"}

\* A wallet stays signed in until its token expires: the cookie goes before only by a
\* logout, a call about another wallet, a call that was under way when the token came, a
\* block, or connecting that was off or could not be asked (upstream-response.ts,
\* middleware.ts).
TokensAreKept ==
    \A t \in dropped \ excused : shut \/ bar[holder[t]].nr > 0

\* A token whose barred wallet was told so does not come back while the block stands:
\* not by a page let through, and not by answers out of order.
BarredIsOut == jar.token \notin told

\* A browser votes as one reader, unless its first calls overlapped or one of them failed
\* or was lost (news-client.ts, getOrIssueNewsClientId).
OneReader == split \/ Cardinality(voted) <= 1
=============================================================================
