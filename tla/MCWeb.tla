--------------------------------- MODULE MCWeb ---------------------------------
(* What visitors see and administrators publish: the presence session of a   *)
(* tab (SessionTracker), the wallet and its portfolio (WalletPortfolio), the *)
(* windows that stake, claim and convert (WalletWindows), the cookies        *)
(* (WebCookies), the activity feed (ExplorerFeed), news and votes            *)
(* (NewsVotes), the documentation (DocsPages) and the market tokens with     *)
(* their icons (MarketTokens).  The parts share no variable: every behaviour *)
(* runs one of them while the others rest in one initial state, so that      *)
(* their states add up instead of multiplying.                               *)
EXTENDS SessionTracker, WalletPortfolio, WalletWindows, ExplorerFeed, NewsVotes, DocsPages,
        MarketTokens, WebCookies, TLC

\* Every other row of the feed is a conversion.
AlternateKinds == [r \in 1 .. MaxActivities |-> IF r % 2 = 0 THEN "STAKE" ELSE "CONVERT"]

VARIABLE part   \* which of them runs

WebInit ==
    /\ part \in {"tracker", "portfolio", "windows", "feed", "news", "docs", "tokens",
                "cookies"}
    /\ TrackerInit /\ PortfolioInit /\ WindowsInit /\ FeedInit /\ NewsInit /\ DocsInit /\ TokensInit
    /\ CookiesInit
    /\ part # "portfolio" => net = "devnet"
    /\ part # "windows" => window = "stake"
    /\ part # "feed" => loading["f"].mode = "initial"
    /\ part # "news" => /\ \A i \in Items : item[i].state = "active"
                        /\ \A f \in Feeds : reader[f] = "a"
    /\ part # "tokens" => copied = {}
    /\ part # "cookies" => connect

TrackerPart ==
    /\ part = "tracker" /\ TrackerNext
    /\ UNCHANGED <<part, portfolioVars, windowVars, feedVars, newsVars, docsVars,
                   tokensVars, cookieVars>>
PortfolioPart ==
    /\ part = "portfolio" /\ PortfolioNext
    /\ UNCHANGED <<part, trackerVars, windowVars, feedVars, newsVars, docsVars,
                   tokensVars, cookieVars>>
WindowsPart ==
    /\ part = "windows" /\ WindowsNext
    /\ UNCHANGED <<part, trackerVars, portfolioVars, feedVars, newsVars, docsVars,
                   tokensVars, cookieVars>>
FeedPart ==
    /\ part = "feed" /\ FeedNext
    /\ UNCHANGED <<part, trackerVars, portfolioVars, windowVars, newsVars, docsVars,
                   tokensVars, cookieVars>>
NewsPart ==
    /\ part = "news" /\ NewsNext
    /\ UNCHANGED <<part, trackerVars, portfolioVars, windowVars, feedVars, docsVars,
                   tokensVars, cookieVars>>
DocsPart ==
    /\ part = "docs" /\ DocsNext
    /\ UNCHANGED <<part, trackerVars, portfolioVars, windowVars, feedVars, newsVars,
                   tokensVars, cookieVars>>
TokensPart ==
    /\ part = "tokens" /\ TokensNext
    /\ UNCHANGED <<part, trackerVars, portfolioVars, windowVars, feedVars, newsVars, docsVars,
                   cookieVars>>
CookiesPart ==
    /\ part = "cookies" /\ CookiesNext
    /\ UNCHANGED <<part, trackerVars, portfolioVars, windowVars, feedVars, newsVars, docsVars,
                   tokensVars>>

WebNext ==
    \/ TrackerPart \/ PortfolioPart \/ WindowsPart \/ FeedPart
    \/ NewsPart \/ DocsPart \/ TokensPart \/ CookiesPart
WebSpec ==
    WebInit /\ [][WebNext]_<<part, trackerVars, portfolioVars, windowVars, feedVars, newsVars,
                             docsVars, tokensVars, cookieVars>>

\* Every variable of every part keeps its shape.
WebTypeOK ==
    /\ TrackerTypeOK /\ PortfolioTypeOK /\ WindowsTypeOK /\ FeedTypeOK
    /\ NewsTypeOK /\ DocsTypeOK /\ TokensTypeOK /\ CookiesTypeOK

\* A tab follows its wallet: its presence session is of the wallet connected and no other
\* stays open unknown (UserSessionTracker.tsx), the amounts it shows are of the wallet
\* signed in and connected, and what it says is loading is (use-solana-portfolio.ts,
\* use-user-data.ts); its token stays until it ends or the wallet is barred,
\* and then stays away (upstream-response.ts, middleware.ts).
TabFollowsItsWallet ==
    /\ SessionIsOfTheWallet /\ OpenSessionsAreKnown /\ RowsAreOfTheWallet /\ SpinnersEnd
    /\ AppIsSigned /\ TokensAreKept /\ BarredIsOut

\* The windows tell what happened and do what was confirmed, once, within the limits they
\* show (StakeModal.tsx, ClaimModal.tsx, ConvertModal.tsx).
WindowsAreTrue == ToldIsTrue /\ StakesAreConfirmed /\ OneConversion /\ RatioIsWithinLimits

\* The activity feed shows no row twice and misses none (ExplorerOverview.tsx).
FeedStands == NoRowTwice /\ FeedIsWhole

\* The votes counted are the votes stored, a feed marks the vote of its reader, and a
\* browser is one reader (news.service.ts, vote; NewsFeed.tsx, handleVote; news-client.ts).
VotesAreCounted == CountsMatchVotes /\ FeedMarksTheVote /\ OneReader

\* What administrators publish stays whole under several of them: the sections of a page
\* are of one save and pages are in categories there are (docs.service.ts), SOL has no
\* mint and an answered token an icon that is there (market.service.ts).
ContentIsWhole == SectionsAreOneSave /\ DocsAreFiled /\ SolHasNoMint /\ IconsAreServed

\* The values of one part stand for those of another too.
Interchangeable == Permutations(Accounts) \cup Permutations(Tasks)
=============================================================================
