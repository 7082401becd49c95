------------------------------ MODULE WebProofs ------------------------------
(***************************************************************************)
(* Theorems about what visitors see and administrators publish (MCWeb),    *)
(* for any number of items, readers, feeds, pages, writers, tokens, calls  *)
(* and runs: the content stays whole, votes are counted, windows are true, *)
(* a tab follows its wallet and the feed misses nothing.  What is proved   *)
(* of the tab and of the feed alone is in TabProofs.                       *)
(***************************************************************************)
EXTENDS MCWeb, TabProofs

(* The market tokens.                                                      *)

MintsStored == {"none", "wrapped", "other"}
CoinRows == [ticker : Tickers \cup {NoTicker}, mint : MintsStored]
\* A request is about one token; a new one has a ticker and says what its mint is.
EditAbout(e, c) ==
    /\ edit[e].op \in {"create", "update", "delete"} /\ edit[e].of = {c} /\ c \in Coins
    /\ edit[e].ticker \in Tickers \cup {NoTicker} /\ edit[e].mint \in MintsStored \cup {"kept"}
    /\ edit[e].op = "create" => edit[e].ticker # NoTicker /\ edit[e].mint # "kept"
EditsNamed == \A e \in Editors : edit[e] = NoEdit \/ \E c \in Coins : EditAbout(e, c)

\* What a request leaves of its token when it is written now has no mint if it is SOL.
LeavesNone(e, c) ==
    /\ edit[e].ticker = Sol => edit[e].mint = "none"
    /\ edit[e].op = "update" /\ edit[e].ticker = NoTicker /\ tokens[c].ticker = Sol
         => edit[e].mint = "none"
\* While requests do not overlap on a token, no two name it.
CoinsApart ==
    ~tokensRaced => \A e, f \in Editors, c \in Coins : e # f => ~(EditAbout(e, c) /\ EditAbout(f, c))
MintsInv ==
    ~tokensRaced => /\ \A c \in Coins : tokens[c].ticker = Sol => tokens[c].mint = "none"
                    /\ \A e \in Editors, c \in Coins : EditAbout(e, c) => LeavesNone(e, c)
\* A file of the earlier version is to be looked at, copied, or could not be.
IconsInv ==
    /\ Icons = legacyFiles \cup copied \cup unreadable
    /\ onList => legacyFiles = {}
TokensInv ==
    /\ tokens \in [Coins -> CoinRows] /\ DOMAIN edit = Editors
    /\ tokensRaced \in BOOLEAN /\ tokenEdits \in 0 .. MaxTokenEdits
    /\ EditsNamed /\ CoinsApart /\ MintsInv /\ IconsInv

LEMMA NoEditFields == NoEdit.op = "none" /\ NoEdit.of = {} /\ NoEdit.ticker = NoTicker
  BY DEF NoEdit

LEMMA InitTokensInv == TokensInit => TokensInv
<1> SUFFICES ASSUME TokensInit PROVE TokensInv
  OBVIOUS
<1> USE TokensAssumption
<1>1. NoCoin \in CoinRows /\ NoCoin.ticker # Sol
  BY DEF NoCoin, CoinRows, MintsStored
<1>2. tokens \in [Coins -> CoinRows] /\ \A c \in Coins : tokens[c].ticker # Sol
  BY <1>1 DEF TokensInit
<1>3. \A e \in Editors : edit[e] = NoEdit
  BY DEF TokensInit
<1>4. \A e \in Editors, c \in Coins : ~EditAbout(e, c)
  BY <1>3, NoEditFields DEF EditAbout
<1>5. EditsNamed /\ CoinsApart /\ MintsInv
  BY <1>2, <1>3, <1>4 DEF EditsNamed, CoinsApart, MintsInv
<1>6. IconsInv /\ DOMAIN edit = Editors
  BY DEF TokensInit, IconsInv
<1>7. tokensRaced \in BOOLEAN /\ tokenEdits \in 0 .. MaxTokenEdits
  <2>1. tokensRaced = FALSE /\ tokenEdits = 0
    BY DEF TokensInit
  <2>2. 0 \in 0 .. MaxTokenEdits
    OBVIOUS
  <2> QED
    BY <2>1, <2>2, Zenon
<1> QED
  BY <1>2, <1>5, <1>6, <1>7 DEF TokensInv

\* The token of a request is the one it names.
LEMMA CoinOf ==
  ASSUME NEW e, NEW c \in Coins, EditAbout(e, c)
  PROVE  /\ \A d \in Coins : d \in edit[e].of <=> d = c
         /\ (CHOOSE d \in Coins : d \in edit[e].of) = c
<1>1. \A d \in Coins : d \in edit[e].of <=> d = c
  BY DEF EditAbout
<1> QED
  BY <1>1

\* What a request asks for, and which token it is about, is not changed by another.
LEMMA EditAboutStays ==
  ASSUME NEW e, edit'[e] = edit[e]
  PROVE  \A c : EditAbout(e, c)' <=> EditAbout(e, c)
  BY DEF EditAbout

\* A request that has been checked.
LEMMA AskStep ==
  ASSUME TokensInv, NEW e \in Editors, NEW c \in Coins, NEW r, EditAsked(e, r),
         r.op \in {"create", "update", "delete"}, r.of = {c},
         r.ticker \in Tickers \cup {NoTicker}, r.mint \in MintsStored \cup {"kept"},
         r.op = "create" => r.ticker # NoTicker /\ r.mint # "kept",
         r.ticker = Sol => r.mint = "none",
         r.op = "update" /\ r.ticker = NoTicker /\ tokens[c].ticker = Sol => r.mint = "none"
  PROVE  TokensInv'
<1> USE TokensAssumption
<1>1. edit'[e] = r /\ DOMAIN edit' = Editors /\ \A f \in Editors \ {e} : edit'[f] = edit[f]
  BY DEF EditAsked, TokensInv
<1>2. tokens' = tokens /\ UNCHANGED uploadVars /\ tokensRaced' = (tokensRaced \/ NamedBy(c) # {})
  BY DEF EditAsked
<1>3. EditAbout(e, c)' /\ \A d \in Coins : EditAbout(e, d)' => d = c
  BY <1>1 DEF EditAbout
<1>4. \A f \in Editors \ {e}, d \in Coins : EditAbout(f, d)' <=> EditAbout(f, d)
  BY <1>1, EditAboutStays
<1>5. EditsNamed'
  BY <1>1, <1>3, <1>4 DEF EditsNamed, TokensInv
<1>6. ASSUME ~tokensRaced' PROVE ~tokensRaced /\ \A f \in Editors \ {e} : ~EditAbout(f, c)
  BY <1>2, <1>6 DEF NamedBy, EditAbout
<1>7. CoinsApart'
  BY <1>3, <1>4, <1>6 DEF CoinsApart, TokensInv
<1>8. MintsInv'
  <2> SUFFICES ASSUME ~tokensRaced' PROVE MintsInv'
    BY DEF MintsInv
  <2>1. \A d \in Coins : tokens'[d].ticker = Sol => tokens'[d].mint = "none"
    BY <1>2, <1>6 DEF MintsInv, TokensInv
  <2>2. ASSUME NEW f \in Editors, NEW d \in Coins, EditAbout(f, d)' PROVE LeavesNone(f, d)'
    <3>1. CASE f = e
      BY <1>1, <1>2, <1>3, <2>2, <3>1 DEF LeavesNone
    <3>2. CASE f # e
      BY <1>1, <1>2, <1>4, <1>6, <2>2, <3>2 DEF LeavesNone, MintsInv, TokensInv
    <3> QED
      BY <3>1, <3>2
  <2> QED
    BY <2>1, <2>2 DEF MintsInv
<1>9. IconsInv'
  BY <1>2 DEF IconsInv, TokensInv, uploadVars
<1>10. tokensRaced' \in BOOLEAN /\ tokenEdits' \in 0 .. MaxTokenEdits
  BY <1>2 DEF EditAsked, TokensInv
<1> QED
  BY <1>1, <1>2, <1>5, <1>7, <1>8, <1>9, <1>10 DEF TokensInv

LEMMA CreateStep ==
  ASSUME TokensInv, NEW e \in Editors, NEW c \in Coins, NEW t \in Tickers, NEW input \in MintInputs,
         CheckCreate(e, c, t, input)
  PROVE  TokensInv'
<1> USE TokensAssumption
<1> DEFINE r == [op |-> "create", of |-> {c}, ticker |-> t, mint |-> Persisted(t, input)]
<1>1. Persisted(t, input) \in MintsStored /\ (t = Sol => Persisted(t, input) = "none")
  BY DEF CheckCreate, Persistable, Persisted, MintInputs, MintsStored
<1>2. EditAsked(e, r)
  BY DEF CheckCreate
<1>3. /\ r.op = "create" /\ r.of = {c} /\ r.ticker = t /\ r.mint = Persisted(t, input)
      /\ t # NoTicker /\ "kept" \notin MintsStored
  BY DEF MintsStored
<1> HIDE DEF r
<1> QED
  BY <1>1, <1>2, <1>3, AskStep

LEMMA UpdateStep ==
  ASSUME TokensInv, NEW e \in Editors, NEW c \in Coins, NEW t \in Tickers \cup {NoTicker},
         NEW input \in MintInputs, CheckUpdate(e, c, t, input)
  PROVE  TokensInv'
<1> USE TokensAssumption
<1>1. PICK by : by = JudgedBy(c, t)
  OBVIOUS
<1>2. PICK m : m = IF by = Sol THEN "none"
                   ELSE IF input = "missing" THEN "kept" ELSE Persisted(by, input)
  OBVIOUS
<1>3. PICK r : r = [op |-> "update", of |-> {c}, ticker |-> t, mint |-> m]
  OBVIOUS
<1>4. EditAsked(e, r) /\ (by = Sol \/ input = "missing" \/ Persistable(by, input))
  BY <1>1, <1>2, <1>3 DEF CheckUpdate
<1>5. m \in MintsStored \cup {"kept"} /\ (by = Sol => m = "none")
  BY <1>2, <1>4 DEF Persistable, Persisted, MintInputs, MintsStored
<1>6. (t = Sol => by = Sol) /\ (t = NoTicker => by = tokens[c].ticker)
  BY <1>1 DEF JudgedBy
<1>7. r.op = "update" /\ r.of = {c} /\ r.ticker = t /\ r.mint = m
  BY <1>3
<1> QED
  BY <1>4, <1>5, <1>6, <1>7, AskStep

LEMMA DeleteStep ==
  ASSUME TokensInv, NEW e \in Editors, NEW c \in Coins, CheckDelete(e, c)
  PROVE  TokensInv'
<1> USE TokensAssumption
<1>1. PICK r : r = [op |-> "delete", of |-> {c}, ticker |-> NoTicker, mint |-> "kept"]
  OBVIOUS
<1>2. EditAsked(e, r)
  BY <1>1 DEF CheckDelete
<1>3. r.op = "delete" /\ r.of = {c} /\ r.ticker = NoTicker /\ r.mint = "kept"
  BY <1>1
<1> QED
  BY <1>2, <1>3, AskStep

LEMMA WriteTokenStep ==
  ASSUME TokensInv, NEW e \in Editors, WriteToken(e)
  PROVE  TokensInv'
<1> USE TokensAssumption
<1>1. PICK c \in Coins : EditAbout(e, c)
  BY NoEditFields DEF WriteToken, TokensInv, EditsNamed
<1>2. PICK t : t = edit[e].ticker
  OBVIOUS
<1>3. PICK row : row = IF edit[e].op = "delete" THEN NoCoin
                       ELSE [ticker |-> IF t = NoTicker THEN tokens[c].ticker ELSE t,
                             mint |-> IF edit[e].mint = "kept" THEN tokens[c].mint ELSE edit[e].mint]
  OBVIOUS
<1>4. tokens' = tokens \/ tokens' = [tokens EXCEPT ![c] = row]
  BY <1>1, <1>2, <1>3, CoinOf, Zenon DEF WriteToken
<1>5. tokens[c] \in CoinRows
  BY DEF TokensInv
<1>6. row \in CoinRows
  BY <1>1, <1>2, <1>3, <1>5 DEF EditAbout, NoCoin, CoinRows, MintsStored
<1>7. tokens' \in [Coins -> CoinRows] /\ (\A d \in Coins \ {c} : tokens'[d] = tokens[d])
      /\ tokens'[c] \in {tokens[c], row}
  BY <1>4, <1>6 DEF TokensInv
<1>8. /\ edit'[e] = NoEdit /\ DOMAIN edit' = Editors /\ \A f \in Editors \ {e} : edit'[f] = edit[f]
      /\ UNCHANGED <<tokensRaced, uploadVars, tokenEdits>>
  BY DEF WriteToken, TokensInv
<1>9. /\ \A d \in Coins : ~EditAbout(e, d)'
      /\ \A f \in Editors \ {e}, d \in Coins : EditAbout(f, d)' <=> EditAbout(f, d)
  BY <1>8, EditAboutStays, NoEditFields DEF EditAbout
<1>10. EditsNamed' /\ CoinsApart'
  BY <1>8, <1>9 DEF EditsNamed, CoinsApart, TokensInv
<1>11. ASSUME ~tokensRaced, row.ticker = Sol PROVE row.mint = "none"
  <2>1. (tokens[c].ticker = Sol => tokens[c].mint = "none") /\ LeavesNone(e, c)
    BY <1>1, <1>11 DEF MintsInv, TokensInv
  <2>2. edit[e].op # "delete"
    BY <1>3, <1>11 DEF NoCoin
  <2>3. edit[e].op \in {"create", "update"}
    BY <1>1, <2>2 DEF EditAbout
  <2>4. CASE t = NoTicker
    <3>1. row.ticker = tokens[c].ticker
      BY <1>3, <2>2, <2>4
    <3>2. edit[e].op = "update" /\ edit[e].mint = "none"
      BY <1>1, <1>2, <1>11, <2>1, <2>3, <2>4, <3>1 DEF EditAbout, LeavesNone
    <3> QED
      BY <1>3, <2>2, <3>2
  <2>5. CASE t # NoTicker
    <3>1. t = Sol
      BY <1>3, <1>11, <2>2, <2>5
    <3>2. edit[e].mint = "none"
      BY <1>2, <2>1, <3>1 DEF LeavesNone
    <3> QED
      BY <1>3, <2>2, <3>2
  <2> QED
    BY <2>4, <2>5
<1>12. MintsInv'
  <2> SUFFICES ASSUME ~tokensRaced' PROVE MintsInv'
    BY DEF MintsInv
  <2>0. ~tokensRaced /\ MintsInv
    BY <1>8 DEF TokensInv
  <2>1. \A d \in Coins : tokens'[d].ticker = Sol => tokens'[d].mint = "none"
    BY <1>7, <1>11, <2>0 DEF MintsInv
  <2>2. ASSUME NEW f \in Editors, NEW d \in Coins, EditAbout(f, d)' PROVE LeavesNone(f, d)'
    <3>1. f # e /\ EditAbout(f, d)
      BY <1>9, <2>2
    <3>2. d # c
      BY <1>1, <2>0, <3>1 DEF CoinsApart, TokensInv
    <3> QED
      BY <1>7, <1>8, <2>0, <3>1, <3>2 DEF LeavesNone, MintsInv
  <2> QED
    BY <2>1, <2>2 DEF MintsInv
<1>13. IconsInv' /\ tokensRaced' \in BOOLEAN /\ tokenEdits' \in 0 .. MaxTokenEdits
  BY <1>8 DEF IconsInv, TokensInv, uploadVars
<1> QED
  BY <1>7, <1>8, <1>10, <1>12, <1>13 DEF TokensInv

LEMMA TokensRest ==
  ASSUME TokensInv, UNCHANGED <<tokens, edit, tokensRaced, tokenEdits>>, IconsInv'
  PROVE  TokensInv'
<1>1. \A e, c : EditAbout(e, c)' <=> EditAbout(e, c)
  BY EditAboutStays
<1> QED
  BY <1>1 DEF TokensInv, EditsNamed, CoinsApart, MintsInv, LeavesNone

LEMMA TokensStep == TokensInv /\ [TokensNext]_tokensVars => TokensInv'
<1> SUFFICES ASSUME TokensInv, [TokensNext]_tokensVars PROVE TokensInv'
  OBVIOUS
<1>1. CASE UNCHANGED tokensVars
  <2>1. UNCHANGED <<tokens, edit, tokensRaced, tokenEdits>> /\ IconsInv'
    BY <1>1 DEF tokensVars, IconsInv, TokensInv
  <2> QED
    BY <2>1, TokensRest
<1>2. CASE ListTokens
  <2>1. UNCHANGED <<tokens, edit, tokensRaced, tokenEdits>> /\ IconsInv'
    BY <1>2 DEF ListTokens, UploadsReady, IconsInv, TokensInv
  <2> QED
    BY <2>1, TokensRest
<1>3. ASSUME NEW i \in Icons, CopyIcon(i) PROVE TokensInv'
  <2>1. UNCHANGED <<tokens, edit, tokensRaced, tokenEdits>> /\ IconsInv'
    BY <1>3 DEF CopyIcon, IconsInv, TokensInv
  <2> QED
    BY <2>1, TokensRest
<1> QED
  BY <1>1, <1>2, <1>3, CreateStep, UpdateStep, DeleteStep, WriteTokenStep DEF TokensNext

LEMMA TokensInvariance == TokensInit /\ [][TokensNext]_tokensVars => []TokensInv
<1>1. TokensInv /\ [TokensNext]_tokensVars => TokensInv'
  BY TokensStep
<1> QED
  BY <1>1, InitTokensInv, PTL

LEMMA TokensInvKeeps == TokensInv => TokensTypeOK /\ SolHasNoMint /\ IconsAreServed
<1> SUFFICES ASSUME TokensInv PROVE TokensTypeOK /\ SolHasNoMint /\ IconsAreServed
  OBVIOUS
<1>1. \A e \in Editors : edit[e].op \in {"none", "create", "update", "delete"}
  BY NoEditFields DEF TokensInv, EditsNamed, EditAbout
<1>2. SolHasNoMint /\ IconsAreServed
  BY DEF TokensInv, MintsInv, IconsInv, SolHasNoMint, IconsAreServed
<1> QED
  BY <1>1, <1>2 DEF TokensInv, TokensTypeOK, IconsInv, CoinRows, MintsStored

-----------------------------------------------------------------------------
(* The documentation.                                                      *)

PageOps == {"page", "move", "update", "delete", "insert"}
\* A request is about one page or one category.
AboutPage(w, p) ==
    /\ p \in Pages /\ writer[w].op \in PageOps /\ writer[w].of = {p} /\ writer[w].title = NoTitle
    /\ writer[w].into \in Categories /\ writer[w].slug \in Slugs
    /\ writer[w].save \in 1 .. MaxWrites /\ writer[w].bare \in BOOLEAN
    /\ DOMAIN writer[w] = DOMAIN NoWrite
AboutCategory(w, c) ==
    /\ c \in Categories /\ writer[w].op \in {"title", "retitle"} /\ writer[w].of = {c}
    /\ writer[w].title \in Titles
WritersNamed ==
    \A w \in Writers : \/ writer[w] = NoWrite
                       \/ \E p \in Pages : AboutPage(w, p)
                       \/ \E c \in Categories : AboutCategory(w, c)

\* A page to be created is not there, and no other request knows of it.
NewPages ==
    \A w \in Writers, p \in Pages :
        AboutPage(w, p) /\ writer[w].op = "page" =>
            ~PageExists(p) /\ \A v \in Writers \ {w} : ~AboutPage(v, p)
FiledInv == \A p \in Pages : PageExists(p) => Listed(filed[p])
\* While titles do not race, the title a request has checked is free until it is written.
TitlesInv ==
    ~titlesRaced =>
      /\ \A c, d \in Categories : c # d /\ title[c] # NoTitle => title[c] # title[d]
      /\ \A w \in Writers, c \in Categories :
           AboutCategory(w, c) =>
             /\ TitleFree(c, writer[w].title)
             /\ \A v \in Writers \ {w} : writer[v].title # writer[w].title
\* A save is past the update of the row, which it holds unless it is bare.
Past(w) == writer[w].op \in {"delete", "insert"}
Holds(w, p) == AboutPage(w, p) /\ Past(w) /\ ~writer[w].bare
LocksInv ==
    \A w \in Writers, p \in Pages :
        Holds(w, p) => p \in held /\ \A v \in Writers \ {w} : ~Holds(v, p)
\* While no bare save meets another, saves of one page are none of them bare, and what one
\* has deleted is all there is until it inserts.
SavesInv ==
    ~bareRaced =>
      /\ \A v, w \in Writers, p \in Pages :
           v # w /\ AboutPage(v, p) /\ AboutPage(w, p) /\ Saving(v) /\ Saving(w) => ~writer[w].bare
      /\ \A w \in Writers, p \in Pages :
           AboutPage(w, p) /\ writer[w].op = "insert" => sections[p] \subseteq writer[w].seen
      /\ \A p \in Pages : sections[p] = {} \/ \E s \in 1 .. MaxWrites : sections[p] = {s}
DocsTyped ==
    /\ title \in [Categories -> Titles \cup {NoTitle}]
    /\ filed \in [Pages -> Categories \cup {NoCategory}] /\ slug \in [Pages -> Slugs \cup {NoSlug}]
    /\ sections \in [Pages -> SUBSET (1 .. MaxWrites)] /\ held \subseteq Pages
    /\ titlesRaced \in BOOLEAN /\ bareRaced \in BOOLEAN /\ writes \in 0 .. MaxWrites
    /\ DOMAIN writer = Writers
DocsInv ==
    DocsTyped /\ WritersNamed /\ NewPages /\ FiledInv /\ TitlesInv /\ LocksInv /\ SavesInv

LEMMA NoWriteFields ==
  /\ NoWrite.op = "none" /\ NoWrite.of = {} /\ NoWrite.title = NoTitle /\ NoWrite.bare = FALSE
  /\ "none" \notin PageOps
  BY DEF NoWrite, PageOps

LEMMA InitDocsInv == DocsInit => DocsInv
<1> SUFFICES ASSUME DocsInit PROVE DocsInv
  OBVIOUS
<1>1. \A w \in Writers : writer[w] = NoWrite
  BY DEF DocsInit
<1>2. \A w \in Writers : \A x : ~AboutPage(w, x) /\ ~AboutCategory(w, x)
  BY <1>1, NoWriteFields DEF AboutPage, AboutCategory
<1>3. writes \in 0 .. MaxWrites
  <2>1. writes = 0 /\ 0 \in 0 .. MaxWrites
    BY DocsAssumption DEF DocsInit
  <2> QED
    BY <2>1
<1>4. DocsTyped
  <2>1. titlesRaced \in BOOLEAN /\ bareRaced \in BOOLEAN
    BY Zenon DEF DocsInit
  <2> QED
    BY <1>3, <2>1 DEF DocsInit, DocsTyped
<1>5. WritersNamed /\ NewPages /\ LocksInv
  BY <1>1, <1>2 DEF WritersNamed, NewPages, LocksInv, Holds
<1>6. FiledInv
  BY DEF DocsInit, FiledInv, PageExists
<1>7. TitlesInv
  BY <1>2 DEF DocsInit, TitlesInv
<1>8. SavesInv
  BY <1>2 DEF DocsInit, SavesInv
<1> QED
  BY <1>4, <1>5, <1>6, <1>7, <1>8 DEF DocsInv

\* What a request is about is its own, and a page of it is the one it names.
LEMMA AboutStays ==
  ASSUME NEW v, writer'[v] = writer[v]
  PROVE  \A x : (AboutPage(v, x)' <=> AboutPage(v, x)) /\ (AboutCategory(v, x)' <=> AboutCategory(v, x))
                 /\ (Holds(v, x)' <=> Holds(v, x))
  BY DEF AboutPage, AboutCategory, Holds, Past
LEMMA AboutNothing ==
  ASSUME NEW v, writer[v] = NoWrite
  PROVE  \A x : ~AboutPage(v, x) /\ ~AboutCategory(v, x) /\ ~Holds(v, x) /\ ~Saving(v)
  BY NoWriteFields DEF AboutPage, AboutCategory, Holds, Saving
LEMMA AboutOne ==
  ASSUME NEW w, NEW p, AboutPage(w, p)
  PROVE  /\ \A x : AboutPage(w, x) => x = p
         /\ \A x : ~AboutCategory(w, x)
         /\ (CHOOSE q \in Pages : q \in writer[w].of) = p
<1>1. \A q \in Pages : q \in writer[w].of <=> q = p
  BY DEF AboutPage
<1>2. p \in Pages
  BY DEF AboutPage
<1>3. (CHOOSE q \in Pages : q \in writer[w].of) = p
  BY <1>1, <1>2
<1>4. \A x : AboutPage(w, x) => x = p
  BY DEF AboutPage
<1>5. \A x : ~AboutCategory(w, x)
  BY DEF AboutPage, AboutCategory, PageOps
<1> QED
  BY <1>3, <1>4, <1>5

\* What is said of requests stays true when one of them ends and no row gets worse.
LEMMA EndKeeps ==
  ASSUME DocsInv, NEW w \in Writers, writer' = [writer EXCEPT ![w] = NoWrite],
         UNCHANGED <<titlesRaced, bareRaced, writes>>
  PROVE  /\ WritersNamed' /\ DOMAIN writer' = Writers
         /\ titlesRaced' \in BOOLEAN /\ bareRaced' \in BOOLEAN /\ writes' \in 0 .. MaxWrites
         /\ \A v \in Writers : \A x : /\ AboutPage(v, x)' => v # w /\ AboutPage(v, x)
                                      /\ AboutCategory(v, x)' => v # w /\ AboutCategory(v, x)
                                      /\ Holds(v, x)' => v # w /\ Holds(v, x)
         /\ \A v \in Writers \ {w} : writer'[v] = writer[v]
         /\ writer'[w] = NoWrite
<1>1. writer'[w] = NoWrite /\ DOMAIN writer' = Writers /\ \A v \in Writers \ {w} : writer'[v] = writer[v]
  BY DEF DocsInv, DocsTyped
<1>2. \A x : ~AboutPage(w, x)' /\ ~AboutCategory(w, x)' /\ ~Holds(w, x)'
  BY <1>1, NoWriteFields DEF AboutPage, AboutCategory, Holds
<1>3. \A v \in Writers \ {w} : \A x : (AboutPage(v, x)' <=> AboutPage(v, x)) /\ (AboutCategory(v, x)' <=> AboutCategory(v, x))
                                  /\ (Holds(v, x)' <=> Holds(v, x))
  BY <1>1, AboutStays
<1>4. \A v \in Writers : \A x : /\ AboutPage(v, x)' => v # w /\ AboutPage(v, x)
                                /\ AboutCategory(v, x)' => v # w /\ AboutCategory(v, x)
                                /\ Holds(v, x)' => v # w /\ Holds(v, x)
  BY <1>2, <1>3
<1>5. WritersNamed'
  BY <1>1, <1>3 DEF WritersNamed, DocsInv
<1>6. titlesRaced' \in BOOLEAN /\ bareRaced' \in BOOLEAN /\ writes' \in 0 .. MaxWrites
  BY DEF DocsInv, DocsTyped
<1> QED
  BY <1>1, <1>4, <1>5, <1>6

\* A request about a page that has passed its checks.
LEMMA PageArrives ==
  ASSUME DocsInv, NEW w \in Writers, NEW p \in Pages, NEW r,
         writer[w] = NoWrite, writes < MaxWrites, writes' = writes + 1,
         writer' = [writer EXCEPT ![w] = r], UNCHANGED <<rowVars, titlesRaced>>,
         r.op \in {"page", "move", "update"}, r.of = {p}, r.title = NoTitle, r.into \in Categories,
         r.slug \in Slugs, r.bare \in BOOLEAN, r.save = writes + 1, DOMAIN r = DOMAIN NoWrite,
         r.op = "page" => ~PageExists(p) /\ UnusedPage(p),
         r.op # "page" => PageExists(p),
         bareRaced' \in BOOLEAN,
         ~bareRaced' => /\ ~bareRaced
                        /\ r.op = "update" => \A v \in Writers :
                             Saving(v) /\ p \in writer[v].of => ~r.bare /\ ~writer[v].bare
  PROVE  DocsInv'
<1>0. UNCHANGED <<title, filed, slug, sections, held, titlesRaced>>
  BY DEF rowVars
<1>1. writer'[w] = r /\ DOMAIN writer' = Writers /\ \A v \in Writers \ {w} : writer'[v] = writer[v]
  BY DEF DocsInv, DocsTyped
<1>2. \A v \in Writers \ {w} : \A x : (AboutPage(v, x)' <=> AboutPage(v, x)) /\ (AboutCategory(v, x)' <=> AboutCategory(v, x))
                                  /\ (Holds(v, x)' <=> Holds(v, x))
  BY <1>1, AboutStays
<1>3. writes' \in 0 .. MaxWrites /\ writes' \in 1 .. MaxWrites
  BY DocsAssumption DEF DocsInv, DocsTyped
<1>4. AboutPage(w, p)'
  <2>1. r.op \in PageOps
    BY DEF PageOps
  <2> QED
    BY <1>1, <1>3, <2>1 DEF AboutPage
<1>5. \A x : (AboutPage(w, x)' => x = p) /\ ~AboutCategory(w, x)' /\ ~Holds(w, x)'
  BY <1>1 DEF AboutPage, AboutCategory, Holds, Past
<1>6. DocsTyped'
  BY <1>0, <1>1, <1>3 DEF DocsInv, DocsTyped
<1>7. WritersNamed'
  BY <1>1, <1>2, <1>4 DEF WritersNamed, DocsInv
<1>8. \A x \in Pages : PageExists(x)' <=> PageExists(x)
  BY <1>0 DEF PageExists
<1>9. NewPages'
  <2> SUFFICES ASSUME NEW v \in Writers, NEW q \in Pages, AboutPage(v, q)', writer'[v].op = "page"
               PROVE  ~PageExists(q)' /\ \A u \in Writers \ {v} : ~AboutPage(u, q)'
    BY DEF NewPages
  <2>1. CASE v = w
    <3>1. q = p /\ r.op = "page"
      BY <1>1, <1>5, <2>1
    <3>2. \A u \in Writers \ {w} : ~AboutPage(u, p)
      BY <3>1 DEF UnusedPage, AboutPage
    <3> QED
      BY <1>2, <1>8, <2>1, <3>1, <3>2
  <2>2. CASE v # w
    <3>1. AboutPage(v, q) /\ writer[v].op = "page"
      BY <1>1, <1>2, <2>2
    <3>2. ~PageExists(q) /\ \A u \in Writers \ {v} : ~AboutPage(u, q)
      BY <3>1 DEF DocsInv, NewPages
    <3>3. ~AboutPage(w, q)'
      <4>1. CASE r.op = "page"
        <5>1. p # q
          BY <3>1, <4>1 DEF UnusedPage, AboutPage
        <5> QED
          BY <1>5, <5>1
      <4>2. CASE r.op # "page"
        BY <1>5, <3>2, <4>2
      <4> QED
        BY <4>1, <4>2
    <3> QED
      BY <1>2, <1>8, <3>2, <3>3
  <2> QED
    BY <2>1, <2>2
<1>10. FiledInv'
  BY <1>0 DEF DocsInv, FiledInv, PageExists, Listed
<1>11. TitlesInv'
  <2> SUFFICES ASSUME ~titlesRaced' PROVE TitlesInv'
    BY DEF TitlesInv
  <2>0. ~titlesRaced /\ TitlesInv
    BY <1>0 DEF DocsInv
  <2>1. ASSUME NEW v \in Writers, NEW c \in Categories, AboutCategory(v, c)'
        PROVE  /\ TitleFree(c, writer[v].title)' /\ \A u \in Writers \ {v} : writer'[u].title # writer'[v].title
    <3>1. v # w /\ AboutCategory(v, c)
      BY <1>2, <1>5, <2>1
    <3>2. /\ TitleFree(c, writer[v].title)
          /\ \A u \in Writers \ {v} : writer[u].title # writer[v].title
      BY <2>0, <3>1 DEF TitlesInv
    <3>3. writer'[w].title # writer'[v].title
      BY <1>1, <3>1, DocsAssumption DEF AboutCategory
    <3> QED
      BY <1>0, <1>1, <3>1, <3>2, <3>3 DEF TitleFree
  <2> QED
    BY <1>0, <2>0, <2>1 DEF TitlesInv
<1>12. LocksInv'
  BY <1>0, <1>2, <1>5 DEF DocsInv, LocksInv
<1>13. SavesInv'
  <2> SUFFICES ASSUME ~bareRaced' PROVE SavesInv'
    BY DEF SavesInv
  <2>0. ~bareRaced /\ SavesInv
    BY DEF DocsInv
  <2>1. ASSUME NEW u \in Writers, NEW v \in Writers, NEW q \in Pages, u # v, AboutPage(u, q)', AboutPage(v, q)',
               Saving(u)', Saving(v)'
        PROVE  ~writer'[v].bare
    <3>1. CASE u # w /\ v # w
      <4>1. Saving(u) /\ Saving(v) /\ AboutPage(u, q) /\ AboutPage(v, q)
        BY <1>1, <1>2, <2>1, <3>1 DEF Saving
      <4> QED
        BY <1>1, <2>0, <2>1, <3>1, <4>1 DEF SavesInv
    <3>2. CASE u = w
      <4>1. Saving(v) /\ AboutPage(v, p) /\ r.op = "update"
        BY <1>1, <1>2, <1>5, <2>1, <3>2 DEF Saving
      <4> QED
        BY <1>1, <2>1, <3>2, <4>1 DEF AboutPage
    <3>3. CASE v = w
      <4>1. Saving(u) /\ AboutPage(u, p) /\ r.op = "update"
        BY <1>1, <1>2, <1>5, <2>1, <3>3 DEF Saving
      <4> QED
        BY <1>1, <2>1, <3>3, <4>1 DEF AboutPage
    <3> QED
      BY <3>1, <3>2, <3>3
  <2>2. ASSUME NEW v \in Writers, NEW q \in Pages, AboutPage(v, q)', writer'[v].op = "insert"
        PROVE  sections'[q] \subseteq writer'[v].seen
    <3>1. v # w
      BY <1>1, <2>2
    <3> QED
      BY <1>0, <1>1, <1>2, <2>0, <2>2, <3>1 DEF SavesInv
  <2>3. \A q \in Pages : sections'[q] = {} \/ \E s \in 1 .. MaxWrites : sections'[q] = {s}
    BY <1>0, <2>0 DEF SavesInv
  <2> QED
    BY <2>1, <2>2, <2>3 DEF SavesInv
<1> QED
  BY <1>6, <1>7, <1>9, <1>10, <1>11, <1>12, <1>13 DEF DocsInv

LEMMA ChecksStep ==
  ASSUME DocsInv, NEW w \in Writers, NEW p \in Pages, NEW c \in Categories, NEW x \in Slugs,
         NEW bare \in BOOLEAN,
         CheckPage(w, p, c, x) \/ CheckMove(w, p, c, x) \/ CheckSave(w, p, c, x, bare)
  PROVE  DocsInv'
<1>1. CASE CheckPage(w, p, c, x)
  <2>1. PICK r : r = [[NoWrite EXCEPT !.op = "page", !.of = {p}, !.into = c, !.slug = x] EXCEPT !.save = writes + 1]
    OBVIOUS
  <2>2. /\ r.op = "page" /\ r.of = {p} /\ r.title = NoTitle /\ r.into = c /\ r.slug = x /\ r.bare = FALSE
        /\ r.save = writes + 1 /\ DOMAIN r = DOMAIN NoWrite
    BY <2>1 DEF NoWrite
  <2>3. /\ writer[w] = NoWrite /\ writes < MaxWrites /\ writes' = writes + 1
        /\ writer' = [writer EXCEPT ![w] = r] /\ UNCHANGED <<rowVars, titlesRaced, bareRaced>>
        /\ ~PageExists(p) /\ UnusedPage(p)
    BY <1>1, <2>1 DEF CheckPage, Arrives, Goes
  <2>4. bareRaced' \in BOOLEAN
    BY <2>3 DEF DocsInv, DocsTyped
  <2> QED
    BY <2>2, <2>3, <2>4, PageArrives
<1>2. CASE CheckMove(w, p, c, x)
  <2>1. PICK r : r = [[NoWrite EXCEPT !.op = "move", !.of = {p}, !.into = c, !.slug = x] EXCEPT !.save = writes + 1]
    OBVIOUS
  <2>2. /\ r.op = "move" /\ r.of = {p} /\ r.title = NoTitle /\ r.into = c /\ r.slug = x /\ r.bare = FALSE
        /\ r.save = writes + 1 /\ DOMAIN r = DOMAIN NoWrite
    BY <2>1 DEF NoWrite
  <2>3. /\ writer[w] = NoWrite /\ writes < MaxWrites /\ writes' = writes + 1
        /\ writer' = [writer EXCEPT ![w] = r] /\ UNCHANGED <<rowVars, titlesRaced, bareRaced>>
        /\ PageExists(p)
    BY <1>2, <2>1 DEF CheckMove, Arrives, Goes
  <2>4. bareRaced' \in BOOLEAN
    BY <2>3 DEF DocsInv, DocsTyped
  <2> QED
    BY <2>2, <2>3, <2>4, PageArrives
<1>3. CASE CheckSave(w, p, c, x, bare)
  <2>1. PICK r : r = [[NoWrite EXCEPT !.op = "update", !.of = {p}, !.into = c, !.slug = x, !.bare = bare]
                        EXCEPT !.save = writes + 1]
    OBVIOUS
  <2>2. /\ r.op = "update" /\ r.of = {p} /\ r.title = NoTitle /\ r.into = c /\ r.slug = x /\ r.bare = bare
        /\ r.save = writes + 1 /\ DOMAIN r = DOMAIN NoWrite
    BY <2>1 DEF NoWrite
  <2>3. /\ writer[w] = NoWrite /\ writes < MaxWrites /\ writes' = writes + 1
        /\ writer' = [writer EXCEPT ![w] = r] /\ UNCHANGED <<rowVars, titlesRaced>>
        /\ PageExists(p)
    BY <1>3, <2>1 DEF CheckSave, Arrives, Goes
  <2>4. bareRaced' = (bareRaced \/ \E v \in Writers : /\ Saving(v) /\ p \in writer[v].of
                                                     /\ (bare \/ writer[v].bare))
    BY <1>3 DEF CheckSave
  <2>5. bareRaced' \in BOOLEAN
    BY <2>4, Zenon DEF DocsInv, DocsTyped
  <2>6. ~bareRaced' => ~bareRaced /\ \A v \in Writers :
                             Saving(v) /\ p \in writer[v].of => ~r.bare /\ ~writer[v].bare
    BY <2>2, <2>4
  <2> QED
    BY <2>2, <2>3, <2>5, <2>6, PageArrives
<1> QED
  BY <1>1, <1>2, <1>3

LEMMA CheckTitleStep ==
  ASSUME DocsInv, NEW w \in Writers, NEW c \in Categories, NEW x \in Titles, CheckTitle(w, c, x)
  PROVE  DocsInv'
<1>a. PICK o \in {"title", "retitle"} : o = IF Listed(c) THEN "retitle" ELSE "title"
  OBVIOUS
<1>b. PICK r : r = [[NoWrite EXCEPT !.op = IF Listed(c) THEN "retitle" ELSE "title",
                                    !.of = {c}, !.title = x] EXCEPT !.save = writes + 1]
  OBVIOUS
<1>c. r.op = o /\ r.of = {c} /\ r.title = x
  BY <1>a, <1>b DEF NoWrite
<1>d. /\ writer[w] = NoWrite /\ writes < MaxWrites /\ writes' = writes + 1
      /\ writer' = [writer EXCEPT ![w] = r] /\ UNCHANGED <<rowVars, bareRaced>>
      /\ TitleFree(c, x)
      /\ titlesRaced' = (titlesRaced \/ \E v \in Writers : writer[v].title = x)
  BY <1>b DEF CheckTitle, Arrives, Goes
<1>0. UNCHANGED <<title, filed, slug, sections, held>>
  BY <1>d DEF rowVars
<1>1. writer'[w] = r /\ DOMAIN writer' = Writers /\ \A v \in Writers \ {w} : writer'[v] = writer[v]
  BY <1>d DEF DocsInv, DocsTyped
<1>2. \A v \in Writers \ {w} : \A y : (AboutPage(v, y)' <=> AboutPage(v, y)) /\ (AboutCategory(v, y)' <=> AboutCategory(v, y))
                                  /\ (Holds(v, y)' <=> Holds(v, y))
  BY <1>1, AboutStays
<1>3. writes' \in 0 .. MaxWrites
  BY <1>d, DocsAssumption DEF DocsInv, DocsTyped
<1>4. AboutCategory(w, c)'
  BY <1>1, <1>c DEF AboutCategory
<1>5. \A y : (AboutCategory(w, y)' => y = c) /\ ~AboutPage(w, y)' /\ ~Holds(w, y)'
  BY <1>1, <1>c DEF AboutPage, AboutCategory, Holds, PageOps
<1>6. DocsTyped'
  <2>1. titlesRaced' \in BOOLEAN
    BY <1>d, Zenon DEF DocsInv, DocsTyped
  <2> QED
    BY <1>0, <1>1, <1>3, <1>d, <2>1 DEF DocsInv, DocsTyped
<1>7. WritersNamed'
  BY <1>1, <1>2, <1>4 DEF WritersNamed, DocsInv
<1>8. \A y \in Pages : PageExists(y)' <=> PageExists(y)
  BY <1>0 DEF PageExists
<1>9. NewPages'
  BY <1>1, <1>2, <1>5, <1>8 DEF NewPages, DocsInv
<1>10. FiledInv'
  BY <1>0 DEF DocsInv, FiledInv, PageExists, Listed
<1>11. TitlesInv'
  <2> SUFFICES ASSUME ~titlesRaced' PROVE TitlesInv'
    BY DEF TitlesInv
  <2>0. ~titlesRaced /\ TitlesInv /\ \A v \in Writers : writer[v].title # x
    BY <1>d DEF DocsInv
  <2>1. ASSUME NEW v \in Writers, NEW d \in Categories, AboutCategory(v, d)'
        PROVE  /\ TitleFree(d, writer[v].title)' /\ \A u \in Writers \ {v} : writer'[u].title # writer'[v].title
    <3>1. CASE v = w
      <4>1. d = c /\ writer'[v].title = x
        BY <1>1, <1>5, <1>c, <2>1, <3>1
      <4> QED
        BY <1>0, <1>1, <1>d, <2>0, <3>1, <4>1 DEF TitleFree
    <3>2. CASE v # w
      <4>1. AboutCategory(v, d)
        BY <1>2, <2>1, <3>2
      <4>2. /\ TitleFree(d, writer[v].title)
            /\ \A u \in Writers \ {v} : writer[u].title # writer[v].title
        BY <2>0, <4>1 DEF TitlesInv
      <4>3. writer'[w].title # writer'[v].title
        BY <1>1, <1>c, <2>0, <3>2
      <4> QED
        BY <1>0, <1>1, <3>2, <4>2, <4>3 DEF TitleFree
    <3> QED
      BY <3>1, <3>2
  <2> QED
    BY <1>0, <2>0, <2>1 DEF TitlesInv
<1>12. LocksInv'
  BY <1>0, <1>2, <1>5 DEF DocsInv, LocksInv
<1>13. SavesInv'
  <2> SUFFICES ASSUME ~bareRaced' PROVE SavesInv'
    BY DEF SavesInv
  <2>0. ~bareRaced /\ SavesInv
    BY <1>d DEF DocsInv
  <2>1. \A v \in Writers : \A y : AboutPage(v, y)' => AboutPage(v, y) /\ writer'[v] = writer[v]
    BY <1>1, <1>2, <1>5
  <2>2. \A v \in Writers : \A y : AboutPage(v, y)' => (Saving(v)' <=> Saving(v))
    BY <2>1 DEF Saving
  <2> QED
    BY <1>0, <2>0, <2>1, <2>2 DEF SavesInv
<1> QED
  BY <1>6, <1>7, <1>9, <1>10, <1>11, <1>12, <1>13 DEF DocsInv

\* What saves rely on stands when rows only lose sections, and requests only end.
LEMMA SavesKept ==
  ASSUME DocsInv, bareRaced' = bareRaced,
         \A v \in Writers : \A y : AboutPage(v, y)' => AboutPage(v, y) /\ writer'[v] = writer[v],
         \A y \in Pages : sections'[y] = sections[y] \/ sections'[y] = {}
  PROVE  SavesInv'
<1> SUFFICES ASSUME ~bareRaced' PROVE SavesInv'
  BY DEF SavesInv
<1>0. ~bareRaced /\ SavesInv
  BY DEF DocsInv
<1>1. \A v \in Writers : \A y : AboutPage(v, y)' => (Saving(v)' <=> Saving(v))
  BY DEF Saving
<1> QED
  BY <1>0, <1>1 DEF SavesInv

LEMMA WriteTitleStep ==
  ASSUME DocsInv, NEW w \in Writers, WriteTitle(w)
  PROVE  DocsInv'
<1>a. /\ writer[w].op \in {"title", "retitle"} /\ writer' = [writer EXCEPT ![w] = NoWrite]
      /\ UNCHANGED <<filed, slug, sections, held, titlesRaced, bareRaced, writes>>
  BY DEF WriteTitle, Ends, Goes
<1>b. PICK c \in Categories : AboutCategory(w, c)
  BY <1>a, NoWriteFields DEF DocsInv, WritersNamed, AboutPage, PageOps
<1>c. PICK x \in Titles : x = writer[w].title
  BY <1>b DEF AboutCategory
<1>0. /\ WritersNamed' /\ DOMAIN writer' = Writers
      /\ titlesRaced' \in BOOLEAN /\ bareRaced' \in BOOLEAN /\ writes' \in 0 .. MaxWrites
      /\ \A v \in Writers : \A y : /\ AboutPage(v, y)' => v # w /\ AboutPage(v, y)
                                   /\ AboutCategory(v, y)' => v # w /\ AboutCategory(v, y)
                                   /\ Holds(v, y)' => v # w /\ Holds(v, y)
      /\ \A v \in Writers \ {w} : writer'[v] = writer[v]
      /\ writer'[w] = NoWrite
  BY <1>a, EndKeeps
<1>1. /\ \A d \in Categories \ {c} : title'[d] = title[d]
      /\ title'[c] = title[c] \/ title'[c] = x
      /\ title' \in [Categories -> Titles \cup {NoTitle}]
  <2>1. title' = [d \in Categories |-> IF d \in {c} /\ (Listed(d) \/ writer[w].op = "title") THEN x ELSE title[d]]
    BY <1>b, <1>c DEF WriteTitle, AboutCategory
  <2> QED
    BY <2>1 DEF DocsInv, DocsTyped
<1>2. DocsTyped'
  BY <1>0, <1>1, <1>a DEF DocsInv, DocsTyped
<1>3. NewPages'
  <2>1. \A y \in Pages : PageExists(y)' <=> PageExists(y)
    BY <1>a DEF PageExists
  <2> QED
    BY <1>0, <2>1 DEF DocsInv, NewPages
<1>4. FiledInv'
  <2> SUFFICES ASSUME NEW p \in Pages, PageExists(p)' PROVE Listed(filed[p])'
    BY DEF FiledInv
  <2>1. PageExists(p) /\ Listed(filed[p]) /\ filed'[p] = filed[p] /\ filed[p] \in Categories
    BY <1>a DEF DocsInv, FiledInv, PageExists, DocsTyped
  <2>2. title'[filed[p]] # NoTitle
    BY <1>1, <2>1, DocsAssumption DEF Listed
  <2> QED
    BY <2>1, <2>2 DEF Listed
<1>5. TitlesInv'
  <2> SUFFICES ASSUME ~titlesRaced' PROVE TitlesInv'
    BY DEF TitlesInv
  <2>0. ~titlesRaced /\ TitlesInv
    BY <1>a DEF DocsInv
  <2>1. TitleFree(c, x) /\ \A v \in Writers \ {w} : writer[v].title # x
    BY <1>b, <1>c, <2>0 DEF TitlesInv
  <2>2. \A d, e \in Categories : d # e /\ title'[d] # NoTitle => title'[d] # title'[e]
    <3> SUFFICES ASSUME NEW d \in Categories, NEW e \in Categories, d # e, title'[d] # NoTitle, title'[d] = title'[e]
                 PROVE FALSE
      OBVIOUS
    <3>1. \A g, h \in Categories : g # h /\ title[g] # NoTitle => title[g] # title[h]
      BY <2>0 DEF TitlesInv
    <3>2. \A g \in Categories \ {c} : title[g] # x
      BY <2>1 DEF TitleFree
    <3>3. CASE d = c
      BY <1>1, <3>1, <3>2, <3>3
    <3>4. CASE e = c
      BY <1>1, <3>1, <3>2, <3>4
    <3>5. CASE d # c /\ e # c
      BY <1>1, <3>1, <3>5
    <3> QED
      BY <3>3, <3>4, <3>5
  <2>3. ASSUME NEW v \in Writers, NEW d \in Categories, AboutCategory(v, d)'
        PROVE  /\ TitleFree(d, writer[v].title)' /\ \A u \in Writers \ {v} : writer'[u].title # writer'[v].title
    <3>1. v # w /\ AboutCategory(v, d) /\ writer'[v] = writer[v]
      BY <1>0, <2>3
    <3>2. /\ TitleFree(d, writer[v].title)
          /\ \A u \in Writers \ {v} : writer[u].title # writer[v].title
      BY <2>0, <3>1 DEF TitlesInv
    <3>3. writer[v].title # x /\ writer[v].title # NoTitle
      BY <2>1, <3>1, DocsAssumption DEF AboutCategory
    <3>4. TitleFree(d, writer[v].title)'
      BY <1>1, <3>1, <3>2, <3>3 DEF TitleFree
    <3>5. \A u \in Writers \ {v} : writer'[u].title # writer'[v].title
      BY <1>0, <3>1, <3>2, <3>3, NoWriteFields
    <3> QED
      BY <3>4, <3>5
  <2> QED
    BY <2>0, <2>2, <2>3 DEF TitlesInv
<1>6. LocksInv'
  BY <1>0, <1>a DEF DocsInv, LocksInv
<1>7. SavesInv'
  BY <1>0, <1>a, SavesKept
<1> QED
  BY <1>0, <1>2, <1>3, <1>4, <1>5, <1>6, <1>7 DEF DocsInv

\* A page, or the pages of a category, go; requests stay.
LEMMA PagesGo ==
  ASSUME DocsInv, UNCHANGED <<held, writer, titlesRaced, bareRaced, writes>>,
         title' \in [Categories -> Titles \cup {NoTitle}],
         filed' \in [Pages -> Categories \cup {NoCategory}], slug' \in [Pages -> Slugs \cup {NoSlug}],
         sections' \in [Pages -> SUBSET (1 .. MaxWrites)],
         \A y \in Pages : /\ sections'[y] = sections[y] \/ sections'[y] = {}
                          /\ filed'[y] = filed[y] \/ filed'[y] = NoCategory
                          /\ filed'[y] # NoCategory => title'[filed[y]] = title[filed[y]],
         \A d \in Categories : title'[d] = title[d] \/ title'[d] = NoTitle
  PROVE  DocsInv'
<1>0. \A v \in Writers : writer'[v] = writer[v]
  OBVIOUS
<1>1. \A v \in Writers : \A y : (AboutPage(v, y)' <=> AboutPage(v, y)) /\ (AboutCategory(v, y)' <=> AboutCategory(v, y))
                             /\ (Holds(v, y)' <=> Holds(v, y))
  BY <1>0, AboutStays
<1>2. DocsTyped' /\ WritersNamed'
  BY <1>0, <1>1 DEF DocsInv, DocsTyped, WritersNamed
<1>3. NewPages'
  <2>1. \A y \in Pages : PageExists(y)' => PageExists(y)
    BY DEF PageExists
  <2> QED
    BY <1>0, <1>1, <2>1 DEF DocsInv, NewPages
<1>4. FiledInv'
  BY DEF DocsInv, FiledInv, PageExists, Listed
<1>5. TitlesInv'
  <2> SUFFICES ASSUME ~titlesRaced' PROVE TitlesInv'
    BY DEF TitlesInv
  <2>0. ~titlesRaced /\ TitlesInv
    BY DEF DocsInv
  <2>1. ASSUME NEW v \in Writers, NEW d \in Categories, AboutCategory(v, d)'
        PROVE  TitleFree(d, writer[v].title)' /\ \A u \in Writers \ {v} : writer'[u].title # writer'[v].title
    <3>1. AboutCategory(v, d)
      BY <1>1, <2>1
    <3>2. TitleFree(d, writer[v].title) /\ \A u \in Writers \ {v} : writer[u].title # writer[v].title
      BY <2>0, <3>1 DEF TitlesInv
    <3>3. writer[v].title # NoTitle
      BY <3>1, DocsAssumption DEF AboutCategory
    <3> QED
      BY <1>0, <3>2, <3>3 DEF TitleFree
  <2> QED
    BY <2>0, <2>1 DEF TitlesInv
<1>6. LocksInv'
  BY <1>1 DEF DocsInv, LocksInv
<1>7. SavesInv'
  BY <1>0, <1>1, SavesKept
<1> QED
  BY <1>2, <1>3, <1>4, <1>5, <1>6, <1>7 DEF DocsInv

LEMMA RemovesStep ==
  ASSUME DocsInv, (\E c \in Categories : RemoveCategory(c)) \/ (\E p \in Pages : RemovePage(p))
  PROVE  DocsInv'
<1>1. ASSUME NEW c \in Categories, RemoveCategory(c) PROVE DocsInv'
  <2>1. /\ UNCHANGED <<held, writer, titlesRaced, bareRaced, writes>>
        /\ title' = [title EXCEPT ![c] = NoTitle]
        /\ filed' = [p \in Pages |-> IF filed[p] = c THEN NoCategory ELSE filed[p]]
        /\ slug' = [p \in Pages |-> IF filed[p] = c THEN NoSlug ELSE slug[p]]
        /\ sections' = [p \in Pages |-> IF filed[p] = c THEN {} ELSE sections[p]]
    BY <1>1 DEF RemoveCategory
  <2>2. /\ title' \in [Categories -> Titles \cup {NoTitle}]
        /\ filed' \in [Pages -> Categories \cup {NoCategory}] /\ slug' \in [Pages -> Slugs \cup {NoSlug}]
        /\ sections' \in [Pages -> SUBSET (1 .. MaxWrites)]
    BY <2>1 DEF DocsInv, DocsTyped
  <2>3. \A d \in Categories : title'[d] = IF d = c THEN NoTitle ELSE title[d]
    BY <2>1 DEF DocsInv, DocsTyped
  <2>4. ASSUME NEW y \in Pages, filed'[y] # NoCategory PROVE title'[filed[y]] = title[filed[y]]
    <3>1. filed[y] # c /\ filed[y] \in Categories
      BY <2>1, <2>4 DEF DocsInv, DocsTyped
    <3> QED
      BY <2>3, <3>1
  <2>5. \A y \in Pages : /\ sections'[y] = sections[y] \/ sections'[y] = {}
                         /\ filed'[y] = filed[y] \/ filed'[y] = NoCategory
    BY <2>1
  <2> QED
    BY <2>1, <2>2, <2>3, <2>4, <2>5, PagesGo
<1>2. ASSUME NEW p \in Pages, RemovePage(p) PROVE DocsInv'
  <2>1. /\ UNCHANGED <<title, held, writer, titlesRaced, bareRaced, writes>>
        /\ filed' = [filed EXCEPT ![p] = NoCategory] /\ slug' = [slug EXCEPT ![p] = NoSlug]
        /\ sections' = [sections EXCEPT ![p] = {}]
    BY <1>2 DEF RemovePage
  <2>2. /\ title' \in [Categories -> Titles \cup {NoTitle}]
        /\ filed' \in [Pages -> Categories \cup {NoCategory}] /\ slug' \in [Pages -> Slugs \cup {NoSlug}]
        /\ sections' \in [Pages -> SUBSET (1 .. MaxWrites)]
    BY <2>1 DEF DocsInv, DocsTyped
  <2>3. \A y \in Pages : /\ sections'[y] = sections[y] \/ sections'[y] = {}
                         /\ filed'[y] = filed[y] \/ filed'[y] = NoCategory
    BY <2>1 DEF DocsInv, DocsTyped
  <2> QED
    BY <2>1, <2>2, <2>3, PagesGo
<1> QED
  BY <1>1, <1>2

\* A request about p ends, having filed it under c or left it.
LEMMA PageEnds ==
  ASSUME DocsInv, NEW w \in Writers, NEW p \in Pages, AboutPage(w, p),
         writer' = [writer EXCEPT ![w] = NoWrite], UNCHANGED <<title, titlesRaced, bareRaced, writes>>,
         filed' \in [Pages -> Categories \cup {NoCategory}], slug' \in [Pages -> Slugs \cup {NoSlug}],
         sections' \in [Pages -> SUBSET (1 .. MaxWrites)], held' \subseteq Pages,
         \A y \in Pages \ {p} : filed'[y] = filed[y],
         filed'[p] = filed[p] \/ Listed(filed'[p]),
         PageExists(p) \/ writer[w].op = "page" \/ filed'[p] = filed[p],
         LocksInv', SavesInv'
  PROVE  DocsInv'
<1>0. /\ WritersNamed' /\ DOMAIN writer' = Writers
      /\ titlesRaced' \in BOOLEAN /\ bareRaced' \in BOOLEAN /\ writes' \in 0 .. MaxWrites
      /\ \A v \in Writers : \A y : /\ AboutPage(v, y)' => v # w /\ AboutPage(v, y)
                                   /\ AboutCategory(v, y)' => v # w /\ AboutCategory(v, y)
                                   /\ Holds(v, y)' => v # w /\ Holds(v, y)
      /\ \A v \in Writers \ {w} : writer'[v] = writer[v]
      /\ writer'[w] = NoWrite
  BY EndKeeps
<1>1. DocsTyped'
  BY <1>0 DEF DocsInv, DocsTyped
<1>2. NewPages'
  <2> SUFFICES ASSUME NEW v \in Writers, NEW q \in Pages, AboutPage(v, q)', writer'[v].op = "page"
               PROVE  ~PageExists(q)' /\ \A u \in Writers \ {v} : ~AboutPage(u, q)'
    BY DEF NewPages
  <2>1. v # w /\ AboutPage(v, q) /\ writer[v].op = "page"
    BY <1>0
  <2>2. ~PageExists(q) /\ \A u \in Writers \ {v} : ~AboutPage(u, q)
    BY <2>1 DEF DocsInv, NewPages
  <2>3. q # p
    BY <2>1, <2>2
  <2> QED
    BY <1>0, <2>2, <2>3 DEF PageExists
<1>3. FiledInv'
  BY DEF DocsInv, FiledInv, PageExists, Listed
<1>4. TitlesInv'
  <2> SUFFICES ASSUME ~titlesRaced' PROVE TitlesInv'
    BY DEF TitlesInv
  <2>0. ~titlesRaced /\ TitlesInv
    BY DEF DocsInv
  <2>1. ASSUME NEW v \in Writers, NEW d \in Categories, AboutCategory(v, d)'
        PROVE  TitleFree(d, writer[v].title)' /\ \A u \in Writers \ {v} : writer'[u].title # writer'[v].title
    <3>1. v # w /\ AboutCategory(v, d) /\ writer'[v] = writer[v]
      BY <1>0, <2>1
    <3>2. TitleFree(d, writer[v].title) /\ \A u \in Writers \ {v} : writer[u].title # writer[v].title
      BY <2>0, <3>1 DEF TitlesInv
    <3>3. writer[v].title # NoTitle
      BY <3>1, DocsAssumption DEF AboutCategory
    <3> QED
      BY <1>0, <3>1, <3>2, <3>3, NoWriteFields DEF TitleFree
  <2> QED
    BY <2>0, <2>1 DEF TitlesInv
<1> QED
  BY <1>0, <1>1, <1>2, <1>3, <1>4 DEF DocsInv

LEMMA WritePageStep ==
  ASSUME DocsInv, NEW w \in Writers, WritePage(w) \/ WriteMove(w)
  PROVE  DocsInv'
<1>a. /\ writer[w].op \in {"page", "move"} /\ writer' = [writer EXCEPT ![w] = NoWrite]
      /\ UNCHANGED <<title, held, titlesRaced, bareRaced, writes>>
  BY DEF WritePage, WriteMove, Ends, Goes
<1>b. PICK p \in Pages : AboutPage(w, p)
  BY <1>a, NoWriteFields DEF DocsInv, WritersNamed, AboutCategory
<1>c. (CHOOSE q \in Pages : q \in writer[w].of) = p
  BY <1>b, AboutOne
<1>d. PICK c \in Categories, x \in Slugs, n \in 1 .. MaxWrites :
         c = writer[w].into /\ x = writer[w].slug /\ n = writer[w].save
  BY <1>b DEF AboutPage
<1>0. /\ DOMAIN writer' = Writers
      /\ \A v \in Writers : \A y : /\ AboutPage(v, y)' => v # w /\ AboutPage(v, y)
                                   /\ Holds(v, y)' => v # w /\ Holds(v, y)
      /\ \A v \in Writers \ {w} : writer'[v] = writer[v]
  BY <1>a, EndKeeps
<1>1. LocksInv'
  BY <1>0, <1>a DEF DocsInv, LocksInv
<1>2. CASE filed' = filed /\ slug' = slug /\ sections' = sections
  <2>1. SavesInv'
    BY <1>0, <1>2, <1>a, SavesKept
  <2>2. /\ filed' \in [Pages -> Categories \cup {NoCategory}] /\ slug' \in [Pages -> Slugs \cup {NoSlug}]
        /\ sections' \in [Pages -> SUBSET (1 .. MaxWrites)] /\ held' \subseteq Pages
    BY <1>2, <1>a DEF DocsInv, DocsTyped
  <2> QED
    BY <1>1, <1>2, <1>a, <1>b, <2>1, <2>2, PageEnds
<1>3. CASE /\ filed' = [filed EXCEPT ![p] = c] /\ slug' = [slug EXCEPT ![p] = x] /\ Listed(c)
           /\ \/ writer[w].op = "move" /\ PageExists(p) /\ sections' = sections
              \/ /\ writer[w].op = "page"
                 /\ \E some \in {{}, {n}} : sections' = [sections EXCEPT ![p] = some]
  <2>1. sections' \in [Pages -> SUBSET (1 .. MaxWrites)]
        /\ \A y \in Pages \ {p} : sections'[y] = sections[y]
    BY <1>3 DEF DocsInv, DocsTyped
  <2>2. SavesInv'
    <3>1. CASE sections' = sections
      BY <1>0, <1>a, <3>1, SavesKept
    <3>2. CASE /\ writer[w].op = "page"
               /\ \E some \in {{}, {n}} : sections' = [sections EXCEPT ![p] = some]
      <4> SUFFICES ASSUME ~bareRaced' PROVE SavesInv'
        BY DEF SavesInv
      <4>0. ~bareRaced /\ SavesInv
        BY <1>a DEF DocsInv
      <4>1. \A v \in Writers : \A y : AboutPage(v, y)' => (Saving(v)' <=> Saving(v)) /\ writer'[v] = writer[v]
        BY <1>0 DEF Saving
      <4>2. \A v \in Writers : ~AboutPage(v, p)'
        BY <1>0, <1>b, <3>2 DEF DocsInv, NewPages
      <4>3. sections'[p] = {} \/ \E s \in 1 .. MaxWrites : sections'[p] = {s}
        BY <3>2 DEF DocsInv, DocsTyped
      <4>4. \A q \in Pages : sections'[q] = {} \/ \E s \in 1 .. MaxWrites : sections'[q] = {s}
        BY <2>1, <4>0, <4>3 DEF SavesInv
      <4>5. ASSUME NEW v \in Writers, NEW q \in Pages, AboutPage(v, q)', writer'[v].op = "insert"
            PROVE  sections'[q] \subseteq writer'[v].seen
        <5>1. q # p /\ AboutPage(v, q) /\ writer'[v] = writer[v]
          BY <1>0, <4>1, <4>2, <4>5
        <5> QED
          BY <2>1, <4>0, <4>5, <5>1 DEF SavesInv
      <4>6. \A u, v \in Writers, q \in Pages :
              u # v /\ AboutPage(u, q)' /\ AboutPage(v, q)' /\ Saving(u)' /\ Saving(v)' => ~writer'[v].bare
        BY <1>0, <4>0, <4>1 DEF SavesInv
      <4> QED
        BY <4>4, <4>5, <4>6 DEF SavesInv
    <3> QED
      BY <1>3, <3>1, <3>2
  <2>3. /\ filed' \in [Pages -> Categories \cup {NoCategory}] /\ slug' \in [Pages -> Slugs \cup {NoSlug}]
        /\ held' \subseteq Pages
        /\ \A y \in Pages \ {p} : filed'[y] = filed[y]
        /\ Listed(filed'[p])
    BY <1>3, <1>a DEF DocsInv, DocsTyped
  <2> QED
    BY <1>1, <1>3, <1>a, <1>b, <2>1, <2>2, <2>3, PageEnds
<1>4. \/ filed' = filed /\ slug' = slug /\ sections' = sections
      \/ /\ filed' = [filed EXCEPT ![p] = c] /\ slug' = [slug EXCEPT ![p] = x] /\ Listed(c)
         /\ \/ writer[w].op = "move" /\ PageExists(p) /\ sections' = sections
            \/ /\ writer[w].op = "page"
               /\ \E some \in {{}, {n}} : sections' = [sections EXCEPT ![p] = some]
  <2>1. CASE WritePage(w)
    <3>1. IF Listed(c) /\ SlugFree(p, x)
          THEN /\ filed' = [filed EXCEPT ![p] = c] /\ slug' = [slug EXCEPT ![p] = x]
               /\ \E some \in {{}, {n}} : sections' = [sections EXCEPT ![p] = some]
          ELSE UNCHANGED <<filed, slug, sections>>
      BY <1>c, <1>d, <2>1, Zenon DEF WritePage
    <3> QED
      BY <2>1, <3>1 DEF WritePage
  <2>2. CASE WriteMove(w)
    <3>1. IF PageExists(p) /\ Listed(c) /\ SlugFree(p, x)
          THEN filed' = [filed EXCEPT ![p] = c] /\ slug' = [slug EXCEPT ![p] = x]
          ELSE UNCHANGED <<filed, slug>>
      BY <1>c, <1>d, <2>2, Zenon DEF WriteMove
    <3> QED
      BY <2>2, <3>1 DEF WriteMove
  <2> QED
    BY <2>1, <2>2
<1> QED
  BY <1>2, <1>3, <1>4

\* A save goes on: its row is held from now on, or it has deleted what there was.
LEMMA SaveGoesOn ==
  ASSUME DocsInv, NEW w \in Writers, NEW p \in Pages, AboutPage(w, p), NEW r,
         UNCHANGED <<title, filed, slug, sections, titlesRaced, bareRaced, writes>>,
         writer' = [writer EXCEPT ![w] = r], held' \subseteq Pages, held \subseteq held',
         r.of = {p}, r.title = NoTitle, r.into = writer[w].into, r.slug = writer[w].slug,
         r.save = writer[w].save, r.bare = writer[w].bare, DOMAIN r = DOMAIN writer[w],
         \/ /\ writer[w].op = "update" /\ r.op = "delete"
            /\ ~r.bare => p \notin held /\ p \in held'
         \/ writer[w].op = "delete" /\ r.op = "insert" /\ r.seen = sections[p]
  PROVE  DocsInv'
<1>1. writer'[w] = r /\ DOMAIN writer' = Writers /\ \A v \in Writers \ {w} : writer'[v] = writer[v]
  BY DEF DocsInv, DocsTyped
<1>2. \A v \in Writers \ {w} : \A x : (AboutPage(v, x)' <=> AboutPage(v, x)) /\ (AboutCategory(v, x)' <=> AboutCategory(v, x))
                                  /\ (Holds(v, x)' <=> Holds(v, x))
  BY <1>1, AboutStays
<1>3. AboutPage(w, p)' /\ \A x : (AboutPage(w, x)' => x = p) /\ ~AboutCategory(w, x)'
  <2>1. r.op \in PageOps /\ r.op \notin {"title", "retitle"}
    BY DEF PageOps
  <2> QED
    BY <1>1, <2>1 DEF AboutPage, AboutCategory
<1>4. DocsTyped' /\ WritersNamed'
  BY <1>1, <1>2, <1>3 DEF DocsInv, DocsTyped, WritersNamed
<1>5. \A v \in Writers : \A x : /\ AboutPage(v, x)' => AboutPage(v, x)
                                /\ (Saving(v)' <=> Saving(v)) /\ writer'[v].bare = writer[v].bare
                                /\ (writer'[v].op = "page" <=> writer[v].op = "page")
  BY <1>1, <1>2, <1>3 DEF Saving
<1>6. NewPages'
  BY <1>5 DEF DocsInv, NewPages, PageExists
<1>7. FiledInv'
  BY DEF DocsInv, FiledInv, PageExists, Listed
<1>8. TitlesInv'
  <2> SUFFICES ASSUME ~titlesRaced' PROVE TitlesInv'
    BY DEF TitlesInv
  <2>0. ~titlesRaced /\ TitlesInv
    BY DEF DocsInv
  <2>1. ASSUME NEW v \in Writers, NEW d \in Categories, AboutCategory(v, d)'
        PROVE  TitleFree(d, writer[v].title)' /\ \A u \in Writers \ {v} : writer'[u].title # writer'[v].title
    <3>1. v # w /\ AboutCategory(v, d) /\ writer'[v] = writer[v]
      BY <1>1, <1>2, <1>3, <2>1
    <3>2. TitleFree(d, writer[v].title) /\ \A u \in Writers \ {v} : writer[u].title # writer[v].title
      BY <2>0, <3>1 DEF TitlesInv
    <3>3. writer'[w].title = writer[w].title
      BY <1>1 DEF AboutPage
    <3> QED
      BY <1>1, <3>1, <3>2, <3>3 DEF TitleFree
  <2> QED
    BY <2>0, <2>1 DEF TitlesInv
<1>9. LocksInv'
  <2> SUFFICES ASSUME NEW v \in Writers, NEW q \in Pages, Holds(v, q)'
               PROVE  q \in held' /\ \A u \in Writers \ {v} : ~Holds(u, q)'
    BY DEF LocksInv
  <2>1. \A u \in Writers, x \in Pages : Holds(u, x) => x \in held /\ \A t \in Writers \ {u} : ~Holds(t, x)
    BY DEF DocsInv, LocksInv
  <2>2. CASE r.op = "delete" /\ ~r.bare
    <3>1. p \notin held /\ p \in held' /\ \A u \in Writers : ~Holds(u, p)
      BY <2>1, <2>2
    <3>2. \A x : Holds(w, x)' => x = p
      BY <1>3 DEF Holds
    <3>3. CASE v = w
      BY <1>2, <2>2, <3>1, <3>2, <3>3
    <3>4. CASE v # w
      <4>1. Holds(v, q) /\ q # p
        BY <1>2, <3>1, <3>4
      <4> QED
        BY <1>2, <2>1, <3>2, <4>1
    <3> QED
      BY <3>3, <3>4
  <2>3. CASE ~(r.op = "delete" /\ ~r.bare)
    <3>1. \A x \in Pages : Holds(w, x)' => Holds(w, x)
      BY <1>1, <1>3, <1>5, <2>3 DEF Holds, Past
    <3>2. \A u \in Writers, x \in Pages : Holds(u, x)' => Holds(u, x)
      BY <1>2, <3>1
    <3> QED
      BY <2>1, <3>2
  <2> QED
    BY <2>2, <2>3
<1>10. SavesInv'
  <2> SUFFICES ASSUME ~bareRaced' PROVE SavesInv'
    BY DEF SavesInv
  <2>0. ~bareRaced /\ SavesInv
    BY DEF DocsInv
  <2>1. ASSUME NEW v \in Writers, NEW q \in Pages, AboutPage(v, q)', writer'[v].op = "insert"
        PROVE  sections'[q] \subseteq writer'[v].seen
    <3>1. CASE v = w
      BY <1>1, <1>3, <2>1, <3>1
    <3>2. CASE v # w
      BY <1>1, <1>2, <2>0, <2>1, <3>2 DEF SavesInv
    <3> QED
      BY <3>1, <3>2
  <2> QED
    BY <1>5, <2>0, <2>1 DEF SavesInv
<1> QED
  BY <1>4, <1>6, <1>7, <1>8, <1>9, <1>10 DEF DocsInv

LEMMA SaveAbout ==
  ASSUME DocsInv, NEW w \in Writers, Saving(w)
  PROVE  \E p \in Pages : AboutPage(w, p)
  BY NoWriteFields DEF DocsInv, WritersNamed, Saving, AboutCategory

LEMMA UpdateRowStep ==
  ASSUME DocsInv, NEW w \in Writers, UpdateRow(w)
  PROVE  DocsInv'
<1>a. /\ writer[w].op = "update" /\ UNCHANGED <<title, filed, slug, sections, titlesRaced, bareRaced, writes>>
  BY DEF UpdateRow
<1>b. PICK p \in Pages : AboutPage(w, p)
  BY <1>a, SaveAbout DEF Saving
<1>c. writer[w].of = {p}
  BY <1>b DEF AboutPage
<1>1. CASE PageExists(p)
  <2>1. Locks(w) /\ writer' = [writer EXCEPT ![w] = [writer[w] EXCEPT !.op = "delete"]]
    BY <1>1, <1>c DEF UpdateRow, Goes
  <2>2. /\ held' \subseteq Pages /\ held \subseteq held'
        /\ ~writer[w].bare => p \notin held /\ p \in held'
    BY <1>c, <2>1 DEF Locks, DocsInv, DocsTyped
  <2>3. PICK r : r = [writer[w] EXCEPT !.op = "delete"]
    OBVIOUS
  <2>4. /\ r.of = {p} /\ r.title = NoTitle /\ r.into = writer[w].into /\ r.slug = writer[w].slug
        /\ r.save = writer[w].save /\ r.bare = writer[w].bare /\ DOMAIN r = DOMAIN writer[w]
    BY <1>b, <2>3 DEF AboutPage
  <2>5. r.op = "delete"
    <3>1. "op" \in DOMAIN writer[w]
      BY <1>b DEF AboutPage, NoWrite
    <3> QED
      BY <2>3, <3>1
  <2> QED
    BY <1>a, <1>b, <2>1, <2>2, <2>3, <2>4, <2>5, SaveGoesOn
<1>2. CASE ~PageExists(p)
  <2>1. held' = held /\ writer' = [writer EXCEPT ![w] = NoWrite]
    BY <1>2, <1>c DEF UpdateRow, Ends, Goes
  <2>2. \A v \in Writers : \A y : /\ AboutPage(v, y)' => v # w /\ AboutPage(v, y) /\ writer'[v] = writer[v]
                                  /\ Holds(v, y)' => v # w /\ Holds(v, y)
    BY <1>a, <2>1, EndKeeps
  <2>3. LocksInv' /\ SavesInv'
    <3>1. LocksInv'
      BY <2>1, <2>2 DEF DocsInv, LocksInv
    <3> QED
      BY <1>a, <2>2, <3>1, SavesKept
  <2>4. /\ filed' \in [Pages -> Categories \cup {NoCategory}] /\ slug' \in [Pages -> Slugs \cup {NoSlug}]
        /\ sections' \in [Pages -> SUBSET (1 .. MaxWrites)] /\ held' \subseteq Pages
    BY <1>a, <2>1 DEF DocsInv, DocsTyped
  <2> QED
    BY <1>a, <1>b, <2>1, <2>3, <2>4, PageEnds
<1> QED
  BY <1>1, <1>2

LEMMA DeleteSectionsStep ==
  ASSUME DocsInv, NEW w \in Writers, DeleteSections(w)
  PROVE  DocsInv'
<1>a. /\ writer[w].op = "delete" /\ UNCHANGED <<title, filed, slug, sections, held, titlesRaced, bareRaced, writes>>
  BY DEF DeleteSections, rowVars
<1>b. PICK p \in Pages : AboutPage(w, p)
  BY <1>a, SaveAbout DEF Saving
<1>c. writer[w].of = {p}
  BY <1>b DEF AboutPage
<1>1. PICK r : r = [writer[w] EXCEPT !.op = "insert", !.seen = UNION {sections[y] : y \in {p}}]
  OBVIOUS
<1>2. writer' = [writer EXCEPT ![w] = r]
  BY <1>1, <1>c DEF DeleteSections, Goes
<1>3. /\ r.of = {p} /\ r.title = NoTitle /\ r.into = writer[w].into /\ r.slug = writer[w].slug
      /\ r.save = writer[w].save /\ r.bare = writer[w].bare /\ DOMAIN r = DOMAIN writer[w]
  BY <1>1, <1>b DEF AboutPage
<1>4. r.op = "insert" /\ r.seen = sections[p]
  <2>1. UNION {sections[y] : y \in {p}} = sections[p]
    OBVIOUS
  <2>2. "op" \in DOMAIN writer[w] /\ "seen" \in DOMAIN writer[w]
    BY <1>b DEF AboutPage, NoWrite
  <2> QED
    BY <1>1, <2>1, <2>2
<1>5. held' \subseteq Pages /\ held \subseteq held'
  BY <1>a DEF DocsInv, DocsTyped
<1> QED
  BY <1>a, <1>b, <1>2, <1>3, <1>4, <1>5, SaveGoesOn

LEMMA InsertSectionsStep ==
  ASSUME DocsInv, NEW w \in Writers, InsertSections(w)
  PROVE  DocsInv'
<1>a. /\ writer[w].op = "insert" /\ writer' = [writer EXCEPT ![w] = NoWrite]
      /\ UNCHANGED <<title, titlesRaced, bareRaced, writes>>
  BY DEF InsertSections, Ends, Goes
<1>b. PICK p \in Pages : AboutPage(w, p)
  BY <1>a, SaveAbout DEF Saving
<1>c. (CHOOSE q \in Pages : q \in writer[w].of) = p /\ writer[w].of = {p}
  BY <1>b, AboutOne DEF AboutPage
<1>d. PICK c \in Categories, x \in Slugs, n \in 1 .. MaxWrites :
         c = writer[w].into /\ x = writer[w].slug /\ n = writer[w].save
  BY <1>b DEF AboutPage
<1>e. PICK seen : seen = writer[w].seen
  OBVIOUS
<1>0. /\ DOMAIN writer' = Writers
      /\ \A v \in Writers : \A y : /\ AboutPage(v, y)' => v # w /\ AboutPage(v, y)
                                   /\ Holds(v, y)' => v # w /\ Holds(v, y)
      /\ \A v \in Writers \ {w} : writer'[v] = writer[v]
  BY <1>a, EndKeeps
<1>1. /\ held' = IF writer[w].bare THEN held ELSE held \ {p}
      /\ \/ UNCHANGED <<filed, slug, sections>>
         \/ /\ PageExists(p) /\ (~writer[w].bare => Listed(c))
            /\ \E new \in {{}, {n}} : sections' = [sections EXCEPT ![p] = (sections[p] \ seen) \cup new]
            /\ filed' = IF writer[w].bare THEN filed ELSE [filed EXCEPT ![p] = c]
            /\ slug' = IF writer[w].bare THEN slug ELSE [slug EXCEPT ![p] = x]
  BY <1>c, <1>d, <1>e DEF InsertSections
<1>2. LocksInv'
  <2> SUFFICES ASSUME NEW v \in Writers, NEW q \in Pages, Holds(v, q)'
               PROVE  q \in held' /\ \A u \in Writers \ {v} : ~Holds(u, q)'
    BY DEF LocksInv
  <2>1. v # w /\ Holds(v, q) /\ q \in held /\ \A u \in Writers \ {v} : ~Holds(u, q)
    BY <1>0 DEF DocsInv, LocksInv
  <2>2. \A u \in Writers \ {v} : ~Holds(u, q)'
    BY <1>0, <2>1
  <2>3. CASE writer[w].bare
    BY <1>1, <2>1, <2>2, <2>3
  <2>4. CASE ~writer[w].bare
    <3>1. Holds(w, p)
      BY <1>a, <1>b, <2>4 DEF Holds, Past
    <3>2. q # p
      BY <2>1, <3>1
    <3> QED
      BY <1>1, <2>1, <2>2, <3>2
  <2> QED
    BY <2>3, <2>4
<1>3. /\ filed' \in [Pages -> Categories \cup {NoCategory}] /\ slug' \in [Pages -> Slugs \cup {NoSlug}]
      /\ held' \subseteq Pages
      /\ \A y \in Pages \ {p} : filed'[y] = filed[y]
      /\ filed'[p] = filed[p] \/ Listed(filed'[p])
      /\ PageExists(p) \/ filed'[p] = filed[p]
  <2>1. held' \subseteq Pages
    BY <1>1 DEF DocsInv, DocsTyped
  <2>2. CASE filed' = filed /\ slug' = slug
    BY <2>1, <2>2 DEF DocsInv, DocsTyped
  <2>3. CASE PageExists(p) /\ Listed(c) /\ filed' = [filed EXCEPT ![p] = c] /\ slug' = [slug EXCEPT ![p] = x]
    BY <2>1, <2>3 DEF DocsInv, DocsTyped
  <2> QED
    BY <1>1, <2>2, <2>3
<1>4. sections' \in [Pages -> SUBSET (1 .. MaxWrites)]
      /\ \A y \in Pages \ {p} : sections'[y] = sections[y]
  BY <1>1 DEF DocsInv, DocsTyped
<1>5. SavesInv'
  <2> SUFFICES ASSUME ~bareRaced' PROVE SavesInv'
    BY DEF SavesInv
  <2>0. ~bareRaced /\ SavesInv
    BY <1>a DEF DocsInv
  <2>1. \A v \in Writers : \A y : AboutPage(v, y)' => (Saving(v)' <=> Saving(v)) /\ writer'[v] = writer[v]
    BY <1>0 DEF Saving
  <2>2. ASSUME NEW v \in Writers, NEW q \in Pages, AboutPage(v, q)', writer'[v].op = "insert"
        PROVE  sections'[q] \subseteq writer'[v].seen
    <3>1. v # w /\ AboutPage(v, q) /\ writer'[v] = writer[v] /\ Saving(v) /\ writer[v].op = "insert"
      BY <1>0, <2>2 DEF Saving
    <3>2. q # p
      <4> SUFFICES ASSUME q = p PROVE FALSE
        OBVIOUS
      <4>1. Saving(w)
        BY <1>a DEF Saving
      <4>2. ~writer[v].bare /\ ~writer[w].bare
        BY <1>b, <2>0, <3>1, <4>1 DEF SavesInv
      <4>3. Holds(v, p) /\ Holds(w, p)
        BY <1>a, <1>b, <3>1, <4>2 DEF Holds, Past
      <4> QED
        BY <3>1, <4>3 DEF DocsInv, LocksInv
    <3> QED
      BY <1>4, <2>0, <3>1, <3>2 DEF SavesInv
  <2>3. sections'[p] = {} \/ \E s \in 1 .. MaxWrites : sections'[p] = {s}
    <3>1. sections[p] \subseteq seen /\ (sections[p] = {} \/ \E s \in 1 .. MaxWrites : sections[p] = {s})
      BY <1>a, <1>b, <1>e, <2>0 DEF SavesInv
    <3>2. CASE sections' = sections
      BY <3>1, <3>2
    <3>3. ASSUME NEW new \in {{}, {n}}, sections' = [sections EXCEPT ![p] = (sections[p] \ seen) \cup new]
          PROVE  sections'[p] = {} \/ sections'[p] = {n}
      <4>1. sections'[p] = (sections[p] \ seen) \cup new
        BY <3>3 DEF DocsInv, DocsTyped
      <4>2. sections[p] \ seen = {}
        BY <3>1
      <4> QED
        BY <4>1, <4>2
    <3> QED
      BY <1>1, <3>2, <3>3
  <2>4. \A q \in Pages : sections'[q] = {} \/ \E s \in 1 .. MaxWrites : sections'[q] = {s}
    BY <1>4, <2>0, <2>3 DEF SavesInv
  <2>5. \A u, v \in Writers, q \in Pages :
          u # v /\ AboutPage(u, q)' /\ AboutPage(v, q)' /\ Saving(u)' /\ Saving(v)' => ~writer'[v].bare
    BY <1>0, <2>0, <2>1 DEF SavesInv
  <2> QED
    BY <2>2, <2>4, <2>5 DEF SavesInv
<1> QED
  BY <1>2, <1>3, <1>4, <1>5, <1>a, <1>b, PageEnds

LEMMA DocsStep == DocsInv /\ [DocsNext]_docsVars => DocsInv'
<1> SUFFICES ASSUME DocsInv, [DocsNext]_docsVars PROVE DocsInv'
  OBVIOUS
<1>1. CASE UNCHANGED docsVars
  <2>1. /\ UNCHANGED <<title, filed, slug, sections, held, writer, titlesRaced, bareRaced, writes>>
    BY <1>1 DEF docsVars
  <2> QED
    BY <2>1, PagesGo DEF DocsInv, DocsTyped
<1> QED
  BY <1>1, ChecksStep, CheckTitleStep, WriteTitleStep, RemovesStep, WritePageStep, UpdateRowStep,
     DeleteSectionsStep, InsertSectionsStep DEF DocsNext

LEMMA DocsInvariance == DocsInit /\ [][DocsNext]_docsVars => []DocsInv
<1>1. DocsInv /\ [DocsNext]_docsVars => DocsInv'
  BY DocsStep
<1> QED
  BY <1>1, InitDocsInv, PTL

LEMMA DocsInvKeeps == DocsInv => DocsTypeOK /\ SectionsAreOneSave /\ DocsAreFiled
<1> SUFFICES ASSUME DocsInv PROVE DocsTypeOK /\ SectionsAreOneSave /\ DocsAreFiled
  OBVIOUS
<1>1. \A w \in Writers : writer[w].op \in {"none", "title", "retitle", "page", "move",
                                            "update", "delete", "insert"}
  BY NoWriteFields DEF DocsInv, WritersNamed, AboutPage, AboutCategory, PageOps
<1>2. DocsTypeOK
  BY <1>1 DEF DocsInv, DocsTyped, DocsTypeOK
<1>3. SectionsAreOneSave
  <2> SUFFICES ASSUME ~bareRaced, NEW p \in Pages PROVE Cardinality(sections[p]) <= 1
    BY DEF SectionsAreOneSave
  <2>1. sections[p] = {} \/ \E s \in 1 .. MaxWrites : sections[p] = {s}
    BY DEF DocsInv, SavesInv
  <2>2. CASE sections[p] = {}
    BY <2>2, FS_EmptySet
  <2>3. CASE \E s \in 1 .. MaxWrites : sections[p] = {s}
    <3>1. PICK s : sections[p] = {s}
      BY <2>3
    <3>2. PICK one : one = {s}
      OBVIOUS
    <3>3. Cardinality(one) = 1
      BY <3>2, FS_Singleton
    <3>4. Cardinality(sections[p]) = 1
      BY <3>1, <3>2, <3>3
    <3> QED
      BY <3>4
  <2> QED
    BY <2>1, <2>2, <2>3
<1>4. DocsAreFiled
  BY DEF DocsInv, FiledInv, TitlesInv, DocsAreFiled
<1> QED
  BY <1>2, <1>3, <1>4

-----------------------------------------------------------------------------
(* News and votes.                                                         *)

\* A vote under way.
CastFields == {"stage", "feed", "item", "next", "before", "old", "answer", "live"}
CastOK(s) ==
    /\ votes[s].stage \in {"sent", "read", "done", "failed"} /\ DOMAIN votes[s] = CastFields
    /\ votes[s].feed \in Feeds /\ votes[s].item \in Items
    /\ votes[s].next \in VoteChoices /\ votes[s].old \in VoteChoices
ItemRows == [state : {"active", "draft", "removed"}, up : Int, down : Int]
FetchOK(f) ==
    /\ fetch[f].stage \in {"none", "sent", "items", "answered"}
    /\ DOMAIN fetch[f] = {"stage", "waited", "answer"} /\ DOMAIN fetch[f].answer = Items
    /\ \A i \in Items : fetch[f].answer[i].here => "mine" \in DOMAIN fetch[f].answer[i]
ItemsTyped ==
    /\ item \in [Items -> ItemRows] /\ vote \in [Items -> [Readers -> VoteChoices]]
    /\ \A i \in Items, r \in Readers : vote[i][r] # "none" => Exists(i)
FeedsTyped ==
    /\ DOMAIN feed = Feeds /\ \A f \in Feeds : DOMAIN feed[f] = Items
    /\ voting \in [Feeds -> SUBSET Items]
    /\ DOMAIN kept = Feeds /\ \A f \in Feeds : kept[f] = {} \/ \E v : kept[f] = {v} /\ DOMAIN v = Items
    /\ DOMAIN fetch = Feeds /\ \A f \in Feeds : FetchOK(f)
VotesTyped == DOMAIN votes = Slots /\ \A s \in Slots : votes[s] = NoVote \/ CastOK(s)

\* A vote of a reader on an item.
Casts(s, r, i) == CastOK(s) /\ votes[s].item = i /\ reader[votes[s].feed] = r
Choosing(cast, choice) == Cardinality({r \in Readers : cast[r] = choice})
Tally(i, choice) == Cardinality({r \in Readers : vote[i][r] = choice})
\* Unless votes overlapped on an item, its counts are its votes, and a vote that has read
\* has read what is stored.
CountsInv ==
    \A i \in Items \ overlapped :
      /\ Exists(i) => /\ item[i].up = Tally(i, "up") /\ item[i].down = Tally(i, "down")
                      /\ \A s \in Slots, r \in Readers :
                           Casts(s, r, i) /\ votes[s].stage = "read" => votes[s].old = vote[i][r]
      /\ \A s, t \in Slots, r \in Readers :
           Casts(s, r, i) /\ Casts(t, r, i) /\ votes[s].stage = "read" /\ votes[t].stage = "read" => s = t

\* What a feed will show of a vote once it has ended is what is stored.
WillShow(s) == IF votes[s].stage = "done" THEN votes[s].answer.mine ELSE votes[s].before.mine
\* A feed that could know of every vote of its reader made them all: one at a time, with
\* nothing kept and no load under way meanwhile.
OwnVotes(f, i) ==
    \A s \in Slots :
      Casts(s, reader[f], i) =>
        /\ votes[s].feed = f /\ votes[s].live = TRUE /\ i \in voting[f]
        /\ fetch[f].stage = "none" /\ kept[f] = {}
        /\ Exists(i) => WillShow(s) = vote[i][reader[f]]
        /\ \A t \in Slots : Casts(t, reader[f], i) => s = t
\* Wherever it has the item from, it has the vote with it.
HasTheVote(f, i) ==
    Exists(i) =>
      /\ feed[f][i].here /\ i \notin voting[f] => feed[f][i].mine = vote[i][reader[f]]
      /\ \A v \in kept[f] : v[i].here => v[i].mine = vote[i][reader[f]]
      /\ fetch[f].stage = "answered" /\ fetch[f].answer[i].here =>
           fetch[f].answer[i].mine = vote[i][reader[f]]
MarksInv ==
    \A f \in Feeds, i \in Items : <<f, i>> \notin missed => OwnVotes(f, i) /\ HasTheVote(f, i)
NewsInv ==
    /\ ItemsTyped /\ FeedsTyped /\ VotesTyped /\ reader \in [Feeds -> Readers]
    /\ CountsInv /\ MarksInv

LEMMA NoVoteFields == NoVote.stage = "none" /\ \A s : votes[s] = NoVote => ~CastOK(s)
<1>1. NoVote.stage = "none"
  BY DEF NoVote
<1> QED
  BY <1>1 DEF CastOK

LEMMA InitNewsInv == NewsInit => NewsInv
<1> SUFFICES ASSUME NewsInit PROVE NewsInv
  OBVIOUS
<1>1. \A s \in Slots : votes[s] = NoVote
  BY DEF NewsInit
<1>2. \A s \in Slots : ~CastOK(s)
  BY <1>1, NoVoteFields
<1>3. ItemsTyped
  <2>1. item \in [Items -> ItemRows]
    BY DEF NewsInit, ItemRows
  <2>2. vote \in [Items -> [Readers -> VoteChoices]] /\ \A i \in Items, r \in Readers : vote[i][r] = "none"
    BY DEF NewsInit, VoteChoices
  <2> QED
    BY <2>1, <2>2 DEF ItemsTyped
<1>4. /\ DOMAIN EmptyFeed = Items /\ \A i \in Items : ~EmptyFeed[i].here
      /\ NoFetch.stage = "none" /\ NoFetch.answer = EmptyFeed
      /\ DOMAIN NoFetch = {"stage", "waited", "answer"}
  BY DEF EmptyFeed, NoView, NoFetch
<1>5. FeedsTyped
  <2>1. \A f \in Feeds : feed[f] = EmptyFeed /\ kept[f] = {} /\ fetch[f] = NoFetch
    BY DEF NewsInit
  <2>2. DOMAIN feed = Feeds /\ voting \in [Feeds -> SUBSET Items] /\ DOMAIN kept = Feeds /\ DOMAIN fetch = Feeds
    BY DEF NewsInit
  <2>3. \A f \in Feeds : DOMAIN feed[f] = Items
    BY <2>1 DEF EmptyFeed
  <2>4. \A f \in Feeds : FetchOK(f)
    BY <1>4, <2>1 DEF FetchOK
  <2> QED
    BY <2>1, <2>2, <2>3, <2>4 DEF FeedsTyped
<1>6. VotesTyped /\ reader \in [Feeds -> Readers]
  BY <1>1 DEF NewsInit, VotesTyped
<1>7. CountsInv
  <2>1. ASSUME NEW i \in Items, NEW c \in {"up", "down"} PROVE Tally(i, c) = 0
    <3>1. {r \in Readers : vote[i][r] = c} = {}
      BY DEF NewsInit
    <3> QED
      BY <3>1, FS_EmptySet DEF Tally
  <2>2. \A i \in Items : item[i].up = 0 /\ item[i].down = 0
    BY DEF NewsInit
  <2> QED
    BY <1>2, <2>1, <2>2 DEF CountsInv, Casts
<1>8. MarksInv
  <2> SUFFICES ASSUME NEW f \in Feeds, NEW i \in Items PROVE OwnVotes(f, i) /\ HasTheVote(f, i)
    BY DEF MarksInv
  <2>1. OwnVotes(f, i)
    BY <1>2 DEF OwnVotes, Casts
  <2>2. feed[f] = EmptyFeed /\ kept[f] = {} /\ fetch[f] = NoFetch
    BY DEF NewsInit
  <2> QED
    BY <1>4, <2>1, <2>2 DEF HasTheVote
<1> QED
  BY <1>3, <1>5, <1>6, <1>7, <1>8 DEF NewsInv

\* Changing one vote moves the number of readers that chose as it did by one, and the
\* number of those who chose what it says now.
LEMMA OneVoteMoves ==
  ASSUME NEW old \in [Readers -> VoteChoices], NEW now \in [Readers -> VoteChoices], NEW r \in Readers,
         NEW c, \A q \in Readers \ {r} : now[q] = old[q]
  PROVE  Choosing(now, c)
           = Choosing(old, c) + (IF now[r] = c THEN 1 ELSE 0) - (IF old[r] = c THEN 1 ELSE 0)
<1>1. PICK rest : rest = {q \in Readers \ {r} : old[q] = c}
  OBVIOUS
<1>2. IsFiniteSet(rest) /\ r \notin rest
  <2>1. rest \in SUBSET Readers /\ r \notin rest
    BY <1>1
  <2> QED
    BY <2>1, NewsAssumption, FS_Subset
<1>3. Cardinality(rest) \in Nat /\ Cardinality(rest \cup {r}) = Cardinality(rest) + 1
  BY <1>2, FS_CardinalityType, FS_AddElement
<1>4. PICK before : before = {q \in Readers : old[q] = c}
  OBVIOUS
<1>5. PICK after : after = {q \in Readers : now[q] = c}
  OBVIOUS
<1>6. before = IF old[r] = c THEN rest \cup {r} ELSE rest
  BY <1>1, <1>4
<1>7. after = IF now[r] = c THEN rest \cup {r} ELSE rest
  BY <1>1, <1>5
<1>8. Cardinality(after) = Cardinality(before) + (IF now[r] = c THEN 1 ELSE 0) - (IF old[r] = c THEN 1 ELSE 0)
  BY <1>3, <1>6, <1>7
<1> QED
  BY <1>4, <1>5, <1>8 DEF Choosing

\* A step that neither counts nor lets a vote read leaves the counts as they are.
LEMMA CountsKept ==
  ASSUME NewsInv, UNCHANGED <<item, vote, overlapped>>,
         \A s \in Slots : \A r, i :
           Casts(s, r, i)' /\ votes'[s].stage = "read" =>
             Casts(s, r, i) /\ votes[s].stage = "read" /\ votes'[s].old = votes[s].old
  PROVE  ItemsTyped' /\ CountsInv'
<1>1. ItemsTyped'
  BY DEF NewsInv, ItemsTyped, Exists
<1>2. \A i \in Items : \A c : Tally(i, c)' = Tally(i, c)
  BY DEF Tally
<1>3. \A i \in Items : Exists(i)' <=> Exists(i)
  BY DEF Exists
<1>4. CountsInv
  BY DEF NewsInv
<1> QED
  BY <1>1, <1>2, <1>3, <1>4 DEF CountsInv

\* What a step that has nothing to do with a feed and an item leaves of them.
LEMMA MarksKept ==
  ASSUME NEW f \in Feeds, NEW i \in Items, OwnVotes(f, i), HasTheVote(f, i),
         feed'[f] = feed[f], voting'[f] = voting[f], kept'[f] = kept[f], fetch'[f] = fetch[f],
         reader' = reader,
         Exists(i)' => Exists(i) /\ vote'[i][reader[f]] = vote[i][reader[f]],
         \A s \in Slots : Casts(s, reader[f], i)' =>
           /\ Casts(s, reader[f], i) /\ votes'[s].feed = votes[s].feed
           /\ votes'[s].live = votes[s].live /\ WillShow(s)' = WillShow(s)
  PROVE  OwnVotes(f, i)' /\ HasTheVote(f, i)'
<1>1. OwnVotes(f, i)'
  BY DEF OwnVotes
<1>2. HasTheVote(f, i)'
  BY DEF HasTheVote
<1> QED
  BY <1>1, <1>2

\* A vote that is not touched.
LEMMA CastStays ==
  ASSUME NEW s, votes'[s] = votes[s], reader' = reader
  PROVE  /\ CastOK(s)' <=> CastOK(s)
         /\ \A r, i : Casts(s, r, i)' <=> Casts(s, r, i)
         /\ WillShow(s)' = WillShow(s)
  BY DEF CastOK, Casts, WillShow

LEMMA EditItemStep ==
  ASSUME NewsInv, NEW i \in Items, EditItem(i)
  PROVE  NewsInv'
<1>0. UNCHANGED <<reader, feed, voting, kept, fetch, votes, overlapped, missed>>
  BY DEF EditItem
<1>1. \A s \in Slots : votes'[s] = votes[s]
  BY <1>0
<1>2. \A s \in Slots : /\ CastOK(s)' <=> CastOK(s)
                       /\ \A r, j : Casts(s, r, j)' <=> Casts(s, r, j)
                       /\ WillShow(s)' = WillShow(s)
  BY <1>0, <1>1, CastStays
<1>3. PICK state \in {"active", "draft", "removed"} :
        /\ item' = [item EXCEPT ![i].state = state]
        /\ state # "removed" => Exists(i) /\ vote' = vote
        /\ state = "removed" => vote' = [vote EXCEPT ![i] = [r \in Readers |-> "none"]]
  BY DEF EditItem, Exists
<1>4. item \in [Items -> ItemRows] /\ vote \in [Items -> [Readers -> VoteChoices]]
  BY DEF NewsInv, ItemsTyped
<1>5. PICK row \in ItemRows : row = item[i]
  BY <1>4
<1>6. PICK new : new = [row EXCEPT !.state = state]
  OBVIOUS
<1>7. new \in ItemRows /\ new.state = state /\ new.up = row.up /\ new.down = row.down
  BY <1>6 DEF ItemRows
<1>8. item' = [item EXCEPT ![i] = new]
  BY <1>3, <1>5, <1>6
<1>9. item' \in [Items -> ItemRows] /\ item'[i] = new /\ \A j \in Items \ {i} : item'[j] = item[j]
  BY <1>4, <1>7, <1>8
<1>10. vote' \in [Items -> [Readers -> VoteChoices]] /\ \A j \in Items \ {i} : vote'[j] = vote[j]
  <2>1. [r \in Readers |-> "none"] \in [Readers -> VoteChoices]
    BY DEF VoteChoices
  <2> QED
    BY <1>3, <1>4, <2>1
<1>11. \A j \in Items : Exists(j)' => Exists(j) /\ vote'[j] = vote[j]
  BY <1>3, <1>7, <1>9, <1>10 DEF Exists
<1>12. ItemsTyped'
  <2>1. ASSUME NEW j \in Items, NEW r \in Readers, vote'[j][r] # "none" PROVE Exists(j)'
    <3>1. CASE j # i
      BY <1>9, <1>10, <2>1, <3>1 DEF NewsInv, ItemsTyped, Exists
    <3>2. CASE j = i /\ state # "removed"
      BY <1>7, <1>9, <3>2 DEF Exists
    <3>3. CASE j = i /\ state = "removed"
      <4>1. vote'[i] = [q \in Readers |-> "none"]
        BY <1>3, <1>4, <3>3
      <4> QED
        BY <2>1, <3>3, <4>1
    <3> QED
      BY <3>1, <3>2, <3>3
  <2> QED
    BY <1>9, <1>10, <2>1 DEF ItemsTyped
<1>13. CountsInv'
  <2> SUFFICES ASSUME NEW j \in Items \ overlapped
               PROVE  /\ Exists(j)' => /\ item'[j].up = Tally(j, "up")' /\ item'[j].down = Tally(j, "down")'
                                       /\ \A s \in Slots, r \in Readers :
                                            Casts(s, r, j)' /\ votes'[s].stage = "read" => votes'[s].old = vote'[j][r]
                      /\ \A s, t \in Slots, r \in Readers :
                           Casts(s, r, j)' /\ Casts(t, r, j)' /\ votes'[s].stage = "read" /\ votes'[t].stage = "read"
                             => s = t
    BY <1>0 DEF CountsInv
  <2>0. CountsInv
    BY DEF NewsInv
  <2>1. Exists(j)' => \A c : Tally(j, c)' = Tally(j, c)
    BY <1>11 DEF Tally
  <2>2. item'[j].up = item[j].up /\ item'[j].down = item[j].down
    BY <1>5, <1>7, <1>9
  <2> QED
    BY <1>1, <1>2, <1>11, <2>0, <2>1, <2>2 DEF CountsInv
<1>14. MarksInv'
  <2> SUFFICES ASSUME NEW f \in Feeds, NEW j \in Items, <<f, j>> \notin missed
               PROVE  OwnVotes(f, j)' /\ HasTheVote(f, j)'
    BY <1>0 DEF MarksInv
  <2>1. OwnVotes(f, j) /\ HasTheVote(f, j)
    BY DEF NewsInv, MarksInv
  <2> QED
    BY <1>0, <1>1, <1>2, <1>11, <2>1, MarksKept
<1>15. FeedsTyped' /\ VotesTyped' /\ reader' \in [Feeds -> Readers]
  BY <1>0, <1>1, <1>2 DEF NewsInv, FeedsTyped, VotesTyped, FetchOK
<1> QED
  BY <1>12, <1>13, <1>14, <1>15 DEF NewsInv

\* A vote whose feed stops waiting, or not, is the same vote.
LEMMA SameVote ==
  ASSUME NEW s, reader' = reader,
         votes'[s] = votes[s] \/ (CastOK(s) /\ \E b \in BOOLEAN : votes'[s] = [votes[s] EXCEPT !.live = b])
  PROVE  /\ CastOK(s)' <=> CastOK(s)
         /\ \A r, i : Casts(s, r, i)' <=> Casts(s, r, i)
         /\ WillShow(s)' = WillShow(s)
         /\ CastOK(s) => /\ votes'[s].stage = votes[s].stage /\ votes'[s].old = votes[s].old
                         /\ votes'[s].feed = votes[s].feed /\ votes'[s].item = votes[s].item
<1>1. CASE votes'[s] = votes[s]
  BY <1>1, CastStays
<1>2. ASSUME CastOK(s), NEW b \in BOOLEAN, votes'[s] = [votes[s] EXCEPT !.live = b]
      PROVE  /\ CastOK(s)'
             /\ \A r, i : Casts(s, r, i)' <=> Casts(s, r, i)
             /\ WillShow(s)' = WillShow(s)
             /\ votes'[s].stage = votes[s].stage /\ votes'[s].old = votes[s].old
             /\ votes'[s].feed = votes[s].feed /\ votes'[s].item = votes[s].item
  <2>1. PICK v : v = votes[s]
    OBVIOUS
  <2>2. PICK w : w = [v EXCEPT !.live = b]
    OBVIOUS
  <2>3. /\ w.stage = v.stage /\ w.feed = v.feed /\ w.item = v.item /\ w.next = v.next /\ w.old = v.old
        /\ w.before = v.before /\ w.answer = v.answer /\ DOMAIN w = DOMAIN v
    BY <2>2
  <2>4. votes[s] = v /\ votes'[s] = w
    BY <1>2, <2>1, <2>2
  <2>5. CastOK(s)'
    BY <1>2, <2>3, <2>4 DEF CastOK
  <2> QED
    BY <1>2, <2>3, <2>4, <2>5 DEF Casts, WillShow
<1> QED
  BY <1>1, <1>2

\* One feed moves, and maybe stops waiting for votes of its own.
LEMMA FeedMoves ==
  ASSUME NewsInv, NEW f \in Feeds, UNCHANGED <<item, vote, reader, overlapped>>,
         \A g \in Feeds \ {f} : /\ feed'[g] = feed[g] /\ voting'[g] = voting[g]
                                /\ kept'[g] = kept[g] /\ fetch'[g] = fetch[g],
         missed \subseteq missed', FeedsTyped', DOMAIN votes' = Slots,
         \A s \in Slots : \/ votes'[s] = votes[s]
                          \/ /\ CastOK(s) /\ votes[s].feed = f
                             /\ \E b \in BOOLEAN : votes'[s] = [votes[s] EXCEPT !.live = b],
         \A i \in Items : <<f, i>> \notin missed' => OwnVotes(f, i)' /\ HasTheVote(f, i)'
  PROVE  NewsInv'
<1>1. \A s \in Slots : /\ CastOK(s)' <=> CastOK(s)
                       /\ \A r, i : Casts(s, r, i)' <=> Casts(s, r, i)
                       /\ WillShow(s)' = WillShow(s)
                       /\ CastOK(s) => /\ votes'[s].stage = votes[s].stage /\ votes'[s].old = votes[s].old
                                       /\ votes'[s].feed = votes[s].feed
                                       /\ votes[s].feed # f => votes'[s] = votes[s]
  BY SameVote
<1>2. ItemsTyped' /\ CountsInv'
  <2>1. \A s \in Slots : \A r, i :
           Casts(s, r, i)' /\ votes'[s].stage = "read" =>
             Casts(s, r, i) /\ votes[s].stage = "read" /\ votes'[s].old = votes[s].old
    BY <1>1 DEF Casts
  <2> QED
    BY <2>1, CountsKept
<1>3. VotesTyped'
  BY <1>1 DEF NewsInv, VotesTyped
<1>4. ASSUME NEW g \in Feeds \ {f}, NEW i \in Items, <<g, i>> \notin missed'
      PROVE  OwnVotes(g, i)' /\ HasTheVote(g, i)'
  <2>1. OwnVotes(g, i) /\ HasTheVote(g, i)
    BY <1>4 DEF NewsInv, MarksInv
  <2>2. ASSUME NEW s \in Slots, Casts(s, reader[g], i)'
        PROVE  Casts(s, reader[g], i) /\ votes'[s] = votes[s] /\ WillShow(s)' = WillShow(s)
    <3>1. Casts(s, reader[g], i) /\ WillShow(s)' = WillShow(s)
      BY <1>1, <2>2
    <3>2. votes[s].feed = g /\ CastOK(s)
      BY <2>1, <3>1 DEF OwnVotes, Casts
    <3> QED
      BY <1>1, <3>1, <3>2
  <2>3. Exists(i)' => Exists(i)
    BY DEF Exists
  <2> QED
    BY <2>1, <2>2, <2>3, MarksKept
<1>5. MarksInv'
  BY <1>4 DEF MarksInv
<1> QED
  BY <1>2, <1>3, <1>5 DEF NewsInv

LEMMA MountFeedStep ==
  ASSUME NewsInv, NEW f \in Feeds, MountFeed(f)
  PROVE  NewsInv'
<1>0. /\ UNCHANGED <<item, vote, reader, kept, overlapped>>
      /\ voting' = [voting EXCEPT ![f] = {}]
      /\ votes' = [s \in Slots |-> IF votes[s].stage # "none" /\ votes[s].feed = f
                                   THEN [votes[s] EXCEPT !.live = FALSE] ELSE votes[s]]
      /\ missed' = missed \cup {<<f, i>> : i \in {j \in Items : OfReader(reader[f], j) # {}}}
  BY DEF MountFeed
<1>1. PICK shown : shown = IF kept[f] = {} THEN EmptyFeed ELSE CHOOSE v \in kept[f] : TRUE
  OBVIOUS
<1>2. feed' = [feed EXCEPT ![f] = shown]
  BY <1>1 DEF MountFeed
<1>3. PICK load : load = CASE kept[f] # {} -> fetch[f]
            [] kept[f] = {} /\ fetch[f].stage = "none" -> [NoFetch EXCEPT !.stage = "sent", !.waited = TRUE]
            [] OTHER -> [fetch[f] EXCEPT !.waited = TRUE]
  OBVIOUS
<1>4. fetch' = [fetch EXCEPT ![f] = load]
  BY <1>3 DEF MountFeed
<1>5. /\ DOMAIN EmptyFeed = Items /\ \A i \in Items : ~EmptyFeed[i].here
      /\ NoFetch.answer = EmptyFeed /\ DOMAIN NoFetch = {"stage", "waited", "answer"}
  BY DEF EmptyFeed, NoView, NoFetch
<1>6. (shown = EmptyFeed \/ shown \in kept[f]) /\ DOMAIN shown = Items
  <2>1. CASE kept[f] = {}
    BY <1>1, <1>5, <2>1
  <2>2. CASE kept[f] # {}
    <3>1. shown \in kept[f]
      BY <1>1, <2>2
    <3> QED
      BY <2>2, <3>1 DEF NewsInv, FeedsTyped
  <2> QED
    BY <2>1, <2>2
<1>7. \/ load = fetch[f]
      \/ load = [NoFetch EXCEPT !.stage = "sent", !.waited = TRUE]
      \/ load = [fetch[f] EXCEPT !.waited = TRUE]
  BY <1>3
<1>8. /\ load.stage \in {"none", "sent", "items", "answered"} /\ DOMAIN load = {"stage", "waited", "answer"}
      /\ \/ load.stage = fetch[f].stage /\ load.answer = fetch[f].answer
         \/ load.stage = "sent" /\ load.answer = EmptyFeed
  <2>1. FetchOK(f)
    BY DEF NewsInv, FeedsTyped
  <2>2. PICK old : old = fetch[f]
    OBVIOUS
  <2>3. old.stage \in {"none", "sent", "items", "answered"} /\ DOMAIN old = {"stage", "waited", "answer"}
    BY <2>1, <2>2 DEF FetchOK
  <2>4. CASE load = [old EXCEPT !.waited = TRUE]
    BY <2>2, <2>3, <2>4
  <2>5. CASE load = [NoFetch EXCEPT !.stage = "sent", !.waited = TRUE]
    BY <1>5, <2>5
  <2> QED
    BY <1>7, <2>2, <2>3, <2>4, <2>5
<1>9. FeedsTyped'
  <2>1. feed'[f] = shown /\ fetch'[f] = load /\ DOMAIN feed' = Feeds /\ DOMAIN fetch' = Feeds
        /\ \A g \in Feeds \ {f} : feed'[g] = feed[g] /\ fetch'[g] = fetch[g]
    BY <1>2, <1>4 DEF NewsInv, FeedsTyped
  <2>2. FetchOK(f)'
    BY <1>5, <1>8, <2>1 DEF NewsInv, FeedsTyped, FetchOK
  <2>3. \A g \in Feeds : FetchOK(g)'
    BY <2>1, <2>2 DEF NewsInv, FeedsTyped, FetchOK
  <2>4. voting' \in [Feeds -> SUBSET Items]
    BY <1>0 DEF NewsInv, FeedsTyped
  <2>5. \A g \in Feeds : DOMAIN feed'[g] = Items
    BY <1>6, <2>1 DEF NewsInv, FeedsTyped
  <2> QED
    BY <1>0, <2>1, <2>3, <2>4, <2>5 DEF NewsInv, FeedsTyped
<1>10. DOMAIN votes' = Slots
       /\ \A s \in Slots : \/ votes'[s] = votes[s]
                           \/ /\ CastOK(s) /\ votes[s].feed = f
                              /\ \E b \in BOOLEAN : votes'[s] = [votes[s] EXCEPT !.live = b]
  BY <1>0, NoVoteFields DEF NewsInv, VotesTyped
<1>11. \A s \in Slots : \A r, i : Casts(s, r, i)' <=> Casts(s, r, i)
  BY <1>0, <1>10, SameVote
<1>12. ASSUME NEW i \in Items, <<f, i>> \notin missed' PROVE OwnVotes(f, i)' /\ HasTheVote(f, i)'
  <2>1. \A s \in Slots : ~Casts(s, reader[f], i)
    <3>1. OfReader(reader[f], i) = {}
      BY <1>0, <1>12
    <3> QED
      BY <3>1 DEF OfReader, Casts, CastOK
  <2>2. OwnVotes(f, i)'
    BY <1>0, <1>11, <2>1 DEF OwnVotes
  <2>3. HasTheVote(f, i)
    BY <1>0, <1>12 DEF NewsInv, MarksInv
  <2>4. feed'[f] = shown /\ fetch'[f] = load /\ (Exists(i)' <=> Exists(i))
    BY <1>0, <1>2, <1>4 DEF NewsInv, FeedsTyped, Exists
  <2>5. HasTheVote(f, i)'
    <3> SUFFICES ASSUME Exists(i)
                 PROVE  /\ shown[i].here => shown[i].mine = vote[i][reader[f]]
                        /\ \A v \in kept[f] : v[i].here => v[i].mine = vote[i][reader[f]]
                        /\ load.stage = "answered" /\ load.answer[i].here =>
                             load.answer[i].mine = vote[i][reader[f]]
      BY <1>0, <2>4 DEF HasTheVote
    <3> QED
      BY <1>5, <1>6, <1>8, <2>3 DEF HasTheVote
  <2> QED
    BY <2>2, <2>5
<1> QED
  <2>1. \A g \in Feeds \ {f} : feed'[g] = feed[g] /\ voting'[g] = voting[g] /\ kept'[g] = kept[g] /\ fetch'[g] = fetch[g]
    BY <1>0, <1>2, <1>4 DEF NewsInv, FeedsTyped
  <2> QED
    BY <1>0, <1>9, <1>10, <1>12, <2>1, FeedMoves

\* What a feed shows, loads and keeps moves, with the vote of its reader.
ShowsTheVote(f, i, shown, load, keeps) ==
    /\ shown[i].here /\ i \notin voting[f] => shown[i].mine = vote[i][reader[f]]
    /\ \A v \in keeps : v[i].here => v[i].mine = vote[i][reader[f]]
    /\ load.stage = "answered" /\ load.answer[i].here => load.answer[i].mine = vote[i][reader[f]]
LEMMA LoadMoves ==
  ASSUME NewsInv, NEW f \in Feeds, NEW shown, NEW load, NEW keeps,
         UNCHANGED <<item, vote, reader, voting, votes, overlapped, missed>>,
         feed'[f] = shown, fetch'[f] = load, kept'[f] = keeps,
         DOMAIN feed' = Feeds, DOMAIN fetch' = Feeds, DOMAIN kept' = Feeds,
         \A g \in Feeds \ {f} : feed'[g] = feed[g] /\ fetch'[g] = fetch[g] /\ kept'[g] = kept[g],
         fetch[f].stage # "none" \/ (keeps = {} /\ load = fetch[f]),
         DOMAIN shown = Items, keeps = {} \/ \E v : keeps = {v} /\ DOMAIN v = Items,
         load.stage \in {"none", "sent", "items", "answered"},
         DOMAIN load = {"stage", "waited", "answer"}, DOMAIN load.answer = Items,
         \A i \in Items : load.answer[i].here => "mine" \in DOMAIN load.answer[i],
         \A i \in Items : Exists(i) /\ HasTheVote(f, i) => ShowsTheVote(f, i, shown, load, keeps)
  PROVE  NewsInv'
<1>1. /\ feed'[f] = shown /\ fetch'[f] = load /\ kept'[f] = keeps
      /\ DOMAIN feed' = Feeds /\ DOMAIN fetch' = Feeds /\ DOMAIN kept' = Feeds
      /\ \A g \in Feeds \ {f} : feed'[g] = feed[g] /\ fetch'[g] = fetch[g] /\ kept'[g] = kept[g]
  OBVIOUS
<1>2. FeedsTyped'
  <2>1. FetchOK(f)'
    BY <1>1 DEF FetchOK
  <2>2. \A g \in Feeds : FetchOK(g)'
    BY <1>1, <2>1 DEF NewsInv, FeedsTyped, FetchOK
  <2>3. \A g \in Feeds : DOMAIN feed'[g] = Items /\ (kept'[g] = {} \/ \E v : kept'[g] = {v} /\ DOMAIN v = Items)
    BY <1>1 DEF NewsInv, FeedsTyped
  <2>4. voting' \in [Feeds -> SUBSET Items]
    BY DEF NewsInv, FeedsTyped
  <2> QED
    BY <1>1, <2>2, <2>3, <2>4 DEF FeedsTyped
<1>3. \A s \in Slots : votes'[s] = votes[s]
  OBVIOUS
<1>4. \A s \in Slots : /\ \A r, i : Casts(s, r, i)' <=> Casts(s, r, i)
                       /\ WillShow(s)' = WillShow(s)
  BY <1>3, CastStays
<1>5. ASSUME NEW i \in Items, <<f, i>> \notin missed' PROVE OwnVotes(f, i)' /\ HasTheVote(f, i)'
  <2>1. OwnVotes(f, i) /\ HasTheVote(f, i) /\ (Exists(i)' <=> Exists(i))
    BY <1>5 DEF NewsInv, MarksInv, Exists
  <2>2. OwnVotes(f, i)'
    BY <1>1, <1>3, <1>4, <2>1 DEF OwnVotes
  <2>3. HasTheVote(f, i)'
    BY <1>1, <2>1 DEF HasTheVote, ShowsTheVote
  <2> QED
    BY <2>2, <2>3
<1>6. DOMAIN votes' = Slots
  BY DEF NewsInv, VotesTyped
<1>7. \A g \in Feeds \ {f} : voting'[g] = voting[g]
  OBVIOUS
<1> QED
  BY <1>1, <1>2, <1>3, <1>5, <1>6, <1>7, FeedMoves

LEMMA EmptyFeedShows ==
  /\ DOMAIN EmptyFeed = Items /\ \A i \in Items : ~EmptyFeed[i].here
  /\ NoFetch.answer = EmptyFeed /\ NoFetch.stage = "none"
  /\ DOMAIN NoFetch = {"stage", "waited", "answer"}
  BY DEF EmptyFeed, NoView, NoFetch

LEMMA FindItemsStep ==
  ASSUME NewsInv, NEW f \in Feeds, FindItems(f)
  PROVE  NewsInv'
<1>1. PICK found : found = [i \in Items |-> IF item[i].state = "active" THEN View(i, "none") ELSE NoView]
  OBVIOUS
<1>2. PICK load : load = [fetch[f] EXCEPT !.stage = "items", !.answer = found]
  OBVIOUS
<1>3. /\ fetch[f].stage = "sent" /\ fetch' = [fetch EXCEPT ![f] = load]
      /\ UNCHANGED <<item, vote, reader, feed, voting, kept, votes, overlapped, missed>>
  BY <1>1, <1>2 DEF FindItems
<1>4. DOMAIN fetch[f] = {"stage", "waited", "answer"}
  BY DEF NewsInv, FeedsTyped, FetchOK
<1>5. load.stage = "items" /\ load.answer = found /\ DOMAIN load = {"stage", "waited", "answer"}
  BY <1>2, <1>4
<1>6. DOMAIN found = Items /\ \A i \in Items : found[i].here => "mine" \in DOMAIN found[i]
  BY <1>1 DEF View, NoView
<1>7. /\ feed'[f] = feed[f] /\ kept'[f] = kept[f] /\ fetch'[f] = load
      /\ DOMAIN feed' = Feeds /\ DOMAIN fetch' = Feeds /\ DOMAIN kept' = Feeds
      /\ \A g \in Feeds \ {f} : feed'[g] = feed[g] /\ fetch'[g] = fetch[g] /\ kept'[g] = kept[g]
      /\ DOMAIN feed[f] = Items /\ (kept[f] = {} \/ \E v : kept[f] = {v} /\ DOMAIN v = Items)
  BY <1>3 DEF NewsInv, FeedsTyped
<1>8. \A i \in Items : Exists(i) /\ HasTheVote(f, i) => ShowsTheVote(f, i, feed[f], load, kept[f])
  BY <1>5 DEF HasTheVote, ShowsTheVote
<1> QED
  BY <1>3, <1>5, <1>6, <1>7, <1>8, LoadMoves

LEMMA FindVotesStep ==
  ASSUME NewsInv, NEW f \in Feeds, FindVotes(f)
  PROVE  NewsInv'
<1>0. PICK before : before = fetch[f].answer
  OBVIOUS
<1>1. PICK found : found = [i \in Items |-> IF before[i].here THEN [before[i] EXCEPT !.mine = vote[i][reader[f]]]
                                            ELSE NoView]
  OBVIOUS
<1>2. PICK load : load = [fetch[f] EXCEPT !.stage = "answered", !.answer = found]
  OBVIOUS
<1>3. /\ fetch[f].stage = "items" /\ fetch' = [fetch EXCEPT ![f] = load]
      /\ UNCHANGED <<item, vote, reader, feed, voting, kept, votes, overlapped, missed>>
  BY <1>0, <1>1, <1>2 DEF FindVotes
<1>4. /\ DOMAIN fetch[f] = {"stage", "waited", "answer"}
      /\ \A i \in Items : before[i].here => "mine" \in DOMAIN before[i]
  BY <1>0 DEF NewsInv, FeedsTyped, FetchOK
<1>5. load.stage = "answered" /\ load.answer = found /\ DOMAIN load = {"stage", "waited", "answer"}
  BY <1>2, <1>4
<1>6. DOMAIN found = Items
      /\ \A i \in Items : found[i].here => "mine" \in DOMAIN found[i] /\ found[i].mine = vote[i][reader[f]]
  <2>1. ASSUME NEW i \in Items, found[i].here
        PROVE  "mine" \in DOMAIN found[i] /\ found[i].mine = vote[i][reader[f]]
    <3>1. before[i].here
      BY <1>1, <2>1 DEF NoView
    <3>2. found[i] = [before[i] EXCEPT !.mine = vote[i][reader[f]]]
      BY <1>1, <3>1
    <3> QED
      BY <1>4, <3>1, <3>2
  <2> QED
    BY <1>1, <2>1
<1>7. /\ feed'[f] = feed[f] /\ kept'[f] = kept[f] /\ fetch'[f] = load
      /\ DOMAIN feed' = Feeds /\ DOMAIN fetch' = Feeds /\ DOMAIN kept' = Feeds
      /\ \A g \in Feeds \ {f} : feed'[g] = feed[g] /\ fetch'[g] = fetch[g] /\ kept'[g] = kept[g]
      /\ DOMAIN feed[f] = Items /\ (kept[f] = {} \/ \E v : kept[f] = {v} /\ DOMAIN v = Items)
  BY <1>3 DEF NewsInv, FeedsTyped
<1>8. \A i \in Items : Exists(i) /\ HasTheVote(f, i) => ShowsTheVote(f, i, feed[f], load, kept[f])
  BY <1>5, <1>6 DEF HasTheVote, ShowsTheVote
<1> QED
  BY <1>3, <1>5, <1>6, <1>7, <1>8, LoadMoves

LEMMA LoadedStep ==
  ASSUME NewsInv, NEW f \in Feeds, FeedLoaded(f) \/ LoadFails(f) \/ KeptExpires(f)
  PROVE  NewsInv'
<1>0. /\ DOMAIN feed = Feeds /\ DOMAIN kept = Feeds /\ DOMAIN fetch = Feeds /\ FetchOK(f)
      /\ DOMAIN feed[f] = Items /\ (kept[f] = {} \/ \E v : kept[f] = {v} /\ DOMAIN v = Items)
  BY DEF NewsInv, FeedsTyped
<1>1. CASE FeedLoaded(f)
  <2>1. PICK shown : shown = IF fetch[f].waited THEN fetch[f].answer ELSE feed[f]
    OBVIOUS
  <2>2. /\ fetch[f].stage = "answered" /\ fetch'[f] = NoFetch
        /\ kept'[f] = {fetch[f].answer} /\ feed'[f] = shown
        /\ DOMAIN feed' = Feeds /\ DOMAIN fetch' = Feeds /\ DOMAIN kept' = Feeds
        /\ \A g \in Feeds \ {f} : feed'[g] = feed[g] /\ fetch'[g] = fetch[g] /\ kept'[g] = kept[g]
        /\ UNCHANGED <<item, vote, reader, voting, votes, overlapped, missed>>
    BY <1>0, <1>1, <2>1 DEF FeedLoaded
  <2>3. DOMAIN fetch[f].answer = Items /\ DOMAIN shown = Items
    BY <1>0, <2>1 DEF FetchOK
  <2>4. \A i \in Items : Exists(i) /\ HasTheVote(f, i) => ShowsTheVote(f, i, shown, NoFetch, {fetch[f].answer})
    BY <2>1, <2>2, EmptyFeedShows DEF HasTheVote, ShowsTheVote
  <2> QED
    BY <2>2, <2>3, <2>4, EmptyFeedShows, LoadMoves
<1>2. CASE LoadFails(f)
  <2>1. PICK shown : shown = IF fetch[f].waited THEN EmptyFeed ELSE feed[f]
    OBVIOUS
  <2>2. /\ fetch[f].stage # "none" /\ fetch'[f] = NoFetch
        /\ kept'[f] = kept[f] /\ feed'[f] = shown
        /\ DOMAIN feed' = Feeds /\ DOMAIN fetch' = Feeds /\ DOMAIN kept' = Feeds
        /\ \A g \in Feeds \ {f} : feed'[g] = feed[g] /\ fetch'[g] = fetch[g] /\ kept'[g] = kept[g]
        /\ UNCHANGED <<item, vote, reader, voting, votes, overlapped, missed>>
    BY <1>0, <1>2, <2>1 DEF LoadFails
  <2>3. DOMAIN shown = Items
    BY <1>0, <2>1, EmptyFeedShows
  <2>4. \A i \in Items : Exists(i) /\ HasTheVote(f, i) => ShowsTheVote(f, i, shown, NoFetch, kept[f])
    BY <2>1, EmptyFeedShows DEF HasTheVote, ShowsTheVote
  <2> QED
    BY <1>0, <2>2, <2>3, <2>4, EmptyFeedShows, LoadMoves
<1>3. CASE KeptExpires(f)
  <2>2. /\ fetch'[f] = fetch[f] /\ kept'[f] = {} /\ feed'[f] = feed[f]
        /\ DOMAIN feed' = Feeds /\ DOMAIN fetch' = Feeds /\ DOMAIN kept' = Feeds
        /\ \A g \in Feeds \ {f} : feed'[g] = feed[g] /\ fetch'[g] = fetch[g] /\ kept'[g] = kept[g]
        /\ UNCHANGED <<item, vote, reader, voting, votes, overlapped, missed>>
    BY <1>0, <1>3 DEF KeptExpires
  <2>4. \A i \in Items : Exists(i) /\ HasTheVote(f, i) => ShowsTheVote(f, i, feed[f], fetch[f], {})
    BY DEF HasTheVote, ShowsTheVote
  <2> QED
    BY <1>0, <2>2, <2>4, LoadMoves DEF FetchOK
<1> QED
  BY <1>1, <1>2, <1>3

LEMMA PressVoteStep ==
  ASSUME NewsInv, NEW f \in Feeds, NEW i \in Items, NEW choice \in {"up", "down"}, PressVote(f, i, choice)
  PROVE  NewsInv'
<1>0. PICK next \in VoteChoices : next = IF feed[f][i].mine = choice THEN "none" ELSE choice
  BY DEF VoteChoices
<1>1. PICK s \in Slots :
        /\ votes[s].stage = "none"
        /\ votes' = [votes EXCEPT ![s] =
              [stage |-> "sent", feed |-> f, item |-> i, next |-> next, before |-> feed[f][i],
               old |-> "none", answer |-> NoView, live |-> TRUE]]
  BY <1>0 DEF PressVote
<1>2. PICK w : w = [stage |-> "sent", feed |-> f, item |-> i, next |-> next, before |-> feed[f][i],
                    old |-> "none", answer |-> NoView, live |-> TRUE]
  OBVIOUS
<1>3. /\ w.stage = "sent" /\ w.feed = f /\ w.item = i /\ w.next = next /\ w.before = feed[f][i]
      /\ w.old = "none" /\ w.live = TRUE /\ DOMAIN w = CastFields
  BY <1>2 DEF CastFields
<1>4. PICK view : view = Optimistic(feed[f][i], next)
  OBVIOUS
<1>5. /\ feed[f][i].here /\ i \notin voting[f]
      /\ voting' = [voting EXCEPT ![f] = voting[f] \cup {i}]
      /\ feed' = [feed EXCEPT ![f][i] = view]
      /\ kept' = [kept EXCEPT ![f] = {}]
      /\ missed' = missed \cup {<<g, i>> : g \in {h \in Feeds : reader[h] = reader[f]
                                                     /\ (h # f \/ fetch[h].stage # "none")}}
      /\ UNCHANGED <<item, vote, reader, fetch, overlapped>>
  BY <1>0, <1>4 DEF PressVote
<1>6. votes'[s] = w /\ DOMAIN votes' = Slots /\ \A t \in Slots \ {s} : votes'[t] = votes[t]
  BY <1>1, <1>2 DEF NewsInv, VotesTyped
<1>7. /\ CastOK(s)' /\ ~CastOK(s)
      /\ \A r, j : Casts(s, r, j)' <=> r = reader[f] /\ j = i
  <2>1. CastOK(s)'
    BY <1>3, <1>6 DEF CastOK, VoteChoices
  <2> QED
    BY <1>1, <1>3, <1>5, <1>6, <2>1 DEF CastOK, Casts
<1>8. \A t \in Slots \ {s} : /\ CastOK(t)' <=> CastOK(t)
                             /\ \A r, j : Casts(t, r, j)' <=> Casts(t, r, j)
                             /\ WillShow(t)' = WillShow(t)
  BY <1>5, <1>6, CastStays
<1>9. VotesTyped' /\ reader' \in [Feeds -> Readers]
  BY <1>5, <1>6, <1>7, <1>8 DEF NewsInv, VotesTyped
<1>10. ItemsTyped' /\ CountsInv'
  <2>1. \A t \in Slots : \A r, j :
           Casts(t, r, j)' /\ votes'[t].stage = "read" =>
             Casts(t, r, j) /\ votes[t].stage = "read" /\ votes'[t].old = votes[t].old
    BY <1>3, <1>6, <1>8
  <2> QED
    BY <1>5, <2>1, CountsKept
<1>11. /\ DOMAIN feed' = Feeds /\ \A g \in Feeds : DOMAIN feed'[g] = Items
       /\ \A g \in Feeds \ {f} : feed'[g] = feed[g]
       /\ \A j \in Items \ {i} : feed'[f][j] = feed[f][j]
  BY <1>5 DEF NewsInv, FeedsTyped
<1>12. /\ voting' \in [Feeds -> SUBSET Items] /\ voting'[f] = voting[f] \cup {i}
       /\ \A g \in Feeds \ {f} : voting'[g] = voting[g]
  BY <1>5 DEF NewsInv, FeedsTyped
<1>13. kept'[f] = {} /\ DOMAIN kept' = Feeds /\ \A g \in Feeds \ {f} : kept'[g] = kept[g]
  BY <1>5 DEF NewsInv, FeedsTyped
<1>14. FeedsTyped'
  <2>1. \A g \in Feeds : FetchOK(g)'
    BY <1>5 DEF NewsInv, FeedsTyped, FetchOK
  <2>2. \A g \in Feeds : kept'[g] = {} \/ \E v : kept'[g] = {v} /\ DOMAIN v = Items
    BY <1>13 DEF NewsInv, FeedsTyped
  <2> QED
    BY <1>5, <1>11, <1>12, <1>13, <2>1, <2>2 DEF NewsInv, FeedsTyped
<1>15. ASSUME NEW g \in Feeds, NEW j \in Items, <<g, j>> \notin missed'
       PROVE  OwnVotes(g, j)' /\ HasTheVote(g, j)'
  <2>0. OwnVotes(g, j) /\ HasTheVote(g, j) /\ (Exists(j)' <=> Exists(j))
    BY <1>5, <1>15 DEF NewsInv, MarksInv, Exists
  <2>1. j = i /\ reader[g] = reader[f] => g = f /\ fetch[f].stage = "none"
    BY <1>5, <1>15
  <2>2. CASE g = f /\ j = i
    <3>1. \A t \in Slots : ~Casts(t, reader[f], i)
      BY <1>5, <2>0, <2>2 DEF OwnVotes
    <3>2. \A t \in Slots : Casts(t, reader[f], i)' => t = s
      BY <1>5, <1>8, <3>1
    <3>3. WillShow(s)' = feed[f][i].mine
      BY <1>3, <1>6 DEF WillShow
    <3>4. Exists(i) => feed[f][i].mine = vote[i][reader[f]]
      BY <1>5, <2>0, <2>2 DEF HasTheVote
    <3>5. OwnVotes(f, i)'
      BY <1>3, <1>5, <1>6, <1>12, <1>13, <2>0, <2>1, <2>2, <3>2, <3>3, <3>4 DEF OwnVotes
    <3>6. HasTheVote(f, i)'
      BY <1>5, <1>12, <1>13, <2>1, <2>2 DEF HasTheVote
    <3> QED
      BY <2>2, <3>5, <3>6
  <2>3. CASE g = f /\ j # i
    <3>1. \A t \in Slots : Casts(t, reader[f], j)' => Casts(t, reader[f], j) /\ t # s
      BY <1>5, <1>7, <1>8, <2>3
    <3>2. OwnVotes(f, j)'
      BY <1>5, <1>6, <1>8, <1>12, <1>13, <2>0, <2>3, <3>1 DEF OwnVotes
    <3>3. HasTheVote(f, j)'
      BY <1>5, <1>11, <1>12, <1>13, <2>0, <2>3 DEF HasTheVote
    <3> QED
      BY <2>3, <3>2, <3>3
  <2>4. CASE g # f
    <3>1. \A t \in Slots : Casts(t, reader[g], j)' =>
            /\ Casts(t, reader[g], j) /\ votes'[t].feed = votes[t].feed
            /\ votes'[t].live = votes[t].live /\ WillShow(t)' = WillShow(t)
      BY <1>5, <1>6, <1>7, <1>8, <2>1, <2>4
    <3>2. /\ feed'[g] = feed[g] /\ voting'[g] = voting[g] /\ kept'[g] = kept[g] /\ fetch'[g] = fetch[g]
          /\ reader' = reader /\ vote' = vote
      BY <1>5, <1>11, <1>12, <1>13, <2>4
    <3> QED
      BY <2>0, <3>1, <3>2, MarksKept
  <2> QED
    BY <2>2, <2>3, <2>4
<1>16. MarksInv'
  BY <1>15 DEF MarksInv
<1> QED
  BY <1>9, <1>10, <1>14, <1>16 DEF NewsInv

\* The API goes on with a vote; its feed hears nothing yet.
LEMMA VoteGoesOn ==
  ASSUME NewsInv, NEW s \in Slots, CastOK(s), NEW w, votes' = [votes EXCEPT ![s] = w],
         UNCHANGED <<reader, feed, voting, kept, fetch, missed>>,
         ItemsTyped', CountsInv', \A i \in Items : Exists(i)' <=> Exists(i),
         w.stage \in {"read", "done", "failed"}, DOMAIN w = CastFields,
         w.feed = votes[s].feed, w.item = votes[s].item, w.next = votes[s].next, w.old \in VoteChoices,
         w.live = votes[s].live, w.before = votes[s].before,
         \A i \in Items, r \in Readers :
           i # votes[s].item \/ r # reader[votes[s].feed] => vote'[i][r] = vote[i][r],
         \/ w.stage = "done" /\ w.answer.mine = vote'[w.item][reader[w.feed]]
         \/ w.stage # "done" /\ votes[s].stage # "done" /\ vote' = vote
  PROVE  NewsInv'
<1>1. votes'[s] = w /\ DOMAIN votes' = Slots /\ \A t \in Slots \ {s} : votes'[t] = votes[t]
  BY DEF NewsInv, VotesTyped
<1>2. CastOK(s)' /\ \A r, i : Casts(s, r, i)' <=> Casts(s, r, i)
  <2>1. CastOK(s)'
    BY <1>1 DEF CastOK
  <2> QED
    BY <1>1, <2>1 DEF Casts
<1>3. \A t \in Slots \ {s} : /\ CastOK(t)' <=> CastOK(t)
                             /\ \A r, j : Casts(t, r, j)' <=> Casts(t, r, j)
                             /\ WillShow(t)' = WillShow(t)
  BY <1>1, CastStays
<1>4. VotesTyped' /\ FeedsTyped' /\ reader' \in [Feeds -> Readers]
  BY <1>1, <1>2, <1>3 DEF NewsInv, VotesTyped, FeedsTyped, FetchOK
<1>5. ASSUME NEW f \in Feeds, NEW i \in Items, <<f, i>> \notin missed'
      PROVE  OwnVotes(f, i)' /\ HasTheVote(f, i)'
  <2>0. OwnVotes(f, i) /\ HasTheVote(f, i) /\ (Exists(i)' <=> Exists(i)) /\ reader[f] \in Readers
    BY <1>5 DEF NewsInv, MarksInv
  <2>1. CASE Casts(s, reader[f], i)
    <3>1. /\ i \in voting[f] /\ fetch[f].stage = "none" /\ kept[f] = {} /\ w.feed = f /\ w.item = i
          /\ votes[s].live = TRUE
          /\ \A t \in Slots : Casts(t, reader[f], i) => s = t
      BY <2>0, <2>1 DEF OwnVotes, Casts
    <3>2. HasTheVote(f, i)'
      BY <3>1 DEF HasTheVote
    <3>3. Exists(i) => WillShow(s)' = vote'[i][reader[f]]
      <4>1. CASE w.stage = "done" /\ w.answer.mine = vote'[w.item][reader[w.feed]]
        BY <1>1, <3>1, <4>1 DEF WillShow
      <4>2. CASE w.stage # "done" /\ votes[s].stage # "done" /\ vote' = vote
        <5>1. WillShow(s)' = WillShow(s)
          BY <1>1, <4>2 DEF WillShow
        <5> QED
          BY <2>0, <2>1, <4>2, <5>1 DEF OwnVotes
      <4> QED
        BY <4>1, <4>2
    <3>4. \A t \in Slots : Casts(t, reader[f], i)' => t = s
      BY <1>2, <1>3, <3>1
    <3>5. OwnVotes(f, i)'
      BY <1>1, <2>0, <3>1, <3>3, <3>4 DEF OwnVotes
    <3> QED
      BY <3>2, <3>5
  <2>2. CASE ~Casts(s, reader[f], i)
    <3>1. i # votes[s].item \/ reader[f] # reader[votes[s].feed]
      BY <2>2 DEF Casts
    <3>2. vote'[i][reader[f]] = vote[i][reader[f]]
      BY <2>0, <3>1
    <3>3. \A t \in Slots : Casts(t, reader[f], i)' =>
            /\ Casts(t, reader[f], i) /\ votes'[t].feed = votes[t].feed
            /\ votes'[t].live = votes[t].live /\ WillShow(t)' = WillShow(t)
      BY <1>1, <1>2, <1>3, <2>2
    <3> QED
      BY <2>0, <3>2, <3>3, MarksKept
  <2> QED
    BY <2>1, <2>2
<1>6. MarksInv'
  BY <1>5 DEF MarksInv
<1> QED
  BY <1>4, <1>6 DEF NewsInv

LEMMA VoteReadsStep ==
  ASSUME NewsInv, NEW s \in Slots, VoteReads(s)
  PROVE  NewsInv'
<1>0. /\ votes[s].stage = "sent" /\ CastOK(s)
      /\ UNCHANGED <<item, vote, reader, feed, voting, kept, fetch, missed>>
  <2>1. votes[s].stage = "sent"
    BY DEF VoteReads
  <2> QED
    BY <2>1, NoVoteFields DEF VoteReads, NewsInv, VotesTyped
<1>1. PICK v : v = votes[s]
  OBVIOUS
<1>2. /\ v.feed \in Feeds /\ v.item \in Items /\ v.next \in VoteChoices /\ v.old \in VoteChoices
      /\ DOMAIN v = CastFields /\ reader[v.feed] \in Readers
  BY <1>0, <1>1 DEF CastOK, NewsInv
<1>3. PICK now \in VoteChoices : now = vote[v.item][reader[v.feed]]
  BY <1>2 DEF NewsInv, ItemsTyped
<1>4. PICK w : \/ /\ w = [v EXCEPT !.stage = "read", !.old = now]
                  /\ overlapped' = overlapped \cup
                       {i \in {v.item} : \E t \in OfReader(reader[v.feed], i) : votes[t].stage = "read"}
                  /\ votes' = [votes EXCEPT ![s] = w]
               \/ /\ w = [v EXCEPT !.stage = "failed"] /\ UNCHANGED overlapped
                  /\ votes' = [votes EXCEPT ![s] = w]
  <2>1. CASE /\ votes' = [votes EXCEPT ![s].stage = "read", ![s].old = now]
             /\ overlapped' = overlapped \cup
                  {i \in {v.item} : \E t \in OfReader(reader[v.feed], i) : votes[t].stage = "read"}
    <3>1. votes' = [votes EXCEPT ![s] = [v EXCEPT !.stage = "read", !.old = now]]
      BY <1>1, <2>1
    <3> QED
      BY <2>1, <3>1
  <2>2. CASE votes' = [votes EXCEPT ![s].stage = "failed"] /\ UNCHANGED overlapped
    <3>1. votes' = [votes EXCEPT ![s] = [v EXCEPT !.stage = "failed"]]
      BY <1>1, <2>2
    <3> QED
      BY <2>2, <3>1
  <2> QED
    BY <1>1, <1>3, <2>1, <2>2 DEF VoteReads
<1>5. /\ w.stage \in {"read", "failed"} /\ DOMAIN w = CastFields
      /\ w.feed = v.feed /\ w.item = v.item /\ w.next = v.next /\ w.old \in VoteChoices
      /\ w.live = v.live /\ w.before = v.before
      /\ w.stage = "read" =>
           /\ w.old = now
           /\ overlapped' = overlapped \cup
                {i \in {v.item} : \E t \in OfReader(reader[v.feed], i) : votes[t].stage = "read"}
  BY <1>2, <1>4 DEF CastFields
<1>6. overlapped \subseteq overlapped' /\ votes' = [votes EXCEPT ![s] = w]
  BY <1>4
<1>7. votes'[s] = w /\ DOMAIN votes' = Slots /\ \A t \in Slots \ {s} : votes'[t] = votes[t]
  BY <1>6 DEF NewsInv, VotesTyped
<1>8. \A t \in Slots \ {s} : \A r, j : Casts(t, r, j)' <=> Casts(t, r, j)
  BY <1>0, <1>7, CastStays
<1>9. \A r, j : Casts(s, r, j)' => r = reader[v.feed] /\ j = v.item
  BY <1>0, <1>5, <1>7 DEF Casts
<1>10. ItemsTyped' /\ \A i \in Items : Exists(i)' <=> Exists(i)
  BY <1>0 DEF NewsInv, ItemsTyped, Exists
<1>11. CountsInv'
  <2> SUFFICES ASSUME NEW i \in Items, i \notin overlapped'
               PROVE  /\ Exists(i)' => /\ item'[i].up = Tally(i, "up")' /\ item'[i].down = Tally(i, "down")'
                                       /\ \A t \in Slots, r \in Readers :
                                            Casts(t, r, i)' /\ votes'[t].stage = "read" => votes'[t].old = vote'[i][r]
                      /\ \A t, u \in Slots, r \in Readers :
                           Casts(t, r, i)' /\ Casts(u, r, i)' /\ votes'[t].stage = "read" /\ votes'[u].stage = "read"
                             => t = u
    BY DEF CountsInv
  <2>1. i \notin overlapped /\ CountsInv
    BY <1>6 DEF NewsInv
  <2>2. \A c : Tally(i, c)' = Tally(i, c)
    BY <1>0 DEF Tally
  <2>3. ASSUME Exists(i)', NEW t \in Slots, NEW r \in Readers, Casts(t, r, i)', votes'[t].stage = "read"
        PROVE  votes'[t].old = vote'[i][r]
    <3>1. CASE t = s
      BY <1>0, <1>3, <1>5, <1>7, <1>9, <2>3, <3>1
    <3>2. CASE t # s
      BY <1>0, <1>7, <1>8, <1>10, <2>1, <2>3, <3>2 DEF CountsInv
    <3> QED
      BY <3>1, <3>2
  <2>4. ASSUME NEW t \in Slots \ {s}, NEW r \in Readers, Casts(s, r, i)', Casts(t, r, i)',
               votes'[s].stage = "read", votes'[t].stage = "read"
        PROVE  FALSE
    <3>1. Casts(t, r, i) /\ votes[t].stage = "read" /\ r = reader[v.feed] /\ i = v.item
      BY <1>7, <1>8, <1>9, <2>4
    <3>2. t \in OfReader(reader[v.feed], i)
      BY <3>1 DEF OfReader, Casts
    <3> QED
      BY <1>5, <1>7, <2>4, <3>1, <3>2
  <2>5. ASSUME NEW t \in Slots, NEW u \in Slots, NEW r \in Readers, Casts(t, r, i)', Casts(u, r, i)',
               votes'[t].stage = "read", votes'[u].stage = "read"
        PROVE  t = u
    <3>1. CASE t # s /\ u # s
      BY <1>7, <1>8, <2>1, <2>5, <3>1 DEF CountsInv
    <3>2. CASE t = s \/ u = s
      BY <2>4, <2>5, <3>2
    <3> QED
      BY <3>1, <3>2
  <2> QED
    BY <1>0, <1>10, <2>1, <2>2, <2>3, <2>5 DEF CountsInv
<1> QED
  BY <1>0, <1>1, <1>5, <1>6, <1>10, <1>11, VoteGoesOn

LEMMA VoteWritesStep ==
  ASSUME NewsInv, NEW s \in Slots, VoteWrites(s)
  PROVE  NewsInv'
<1>0. /\ votes[s].stage = "read" /\ CastOK(s)
      /\ UNCHANGED <<reader, feed, voting, kept, fetch, overlapped, missed>>
  <2>1. votes[s].stage = "read"
    BY DEF VoteWrites
  <2> QED
    BY <2>1, NoVoteFields DEF VoteWrites, NewsInv, VotesTyped
<1>1. PICK v : v = votes[s]
  OBVIOUS
<1>2. PICK r : r = reader[v.feed]
  OBVIOUS
<1>3. /\ v.feed \in Feeds /\ v.item \in Items /\ v.next \in VoteChoices /\ v.old \in VoteChoices
      /\ DOMAIN v = CastFields /\ r \in Readers
  BY <1>0, <1>1, <1>2 DEF CastOK, NewsInv
<1>4. PICK i \in Items : i = v.item
  BY <1>3
<1>5. item \in [Items -> ItemRows] /\ vote \in [Items -> [Readers -> VoteChoices]]
  BY DEF NewsInv, ItemsTyped
<1>6. PICK row \in ItemRows : row = item[i]
  BY <1>5
<1>7. PICK cast \in [Readers -> VoteChoices] : cast = vote[i]
  BY <1>5
<1>8. CASE VoteFits(v, cast[r])
  <2>1. PICK newRow : newRow = IF v.old # v.next THEN Counted(row, v.old, v.next) ELSE row
    OBVIOUS
  <2>2. PICK newCast : newCast = IF v.old # v.next THEN [cast EXCEPT ![r] = v.next] ELSE cast
    OBVIOUS
  <2>3. PICK w : w = [v EXCEPT !.stage = "done",
             !.answer = [here |-> TRUE, up |-> item'[i].up, down |-> item'[i].down, mine |-> vote'[i][r]]]
    OBVIOUS
  <2>4. /\ vote' = IF v.old # v.next THEN [vote EXCEPT ![i][r] = v.next] ELSE vote
        /\ item' = IF v.old # v.next THEN [item EXCEPT ![i] = Counted(item[i], v.old, v.next)] ELSE item
        /\ votes' = [votes EXCEPT ![s].stage = "done",
             ![s].answer = [here |-> TRUE, up |-> item'[i].up, down |-> item'[i].down, mine |-> vote'[i][r]]]
    BY <1>1, <1>2, <1>4, <1>7, <1>8 DEF VoteWrites
  <2>5. votes' = [votes EXCEPT ![s] = w]
    BY <1>1, <2>3, <2>4
  <2>6. /\ w.stage = "done" /\ DOMAIN w = CastFields /\ w.feed = v.feed /\ w.item = v.item
        /\ w.next = v.next /\ w.old = v.old /\ w.live = v.live /\ w.before = v.before
        /\ w.answer.mine = vote'[i][r]
    BY <1>3, <2>3 DEF CastFields
  <2>7. /\ newRow \in ItemRows /\ newRow.state = row.state
        /\ newRow.up = row.up + (IF v.next = "up" THEN 1 ELSE 0) - (IF v.old = "up" THEN 1 ELSE 0)
        /\ newRow.down = row.down + (IF v.next = "down" THEN 1 ELSE 0) - (IF v.old = "down" THEN 1 ELSE 0)
    <3>1. PICK up \in Int : up = row.up + (IF v.next = "up" THEN 1 ELSE 0) - (IF v.old = "up" THEN 1 ELSE 0)
      BY DEF ItemRows
    <3>2. PICK down \in Int :
            down = row.down + (IF v.next = "down" THEN 1 ELSE 0) - (IF v.old = "down" THEN 1 ELSE 0)
      BY DEF ItemRows
    <3>3. Counted(row, v.old, v.next) = [row EXCEPT !.up = up, !.down = down]
      BY <3>1, <3>2 DEF ItemRows, Counted
    <3>4. CASE v.old # v.next
      BY <2>1, <3>1, <3>2, <3>3, <3>4 DEF ItemRows
    <3>5. CASE v.old = v.next
      <4>1. newRow = row /\ row.up = up /\ row.down = down
        BY <2>1, <3>1, <3>2, <3>5 DEF ItemRows
      <4> QED
        BY <3>1, <3>2, <4>1
    <3> QED
      BY <3>4, <3>5
  <2>8. item' \in [Items -> ItemRows] /\ item'[i] = newRow /\ \A j \in Items \ {i} : item'[j] = item[j]
    BY <1>5, <1>6, <2>1, <2>4, <2>7
  <2>9. newCast \in [Readers -> VoteChoices] /\ \A q \in Readers \ {r} : newCast[q] = cast[q]
    BY <1>3, <2>2
  <2>10. vote' \in [Items -> [Readers -> VoteChoices]] /\ vote'[i] = newCast
         /\ \A j \in Items \ {i} : vote'[j] = vote[j]
    <3>1. vote' = [vote EXCEPT ![i] = newCast]
      <4>1. CASE v.old # v.next
        BY <1>7, <2>2, <2>4, <4>1
      <4>2. CASE ~(v.old # v.next)
        BY <1>5, <1>7, <2>2, <2>4, <4>2
      <4> QED
        BY <4>1, <4>2
    <3> QED
      BY <1>5, <2>9, <3>1
  <2>11. \A j \in Items : Exists(j)' <=> Exists(j)
    BY <1>6, <2>7, <2>8 DEF Exists
  <2>12. Exists(i)
    BY <1>4, <1>8 DEF VoteFits
  <2>13. ItemsTyped'
    <3>1. ASSUME NEW j \in Items, NEW q \in Readers, vote'[j][q] # "none" PROVE Exists(j)'
      <4>1. CASE j = i
        BY <2>11, <2>12, <4>1
      <4>2. CASE j # i
        BY <2>10, <2>11, <3>1, <4>2 DEF NewsInv, ItemsTyped
      <4> QED
        BY <4>1, <4>2
    <3> QED
      BY <2>8, <2>10, <3>1 DEF ItemsTyped
  <2>14. votes'[s] = w /\ DOMAIN votes' = Slots /\ \A t \in Slots \ {s} : votes'[t] = votes[t]
    BY <2>5 DEF NewsInv, VotesTyped
  <2>15. \A t \in Slots : \A q, j : Casts(t, q, j)' /\ votes'[t].stage = "read" =>
            t # s /\ Casts(t, q, j) /\ votes[t].stage = "read" /\ votes'[t].old = votes[t].old
    BY <1>0, <2>6, <2>14, CastStays
  <2>16. CountsInv'
    <3> SUFFICES ASSUME NEW j \in Items \ overlapped
                 PROVE  /\ Exists(j)' => /\ item'[j].up = Tally(j, "up")' /\ item'[j].down = Tally(j, "down")'
                                         /\ \A t \in Slots, q \in Readers :
                                              Casts(t, q, j)' /\ votes'[t].stage = "read" => votes'[t].old = vote'[j][q]
                        /\ \A t, u \in Slots, q \in Readers :
                             Casts(t, q, j)' /\ Casts(u, q, j)' /\ votes'[t].stage = "read" /\ votes'[u].stage = "read"
                               => t = u
      BY <1>0 DEF CountsInv
    <3>0. CountsInv
      BY DEF NewsInv
    <3>1. \A t, u \in Slots, q \in Readers :
             Casts(t, q, j)' /\ Casts(u, q, j)' /\ votes'[t].stage = "read" /\ votes'[u].stage = "read" => t = u
      BY <2>15, <3>0 DEF CountsInv
    <3>2. CASE j # i
      <4>1. \A c : Tally(j, c)' = Tally(j, c)
        BY <2>10, <3>2 DEF Tally
      <4> QED
        BY <2>8, <2>10, <2>11, <2>15, <3>0, <3>1, <3>2, <4>1 DEF CountsInv
    <3>3. CASE j = i
      <4>1. /\ row.up = Tally(i, "up") /\ row.down = Tally(i, "down") /\ v.old = cast[r]
            /\ Casts(s, r, i)
        <5>1. Casts(s, r, i)
          BY <1>0, <1>1, <1>2, <1>4 DEF Casts
        <5> QED
          BY <1>0, <1>1, <1>3, <1>6, <1>7, <2>12, <3>0, <3>3, <5>1 DEF CountsInv
      <4>2. newCast[r] = v.next
        BY <1>3, <2>2, <4>1
      <4>3. \A c : Tally(i, c) = Choosing(cast, c)
        BY <1>7 DEF Tally, Choosing
      <4>4. \A c : Tally(i, c)' = Choosing(newCast, c)
        BY <2>10 DEF Tally, Choosing
      <4>5. \A c : Tally(i, c)' = Tally(i, c) + (IF v.next = c THEN 1 ELSE 0) - (IF v.old = c THEN 1 ELSE 0)
        <5>1. \A c : Choosing(newCast, c)
                      = Choosing(cast, c) + (IF newCast[r] = c THEN 1 ELSE 0) - (IF cast[r] = c THEN 1 ELSE 0)
          BY <1>3, <2>9, OneVoteMoves
        <5> QED
          BY <4>1, <4>2, <4>3, <4>4, <5>1
      <4>6. newRow.up = Tally(i, "up")' /\ newRow.down = Tally(i, "down")'
        BY <2>7, <4>1, <4>5
      <4>7. ASSUME NEW t \in Slots, NEW q \in Readers, Casts(t, q, i)', votes'[t].stage = "read"
            PROVE  votes'[t].old = vote'[i][q]
        <5>1. t # s /\ Casts(t, q, i) /\ votes[t].stage = "read" /\ votes'[t].old = votes[t].old
          BY <2>15, <4>7
        <5>2. q # r
          BY <1>0, <3>0, <3>3, <4>1, <4>7, <5>1 DEF CountsInv
        <5>3. votes[t].old = cast[q]
          BY <1>7, <2>12, <3>0, <3>3, <5>1 DEF CountsInv
        <5> QED
          BY <2>9, <2>10, <5>1, <5>2, <5>3
      <4> QED
        BY <2>8, <3>1, <3>3, <4>6, <4>7
    <3> QED
      BY <3>2, <3>3
  <2>17. \A j \in Items, q \in Readers : j # i \/ q # r => vote'[j][q] = vote[j][q]
    BY <1>7, <2>9, <2>10
  <2> QED
    <3>1. w.answer.mine = vote'[w.item][reader[w.feed]]
      BY <1>2, <1>4, <2>6
    <3>2. \A j \in Items, q \in Readers :
             j # votes[s].item \/ q # reader[votes[s].feed] => vote'[j][q] = vote[j][q]
      BY <1>1, <1>2, <1>4, <2>17
    <3> QED
      BY <1>0, <1>1, <1>3, <2>5, <2>6, <2>11, <2>13, <2>16, <3>1, <3>2, VoteGoesOn
<1>9. CASE ~VoteFits(v, cast[r])
  <2>1. PICK w : w = [v EXCEPT !.stage = "failed"]
    OBVIOUS
  <2>2. votes' = [votes EXCEPT ![s] = w] /\ UNCHANGED <<item, vote>>
    BY <1>1, <1>2, <1>4, <1>7, <1>9, <2>1 DEF VoteWrites
  <2>3. /\ w.stage = "failed" /\ DOMAIN w = CastFields /\ w.feed = v.feed /\ w.item = v.item
        /\ w.next = v.next /\ w.old = v.old /\ w.live = v.live /\ w.before = v.before
    BY <1>3, <2>1 DEF CastFields
  <2>4. votes'[s] = w /\ \A t \in Slots \ {s} : votes'[t] = votes[t]
    BY <2>2 DEF NewsInv, VotesTyped
  <2>5. \A t \in Slots : \A q, j : Casts(t, q, j)' /\ votes'[t].stage = "read" =>
           Casts(t, q, j) /\ votes[t].stage = "read" /\ votes'[t].old = votes[t].old
    BY <1>0, <2>3, <2>4, CastStays
  <2>6. ItemsTyped' /\ CountsInv'
    BY <1>0, <2>2, <2>5, CountsKept
  <2>7. \A j \in Items : Exists(j)' <=> Exists(j)
    BY <2>2 DEF Exists
  <2> QED
    BY <1>0, <1>1, <1>3, <2>2, <2>3, <2>6, <2>7, VoteGoesOn
<1> QED
  BY <1>8, <1>9

\* An answer, or giving up, touches one item of one feed.
LEMMA ReplacesOne ==
  ASSUME NewsInv, NEW s \in Slots, CastOK(s), NEW view, Replaces(s, view)
  PROVE  /\ DOMAIN feed' = Feeds /\ \A f \in Feeds : DOMAIN feed'[f] = Items
         /\ voting' \in [Feeds -> SUBSET Items]
         /\ \A f \in Feeds, i \in Items : f # votes[s].feed \/ i # votes[s].item =>
              feed'[f][i] = feed[f][i] /\ (i \in voting'[f] <=> i \in voting[f])
         /\ votes[s].live = TRUE =>
              feed'[votes[s].feed][votes[s].item] =
                IF feed[votes[s].feed][votes[s].item].here THEN view ELSE feed[votes[s].feed][votes[s].item]
<1>1. PICK f \in Feeds : f = votes[s].feed
  BY DEF CastOK
<1>2. PICK i \in Items : i = votes[s].item
  BY DEF CastOK
<1>3. /\ DOMAIN feed = Feeds /\ \A g \in Feeds : DOMAIN feed[g] = Items
      /\ voting \in [Feeds -> SUBSET Items]
  BY DEF NewsInv, FeedsTyped
<1>4. /\ feed' = IF votes[s].live /\ feed[f][i].here THEN [feed EXCEPT ![f][i] = view] ELSE feed
      /\ voting' = IF votes[s].live THEN [voting EXCEPT ![f] = voting[f] \ {i}] ELSE voting
  BY <1>1, <1>2 DEF Replaces
<1>5. /\ DOMAIN feed' = Feeds /\ \A g \in Feeds : DOMAIN feed'[g] = Items
      /\ \A g \in Feeds, j \in Items : g # f \/ j # i => feed'[g][j] = feed[g][j]
  BY <1>3, <1>4
<1>6. /\ voting' \in [Feeds -> SUBSET Items]
      /\ \A g \in Feeds, j \in Items : g # f \/ j # i => (j \in voting'[g] <=> j \in voting[g])
  BY <1>3, <1>4
<1>7. votes[s].live = TRUE => feed'[f][i] = IF feed[f][i].here THEN view ELSE feed[f][i]
  BY <1>3, <1>4
<1> QED
  BY <1>1, <1>2, <1>5, <1>6, <1>7

\* Where nothing of a vote is shown, nothing changes.
LEMMA ElsewhereKept ==
  ASSUME NEW f \in Feeds, NEW i \in Items, OwnVotes(f, i), HasTheVote(f, i),
         feed'[f][i] = feed[f][i], i \in voting'[f] <=> i \in voting[f],
         UNCHANGED <<item, vote, reader, kept, fetch>>,
         \A s \in Slots : Casts(s, reader[f], i)' =>
           /\ Casts(s, reader[f], i) /\ votes'[s].feed = votes[s].feed
           /\ votes'[s].live = votes[s].live /\ WillShow(s)' = WillShow(s)
  PROVE  OwnVotes(f, i)' /\ HasTheVote(f, i)'
<1>0. Exists(i)' <=> Exists(i)
  BY DEF Exists
<1>1. OwnVotes(f, i)'
  BY <1>0 DEF OwnVotes
<1>2. HasTheVote(f, i)'
  BY <1>0 DEF HasTheVote
<1> QED
  BY <1>1, <1>2

LEMMA VoteEnds ==
  ASSUME NewsInv, NEW s \in Slots, CastOK(s), NEW view, Replaces(s, view), view.mine = WillShow(s),
         votes' = [votes EXCEPT ![s] = NoVote],
         UNCHANGED <<item, vote, reader, kept, fetch, overlapped, missed>>
  PROVE  NewsInv'
<1>1. votes'[s] = NoVote /\ DOMAIN votes' = Slots /\ \A t \in Slots \ {s} : votes'[t] = votes[t]
  BY DEF NewsInv, VotesTyped
<1>2. ~CastOK(s)' /\ \A r, i : ~Casts(s, r, i)'
  BY <1>1, NoVoteFields DEF CastOK, Casts
<1>3. \A t \in Slots \ {s} : /\ CastOK(t)' <=> CastOK(t)
                             /\ \A r, j : Casts(t, r, j)' <=> Casts(t, r, j)
                             /\ WillShow(t)' = WillShow(t)
  BY <1>1, CastStays
<1>4. VotesTyped' /\ reader' \in [Feeds -> Readers]
  BY <1>1, <1>3 DEF NewsInv, VotesTyped
<1>5. FeedsTyped'
  BY ReplacesOne DEF NewsInv, FeedsTyped, FetchOK
<1>6. ItemsTyped' /\ CountsInv'
  <2>1. \A t \in Slots : \A r, j :
           Casts(t, r, j)' /\ votes'[t].stage = "read" =>
             Casts(t, r, j) /\ votes[t].stage = "read" /\ votes'[t].old = votes[t].old
    BY <1>1, <1>2, <1>3
  <2> QED
    BY <2>1, CountsKept
<1>7. ASSUME NEW f \in Feeds, NEW i \in Items, <<f, i>> \notin missed'
      PROVE  OwnVotes(f, i)' /\ HasTheVote(f, i)'
  <2>0. OwnVotes(f, i) /\ HasTheVote(f, i) /\ (Exists(i)' <=> Exists(i))
    BY <1>7 DEF NewsInv, MarksInv, Exists
  <2>1. CASE Casts(s, reader[f], i)
    <3>1. /\ votes[s].feed = f /\ votes[s].item = i /\ votes[s].live = TRUE
          /\ fetch[f].stage = "none" /\ kept[f] = {}
          /\ Exists(i) => WillShow(s) = vote[i][reader[f]]
          /\ \A t \in Slots : Casts(t, reader[f], i) => s = t
      BY <2>0, <2>1 DEF OwnVotes, Casts
    <3>2. \A t \in Slots : ~Casts(t, reader[f], i)'
      BY <1>2, <1>3, <3>1
    <3>3. OwnVotes(f, i)'
      BY <3>2 DEF OwnVotes
    <3>4. feed'[f][i] = IF feed[f][i].here THEN view ELSE feed[f][i]
      BY <3>1, ReplacesOne
    <3>5. HasTheVote(f, i)'
      BY <2>0, <3>1, <3>4 DEF HasTheVote
    <3> QED
      BY <3>3, <3>5
  <2>2. CASE ~Casts(s, reader[f], i)
    <3>1. f # votes[s].feed \/ i # votes[s].item
      BY <2>2 DEF Casts
    <3>2. feed'[f][i] = feed[f][i] /\ (i \in voting'[f] <=> i \in voting[f])
      BY <3>1, ReplacesOne
    <3>3. \A t \in Slots : Casts(t, reader[f], i)' =>
            /\ Casts(t, reader[f], i) /\ votes'[t].feed = votes[t].feed
            /\ votes'[t].live = votes[t].live /\ WillShow(t)' = WillShow(t)
      BY <1>1, <1>2, <1>3
    <3> QED
      BY <2>0, <3>2, <3>3, ElsewhereKept
  <2> QED
    BY <2>1, <2>2
<1>8. MarksInv'
  BY <1>7 DEF MarksInv
<1> QED
  BY <1>4, <1>5, <1>6, <1>8 DEF NewsInv

LEMMA VoteAnsweredStep ==
  ASSUME NewsInv, NEW s \in Slots, VoteAnswered(s) \/ VoteFails(s)
  PROVE  NewsInv'
<1>1. votes[s].stage \in {"done", "failed"}
  BY DEF VoteAnswered, VoteFails
<1>2. CastOK(s)
  BY <1>1, NoVoteFields DEF NewsInv, VotesTyped
<1>3. CASE VoteAnswered(s)
  <2>1. votes[s].stage = "done" /\ Replaces(s, votes[s].answer)
    BY <1>3 DEF VoteAnswered
  <2>2. votes[s].answer.mine = WillShow(s)
    BY <2>1 DEF WillShow
  <2> QED
    BY <1>2, <1>3, <2>1, <2>2, VoteEnds DEF VoteAnswered
<1>4. CASE VoteFails(s)
  <2>1. votes[s].stage = "failed" /\ Replaces(s, votes[s].before)
    BY <1>4 DEF VoteFails, TakenBack
  <2>2. votes[s].before.mine = WillShow(s)
    BY <2>1 DEF WillShow
  <2> QED
    BY <1>2, <1>4, <2>1, <2>2, VoteEnds DEF VoteFails
<1> QED
  BY <1>3, <1>4

LEMMA VoteGivenUpStep ==
  ASSUME NewsInv, NEW s \in Slots, VoteGivenUp(s)
  PROVE  NewsInv'
<1>0. /\ CastOK(s) /\ Replaces(s, votes[s].before)
      /\ votes' = [votes EXCEPT ![s].live = FALSE]
      /\ missed' = missed \cup {<<votes[s].feed, votes[s].item>>}
      /\ UNCHANGED <<item, vote, reader, kept, fetch, overlapped>>
  <2>1. votes[s].stage # "none"
    BY DEF VoteGivenUp
  <2>2. CastOK(s)
    BY <2>1, NoVoteFields DEF NewsInv, VotesTyped
  <2> QED
    BY <2>2 DEF VoteGivenUp
<1>1. /\ votes'[s] = [votes[s] EXCEPT !.live = FALSE] /\ DOMAIN votes' = Slots
      /\ \A t \in Slots \ {s} : votes'[t] = votes[t]
  BY <1>0 DEF NewsInv, VotesTyped
<1>2. \A t \in Slots : \/ votes'[t] = votes[t]
                       \/ CastOK(t) /\ \E b \in BOOLEAN : votes'[t] = [votes[t] EXCEPT !.live = b]
  BY <1>0, <1>1
<1>3. \A t \in Slots : /\ CastOK(t)' <=> CastOK(t)
                       /\ \A r, i : Casts(t, r, i)' <=> Casts(t, r, i)
                       /\ WillShow(t)' = WillShow(t)
                       /\ CastOK(t) => votes'[t].stage = votes[t].stage /\ votes'[t].old = votes[t].old
  BY <1>0, <1>2, SameVote
<1>4. VotesTyped' /\ reader' \in [Feeds -> Readers]
  BY <1>0, <1>1, <1>3 DEF NewsInv, VotesTyped
<1>5. FeedsTyped'
  BY <1>0, ReplacesOne DEF NewsInv, FeedsTyped, FetchOK
<1>6. ItemsTyped' /\ CountsInv'
  <2>1. \A t \in Slots : \A r, j :
           Casts(t, r, j)' /\ votes'[t].stage = "read" =>
             Casts(t, r, j) /\ votes[t].stage = "read" /\ votes'[t].old = votes[t].old
    BY <1>3 DEF Casts
  <2> QED
    BY <1>0, <2>1, CountsKept
<1>7. ASSUME NEW f \in Feeds, NEW i \in Items, <<f, i>> \notin missed'
      PROVE  OwnVotes(f, i)' /\ HasTheVote(f, i)'
  <2>0. OwnVotes(f, i) /\ HasTheVote(f, i) /\ (f # votes[s].feed \/ i # votes[s].item)
    BY <1>0, <1>7 DEF NewsInv, MarksInv
  <2>1. feed'[f][i] = feed[f][i] /\ (i \in voting'[f] <=> i \in voting[f])
    BY <1>0, <2>0, ReplacesOne
  <2>2. ~Casts(s, reader[f], i)
    BY <2>0 DEF OwnVotes, Casts
  <2>3. \A t \in Slots : Casts(t, reader[f], i)' => Casts(t, reader[f], i) /\ t # s
    BY <1>0, <1>3, <2>2
  <2>4. \A t \in Slots : Casts(t, reader[f], i)' =>
          /\ Casts(t, reader[f], i) /\ votes'[t].feed = votes[t].feed
          /\ votes'[t].live = votes[t].live /\ WillShow(t)' = WillShow(t)
    BY <1>1, <1>3, <2>3
  <2> QED
    BY <1>0, <2>0, <2>1, <2>4, ElsewhereKept
<1>8. MarksInv'
  BY <1>7 DEF MarksInv
<1> QED
  BY <1>4, <1>5, <1>6, <1>8 DEF NewsInv

LEMMA NewsStep == NewsInv /\ [NewsNext]_newsVars => NewsInv'
<1>1. ASSUME NewsInv, UNCHANGED newsVars PROVE NewsInv'
  <2>1. /\ UNCHANGED <<item, vote, reader, feed, voting, kept, fetch, votes, overlapped, missed>>
        /\ \A i \in Items : Exists(i)' <=> Exists(i)
    BY <1>1 DEF newsVars, Exists
  <2>2. \A s \in Slots : /\ CastOK(s)' <=> CastOK(s)
                         /\ \A r, i : Casts(s, r, i)' <=> Casts(s, r, i)
                         /\ WillShow(s)' = WillShow(s)
    BY <2>1, CastStays
  <2>3. ItemsTyped' /\ CountsInv'
    BY <1>1, <2>1, <2>2, CountsKept
  <2>4. FeedsTyped' /\ VotesTyped' /\ reader' \in [Feeds -> Readers]
    BY <1>1, <2>1, <2>2 DEF NewsInv, FeedsTyped, VotesTyped, FetchOK
  <2>5. ASSUME NEW f \in Feeds, NEW i \in Items, <<f, i>> \notin missed'
        PROVE  OwnVotes(f, i)' /\ HasTheVote(f, i)'
    <3>1. OwnVotes(f, i) /\ HasTheVote(f, i)
      BY <1>1, <2>1, <2>5 DEF NewsInv, MarksInv
    <3> QED
      BY <2>1, <2>2, <3>1, ElsewhereKept
  <2>6. MarksInv'
    BY <2>5 DEF MarksInv
  <2> QED
    BY <2>3, <2>4, <2>6 DEF NewsInv
<1>2. ASSUME NewsInv, NEW i \in Items, EditItem(i) PROVE NewsInv'
  BY <1>2, EditItemStep
<1>3. ASSUME NewsInv, NEW f \in Feeds,
             \/ MountFeed(f) \/ FindItems(f) \/ FindVotes(f) \/ FeedLoaded(f) \/ LoadFails(f)
             \/ KeptExpires(f)
      PROVE  NewsInv'
  BY <1>3, MountFeedStep, FindItemsStep, FindVotesStep, LoadedStep
<1>4. ASSUME NewsInv, NEW f \in Feeds, NEW i \in Items, NEW choice \in {"up", "down"}, PressVote(f, i, choice)
      PROVE  NewsInv'
  BY <1>4, PressVoteStep
<1>5. ASSUME NewsInv, NEW s \in Slots,
             VoteReads(s) \/ VoteWrites(s) \/ VoteAnswered(s) \/ VoteFails(s) \/ VoteGivenUp(s)
      PROVE  NewsInv'
  BY <1>5, VoteReadsStep, VoteWritesStep, VoteAnsweredStep, VoteGivenUpStep
<1> QED
  BY <1>1, <1>2, <1>3, <1>4, <1>5 DEF NewsNext

LEMMA NewsInvariance == NewsInit /\ [][NewsNext]_newsVars => []NewsInv
  BY InitNewsInv, NewsStep, PTL

LEMMA NewsInvKeeps == NewsInv => NewsTypeOK /\ CountsMatchVotes /\ FeedMarksTheVote
<1> SUFFICES ASSUME NewsInv PROVE NewsTypeOK /\ CountsMatchVotes /\ FeedMarksTheVote
  OBVIOUS
<1>1. NewsTypeOK
  <2>1. \A f \in Feeds : Cardinality(kept[f]) <= 1
    <3> SUFFICES ASSUME NEW f \in Feeds PROVE Cardinality(kept[f]) <= 1
      OBVIOUS
    <3>1. CASE kept[f] = {}
      BY <3>1, FS_EmptySet
    <3>2. CASE \E v : kept[f] = {v}
      <4>1. PICK v : kept[f] = {v}
        BY <3>2
      <4>2. PICK one : one = {v}
        OBVIOUS
      <4>3. Cardinality(one) = 1
        BY <4>2, FS_Singleton
      <4>4. Cardinality(kept[f]) = 1
        BY <4>1, <4>2, <4>3
      <4> QED
        BY <4>4
    <3> QED
      BY <3>1, <3>2 DEF NewsInv, FeedsTyped
  <2>2. \A i \in Items : /\ item[i].up \in Int /\ item[i].down \in Int
                         /\ item[i].state \in {"active", "draft", "removed"}
    BY DEF NewsInv, ItemsTyped, ItemRows
  <2> QED
    BY <2>1, <2>2 DEF NewsTypeOK, NewsInv, ItemsTyped, FeedsTyped
<1>2. CountsMatchVotes
  BY DEF NewsInv, CountsInv, CountsMatchVotes, Tally
<1>3. FeedMarksTheVote
  BY DEF NewsInv, MarksInv, HasTheVote, FeedMarksTheVote
<1> QED
  BY <1>1, <1>2, <1>3

-----------------------------------------------------------------------------
(* The cookie of the reader.                                                 *)

ErrandFields == {"kind", "stage", "answer", "token", "of", "reader", "gave", "bar", "fallback"}
ErrandsTyped ==
    /\ DOMAIN errand = Errands /\ DOMAIN jar = {"token", "reader"}
    /\ \A c \in Errands : /\ DOMAIN errand[c] = ErrandFields
                          /\ errand[c].kind = "news" => errand[c].stage \in {"asked", "answered"}
IsNews(c) == errand[c].kind = "news"
\* A call for news that will bring the id it was given.
WillBring(c) == errand[c].stage = "asked" \/ (errand[c].stage = "answered" /\ errand[c].answer = "ok")
\* While no first calls overlapped or failed, one id was issued at most, everything that is
\* under way or was answered has it, and a browser without it waits for it.
OneIdIssued ==
    /\ readers = 0 => jar.reader = 0 /\ voted = {} /\ \A c \in Errands : ~IsNews(c)
    /\ readers # 0 => /\ readers = 1 /\ voted \subseteq {1} /\ jar.reader \in {0, 1}
                      /\ \A c \in Errands : IsNews(c) => errand[c].reader = 1
                      /\ jar.reader = 0 => /\ \E c \in Errands : IsNews(c)
                                           /\ \A c \in Errands : IsNews(c) => WillBring(c)
                                           /\ \A c, d \in Errands : IsNews(c) /\ IsNews(d) => c = d
ReaderInv == ErrandsTyped /\ (split = FALSE => OneIdIssued) /\ split \in BOOLEAN

LEMMA NoErrandFields == DOMAIN NoErrand = ErrandFields /\ NoErrand.kind = "none"
  BY DEF NoErrand, ErrandFields

LEMMA InitReaderInv == CookiesInit => ReaderInv
<1> SUFFICES ASSUME CookiesInit PROVE ReaderInv
  OBVIOUS
<1>1. /\ \A c \in Errands : errand[c] = NoErrand
      /\ DOMAIN errand = Errands /\ DOMAIN jar = {"token", "reader"}
      /\ jar.reader = 0 /\ readers = 0 /\ voted = {} /\ split = FALSE
  BY DEF CookiesInit
<1>2. ErrandsTyped /\ \A c \in Errands : ~IsNews(c)
  BY <1>1, NoErrandFields DEF ErrandsTyped, IsNews
<1> QED
  BY <1>1, <1>2 DEF ReaderInv, OneIdIssued

\* A step of a call that is not for news.
LEMMA OtherErrandMoves ==
  ASSUME ReaderInv, NEW c \in Errands, NEW e, errand' = [errand EXCEPT ![c] = e],
         DOMAIN e = ErrandFields, e.kind # "news", ~IsNews(c),
         jar'.reader = jar.reader, DOMAIN jar' = DOMAIN jar, UNCHANGED <<readers, voted, split>>
  PROVE  ReaderInv'
<1>1. errand'[c] = e /\ DOMAIN errand' = Errands /\ \A d \in Errands \ {c} : errand'[d] = errand[d]
  BY DEF ReaderInv, ErrandsTyped
<1>2. \A d \in Errands : /\ IsNews(d)' <=> IsNews(d)
                         /\ IsNews(d) => errand'[d] = errand[d] /\ (WillBring(d)' <=> WillBring(d))
  BY <1>1 DEF IsNews, WillBring
<1>3. ErrandsTyped'
  BY <1>1 DEF ReaderInv, ErrandsTyped
<1>4. split = FALSE => OneIdIssued'
  BY <1>2 DEF ReaderInv, OneIdIssued
<1> QED
  BY <1>3, <1>4 DEF ReaderInv

LEMMA NothingForNews ==
  ASSUME ReaderInv, UNCHANGED <<errand, jar, readers, voted, split>>
  PROVE  ReaderInv'
  BY DEF ReaderInv, ErrandsTyped, OneIdIssued, IsNews, WillBring

LEMMA SendsStep ==
  ASSUME ReaderInv, NEW c \in Errands, NEW kind \in {"users", "verify", "logout", "page"}, NEW of, NEW stage,
         Sends(c, kind, of, stage), UNCHANGED <<jar, readers, voted, split>>
  PROVE  ReaderInv'
<1>1. PICK b : b = IF of = NoWallet THEN NoErrand.bar ELSE bar[of]
  OBVIOUS
<1>2. PICK e : e = [NoErrand EXCEPT !.kind = kind, !.stage = stage, !.of = of, !.token = jar.token, !.bar = b]
  OBVIOUS
<1>3. errand' = [errand EXCEPT ![c] = e] /\ ~IsNews(c)
  BY <1>1, <1>2 DEF Sends, Becomes, OnTheWay, IsNews
<1>4. DOMAIN e = ErrandFields /\ e.kind = kind
  BY <1>2, NoErrandFields DEF ErrandFields
<1> QED
  BY <1>3, <1>4, OtherErrandMoves

LEMMA AskNewsStep ==
  ASSUME ReaderInv, NEW c \in Errands, AskNews(c)
  PROVE  ReaderInv'
<1>1. PICK id : id = IF jar.reader = 0 THEN readers + 1 ELSE jar.reader
  OBVIOUS
<1>2. PICK e : e = [NoErrand EXCEPT !.kind = "news", !.stage = "asked", !.reader = id]
  OBVIOUS
<1>3. /\ errand' = [errand EXCEPT ![c] = e] /\ ~IsNews(c)
      /\ readers' = IF jar.reader = 0 THEN readers + 1 ELSE readers
      /\ split' = (split \/ (jar.reader = 0 /\ \E d \in OnTheWay : errand[d].kind = "news"))
      /\ UNCHANGED <<jar, voted>>
  BY <1>1, <1>2 DEF AskNews, Brought, Becomes, OnTheWay, IsNews, OtherCookies
<1>4. DOMAIN e = ErrandFields /\ e.kind = "news" /\ e.stage = "asked" /\ e.reader = id
  BY <1>2, NoErrandFields DEF ErrandFields
<1>5. errand'[c] = e /\ DOMAIN errand' = Errands /\ \A d \in Errands \ {c} : errand'[d] = errand[d]
  BY <1>3 DEF ReaderInv, ErrandsTyped
<1>6. ErrandsTyped'
  BY <1>3, <1>4, <1>5 DEF ReaderInv, ErrandsTyped
<1>7. IsNews(c)' /\ WillBring(c)'
  BY <1>4, <1>5 DEF IsNews, WillBring
<1>8. \A d \in Errands \ {c} : (IsNews(d)' <=> IsNews(d)) /\ (WillBring(d)' <=> WillBring(d))
  BY <1>5 DEF IsNews, WillBring
<1>9. ASSUME split' = FALSE PROVE OneIdIssued'
  <2>1. OneIdIssued /\ (jar.reader = 0 => \A d \in Errands : ~IsNews(d))
    BY <1>3, <1>9 DEF ReaderInv, OnTheWay, IsNews
  <2>2. CASE jar.reader = 0
    <3>1. readers = 0 /\ voted = {} /\ \A d \in Errands : ~IsNews(d)
      BY <2>1, <2>2 DEF OneIdIssued
    <3>2. readers' = 1 /\ id = 1
      BY <1>1, <1>3, <2>2, <3>1
    <3>3. \A d \in Errands : IsNews(d)' => d = c
      BY <1>8, <3>1
    <3> QED
      BY <1>3, <1>4, <1>5, <1>7, <2>2, <3>1, <3>2, <3>3 DEF OneIdIssued
  <2>3. CASE jar.reader # 0
    <3>1. readers # 0 /\ readers' = readers /\ jar.reader = 1 /\ id = 1 /\ jar' = jar
      BY <1>1, <1>3, <2>1, <2>3 DEF OneIdIssued
    <3> QED
      BY <1>3, <1>4, <1>5, <1>8, <2>1, <3>1 DEF OneIdIssued
  <2> QED
    BY <2>2, <2>3
<1> QED
  BY <1>3, <1>6, <1>9 DEF ReaderInv

\* The API answers.
LEMMA AnswersStep ==
  ASSUME ReaderInv, NEW c \in Errands,
         AnswerUsers(c) \/ AnswerVerify(c) \/ AskGate(c) \/ GateFetched(c) \/ CheckAccess(c)
  PROVE  ReaderInv'
<1>1. ~IsNews(c) /\ jar' = jar /\ UNCHANGED <<readers, voted, split>>
  <2>1. IsNews(c) => errand[c].stage \in {"asked", "answered"}
    BY DEF ReaderInv, ErrandsTyped, IsNews
  <2> QED
    BY <2>1 DEF AnswerUsers, AnswerVerify, AskGate, GateFetched, CheckAccess, InStage, IsNews,
                OtherCookies, cookieHistory
<1>2. DOMAIN errand[c] = ErrandFields
  BY DEF ReaderInv, ErrandsTyped
<1>3. ASSUME NEW e, Becomes(c, e), DOMAIN e = ErrandFields, e.kind = errand[c].kind
      PROVE  ReaderInv'
  BY <1>1, <1>3, OtherErrandMoves DEF Becomes, IsNews
<1>4. ASSUME NEW answer, Answers(c, answer) PROVE ReaderInv'
  <2>1. PICK e : e = [errand[c] EXCEPT !.stage = "answered", !.answer = answer]
    OBVIOUS
  <2>2. Becomes(c, e)
    BY <1>4, <2>1 DEF Answers
  <2>3. DOMAIN e = ErrandFields /\ e.kind = errand[c].kind
    BY <1>2, <2>1 DEF ErrandFields
  <2> QED
    BY <1>3, <2>2, <2>3
<1>5. ASSUME NEW stage, NEW b, Becomes(c, [errand[c] EXCEPT !.stage = stage, !.fallback = b])
      PROVE  ReaderInv'
  <2>1. PICK e : e = [errand[c] EXCEPT !.stage = stage, !.fallback = b]
    OBVIOUS
  <2>2. DOMAIN e = ErrandFields /\ e.kind = errand[c].kind
    BY <1>2, <2>1 DEF ErrandFields
  <2>3. Becomes(c, e)
    BY <1>5, <2>1
  <2> QED
    BY <1>3, <2>2, <2>3
<1>6. ASSUME NEW on, Gated(c, on) PROVE ReaderInv'
  BY <1>4, <1>5, <1>6 DEF Gated
<1>7. CASE AnswerUsers(c)
  <2>1. PICK answer : answer = IF Valid(errand[c].token) /\ holder[errand[c].token] = errand[c].of
                               THEN BarAnswer(errand[c].of) ELSE "refused"
    OBVIOUS
  <2>2. Answers(c, answer)
    BY <1>7, <2>1 DEF AnswerUsers
  <2> QED
    BY <1>4, <2>2
<1>8. CASE AnswerVerify(c)
  <2>1. CASE BarAnswer(errand[c].of) # "ok"
    <3>1. PICK answer : answer = BarAnswer(errand[c].of)
      OBVIOUS
    <3>2. Answers(c, answer)
      BY <1>8, <2>1, <3>1 DEF AnswerVerify
    <3> QED
      BY <1>4, <3>2
  <2>2. CASE BarAnswer(errand[c].of) = "ok"
    <3>1. PICK t \in Tokens : Becomes(c, [errand[c] EXCEPT !.stage = "answered", !.answer = "ok", !.gave = t])
      BY <1>8, <2>2 DEF AnswerVerify
    <3>2. PICK e : e = [errand[c] EXCEPT !.stage = "answered", !.answer = "ok", !.gave = t]
      OBVIOUS
    <3>3. DOMAIN e = ErrandFields /\ e.kind = errand[c].kind
      BY <1>2, <3>2 DEF ErrandFields
    <3>4. Becomes(c, e)
      BY <3>1, <3>2
    <3> QED
      BY <1>3, <3>3, <3>4
  <2> QED
    BY <2>1, <2>2
<1>9. CASE AskGate(c)
  <2>1. CASE gateCache.fresh
    BY <1>6, <1>9, <2>1 DEF AskGate
  <2>2. CASE ~gateCache.fresh
    <3>1. PICK b : b = (gateCache.known /\ gateCache.on)
      OBVIOUS
    <3>2. Becomes(c, [errand[c] EXCEPT !.stage = "fetching", !.fallback = b])
      BY <1>9, <2>2, <3>1 DEF AskGate
    <3> QED
      BY <1>5, <3>2
  <2> QED
    BY <2>1, <2>2
<1>10. CASE GateFetched(c)
  <2>1. PICK on : Gated(c, on)
    BY <1>10 DEF GateFetched
  <2> QED
    BY <1>6, <2>1
<1>11. CASE CheckAccess(c)
  <2>1. PICK answer : Answers(c, answer)
    BY <1>11 DEF CheckAccess
  <2> QED
    BY <1>4, <2>1
<1> QED
  BY <1>7, <1>8, <1>9, <1>10, <1>11

LEMMA AnswerNewsStep ==
  ASSUME ReaderInv, NEW c \in Errands, AnswerNews(c) \/ AskedInVain(c)
  PROVE  ReaderInv'
<1>1. DOMAIN errand[c] = ErrandFields /\ DOMAIN errand = Errands
  BY DEF ReaderInv, ErrandsTyped
<1>2. PICK answer : /\ errand' = [errand EXCEPT ![c] = [errand[c] EXCEPT !.stage = "answered", !.answer = answer]]
                    /\ AnswerNews(c) => answer = "ok"
  <2>1. CASE AnswerNews(c)
    BY <2>1 DEF AnswerNews, Answers, Becomes
  <2>2. CASE AskedInVain(c) /\ ~AnswerNews(c)
    BY <2>2 DEF AskedInVain, Answers, Becomes
  <2> QED
    BY <2>1, <2>2
<1>3. PICK old : old = errand[c]
  OBVIOUS
<1>4. PICK e : e = [old EXCEPT !.stage = "answered", !.answer = answer]
  OBVIOUS
<1>5. /\ DOMAIN e = ErrandFields /\ e.kind = old.kind /\ e.reader = old.reader /\ e.stage = "answered"
      /\ e.answer = answer
  BY <1>1, <1>3, <1>4 DEF ErrandFields
<1>6. errand' = [errand EXCEPT ![c] = e]
  BY <1>2, <1>3, <1>4
<1>7. errand'[c] = e /\ DOMAIN errand' = Errands /\ \A d \in Errands \ {c} : errand'[d] = errand[d]
  BY <1>1, <1>6
<1>8. /\ UNCHANGED <<jar, readers>>
      /\ IsNews(c) => /\ voted \subseteq voted' /\ voted' \subseteq voted \cup {errand[c].reader}
                      /\ split' = split \/ split' = (split \/ errand[c].reader # jar.reader)
                      /\ AnswerNews(c) \/ split' = (split \/ errand[c].reader # jar.reader)
      /\ ~IsNews(c) => UNCHANGED <<voted, split>>
  <2>1. CASE AnswerNews(c)
    BY <2>1 DEF AnswerNews, IsNews, OtherCookies
  <2>2. CASE AskedInVain(c)
    BY <2>2 DEF AskedInVain, IsNews, OtherCookies
  <2> QED
    BY <2>1, <2>2
<1>9. CASE ~IsNews(c)
  BY <1>3, <1>5, <1>6, <1>8, <1>9, OtherErrandMoves DEF IsNews
<1>10. CASE IsNews(c)
  <2>1. ErrandsTyped'
    BY <1>5, <1>7, <1>8 DEF ReaderInv, ErrandsTyped
  <2>2. \A d \in Errands : /\ IsNews(d)' <=> IsNews(d)
                           /\ errand'[d].reader = errand[d].reader
                           /\ d # c => (WillBring(d)' <=> WillBring(d))
    BY <1>3, <1>5, <1>7 DEF IsNews, WillBring
  <2>3. ASSUME split' = FALSE PROVE OneIdIssued'
    <3>1. OneIdIssued
      BY <1>8, <1>10, <2>3 DEF ReaderInv
    <3>2. readers = 1 /\ errand[c].reader = 1 /\ voted' \subseteq {1} /\ jar.reader \in {0, 1}
      BY <1>8, <1>10, <3>1 DEF OneIdIssued
    <3>3. jar.reader = 0 => WillBring(c)'
      <4>1. jar.reader = 0 => errand[c].reader # jar.reader
        BY <3>2
      <4>2. jar.reader = 0 => AnswerNews(c)
        BY <1>8, <1>10, <2>3, <4>1, Zenon
      <4> QED
        BY <1>2, <1>5, <1>7, <4>2 DEF WillBring
    <3> QED
      BY <1>8, <2>2, <3>1, <3>2, <3>3 DEF OneIdIssued
  <2> QED
    BY <1>8, <1>10, <2>1, <2>3 DEF ReaderInv
<1> QED
  BY <1>9, <1>10

\* A call ends, and its answer is applied or lost.
LEMMA EndsStep ==
  ASSUME ReaderInv, NEW c \in Errands, AnswerArrives(c) \/ NeverArrives(c)
  PROVE  ReaderInv'
<1>1. PICK old : old = errand[c]
  OBVIOUS
<1>2. /\ old.stage = "answered" /\ errand' = [errand EXCEPT ![c] = NoErrand] /\ UNCHANGED <<readers, voted>>
      /\ AnswerArrives(c) \/ ~IsNews(c) => split' = split
      /\ ~AnswerArrives(c) /\ IsNews(c) => split' = (split \/ old.reader # jar.reader)
  <2>1. CASE AnswerArrives(c)
    BY <1>1, <2>1 DEF AnswerArrives, Becomes, InStage
  <2>2. CASE ~AnswerArrives(c) /\ NeverArrives(c)
    <3>1. /\ split' = (split \/ (old.kind = "news" /\ old.reader # jar.reader))
          /\ old.stage = "answered" /\ errand' = [errand EXCEPT ![c] = NoErrand] /\ UNCHANGED <<readers, voted>>
      BY <1>1, <2>2 DEF NeverArrives, Becomes, InStage
    <3>2. /\ ~IsNews(c) => split' = split
          /\ IsNews(c) => split' = (split \/ old.reader # jar.reader)
      BY <1>1, <3>1 DEF IsNews, ReaderInv
    <3> QED
      BY <2>2, <3>1, <3>2
  <2> QED
    BY <2>1, <2>2
<1>3. /\ DOMAIN jar' = {"token", "reader"}
      /\ jar'.reader = IF AnswerArrives(c) /\ IsNews(c) /\ old.answer = "ok" THEN old.reader ELSE jar.reader
  <2>1. CASE AnswerArrives(c)
    BY <1>1, <2>1 DEF AnswerArrives, Applied, IsNews
  <2>2. CASE ~AnswerArrives(c)
    BY <2>2 DEF NeverArrives, OtherCookies, ReaderInv, ErrandsTyped
  <2> QED
    BY <2>1, <2>2
<1>4. errand'[c] = NoErrand /\ DOMAIN errand' = Errands /\ \A d \in Errands \ {c} : errand'[d] = errand[d]
  BY <1>2 DEF ReaderInv, ErrandsTyped
<1>5. CASE ~IsNews(c)
  <2>1. jar'.reader = jar.reader /\ split' = split /\ DOMAIN jar' = DOMAIN jar
    BY <1>2, <1>3, <1>5 DEF ReaderInv, ErrandsTyped
  <2> QED
    BY <1>2, <1>5, <2>1, NoErrandFields, OtherErrandMoves
<1>6. CASE IsNews(c)
  <2>1. ErrandsTyped'
    BY <1>3, <1>4, NoErrandFields DEF ReaderInv, ErrandsTyped
  <2>2. ~IsNews(c)' /\ \A d \in Errands \ {c} : IsNews(d)' => IsNews(d)
    BY <1>4, NoErrandFields DEF IsNews
  <2>3. ASSUME split' = FALSE PROVE OneIdIssued'
    <3>1. OneIdIssued
      BY <1>2, <2>3 DEF ReaderInv
    <3>2. readers = 1 /\ old.reader = 1 /\ voted \subseteq {1} /\ jar.reader \in {0, 1}
      BY <1>1, <1>6, <3>1 DEF OneIdIssued
    <3>3. jar.reader = 0 => old.answer = "ok"
      BY <1>1, <1>2, <1>6, <3>1, <3>2 DEF OneIdIssued, WillBring
    <3>4. jar'.reader = 1
      <4>1. CASE AnswerArrives(c)
        BY <1>3, <1>6, <3>2, <3>3, <4>1
      <4>2. CASE ~AnswerArrives(c)
        <5>1. old.reader = jar.reader
          BY <1>2, <1>6, <2>3, <4>2, Zenon
        <5> QED
          BY <1>3, <3>2, <4>2, <5>1
      <4> QED
        BY <4>1, <4>2
    <3>5. \A d \in Errands : IsNews(d)' => errand'[d].reader = 1
      BY <1>4, <2>2, <3>1, <3>2 DEF OneIdIssued
    <3> QED
      BY <1>2, <3>2, <3>4, <3>5 DEF OneIdIssued
  <2>4. split' \in BOOLEAN
    BY <1>2 DEF ReaderInv
  <2> QED
    BY <2>1, <2>3, <2>4 DEF ReaderInv
<1> QED
  BY <1>5, <1>6

LEMMA ReaderStep == ReaderInv /\ [CookiesNext]_cookieVars => ReaderInv'
<1>1. ASSUME ReaderInv, UNCHANGED cookieVars PROVE ReaderInv'
  BY <1>1, NothingForNews DEF cookieVars
<1>2. ASSUME ReaderInv, NEW c \in Errands, AskUsers(c) \/ AskVerify(c) \/ AskLogout(c) \/ AskPage(c)
      PROVE  ReaderInv'
  <2>1. CASE AskUsers(c)
    BY <1>2, <2>1, SendsStep DEF AskUsers, AskFor, OtherCookies
  <2>2. CASE AskVerify(c)
    BY <1>2, <2>2, SendsStep DEF AskVerify, AskFor, OtherCookies
  <2>3. CASE AskLogout(c)
    BY <1>2, <2>3, SendsStep DEF AskLogout, OtherCookies
  <2>4. CASE AskPage(c)
    BY <1>2, <2>4, SendsStep DEF AskPage, OtherCookies, cookieHistory
  <2> QED
    BY <1>2, <2>1, <2>2, <2>3, <2>4
<1>3. ASSUME ReaderInv, NEW c \in Errands,
             \/ AskNews(c) \/ AnswerUsers(c) \/ AnswerVerify(c) \/ AnswerNews(c) \/ AskedInVain(c)
             \/ AskGate(c) \/ GateFetched(c) \/ CheckAccess(c) \/ AnswerArrives(c) \/ NeverArrives(c)
      PROVE  ReaderInv'
  BY <1>3, AskNewsStep, AnswersStep, AnswerNewsStep, EndsStep
<1>4. ASSUME ReaderInv, NEW w \in Wallets, BarOrUnbar(w) PROVE ReaderInv'
  BY <1>4, NothingForNews DEF BarOrUnbar
<1>5. ASSUME ReaderInv, GateExpires \/ TokenGoesStale \/ SwitchConnect PROVE ReaderInv'
  BY <1>5, NothingForNews DEF GateExpires, TokenGoesStale, SwitchConnect, cookieHistory
<1> QED
  BY <1>1, <1>2, <1>3, <1>4, <1>5 DEF CookiesNext

LEMMA ReaderInvariance == CookiesInit /\ [][CookiesNext]_cookieVars => []ReaderInv
  BY InitReaderInv, ReaderStep, PTL

LEMMA ReaderInvKeeps == ReaderInv => OneReader
<1> SUFFICES ASSUME ReaderInv, ~split PROVE Cardinality(voted) <= 1
  BY DEF OneReader
<1>1. voted \subseteq {1}
  BY DEF ReaderInv, OneIdIssued
<1>2. CASE voted = {}
  BY <1>2, FS_EmptySet
<1>3. CASE voted # {}
  <2>1. PICK one : one = {1}
    OBVIOUS
  <2>2. voted = one
    BY <1>1, <1>3, <2>1
  <2>3. Cardinality(one) = 1
    BY <2>1, FS_Singleton
  <2> QED
    BY <2>2, <2>3
<1> QED
  BY <1>2, <1>3

-----------------------------------------------------------------------------
(* The windows.                                                              *)

\* The runs started are the first ones.
Started(n) == 1 .. n \subseteq Attempts /\ \A a \in Attempts : attempt[a] # Unused <=> a \in 1 .. n
RunsTyped ==
    /\ attempt \in [Attempts -> 0 .. Stopped] /\ \E n \in Nat : Started(n)
    /\ newest \in Attempts \cup {0} /\ onChain \subseteq Attempts /\ recorded \subseteq Attempts
    /\ crossed \subseteq Attempts
ShownTyped ==
    /\ window \in {"stake", "claim", "convert"} /\ {open, converting} \subseteq BOOLEAN
    /\ status \in {"idle", "running", "claiming", "success", "failed"}
    /\ marks \in [Steps -> {"pending", "active", "success", "failed"}]
    /\ preview \in {"none", "loading", "some", "empty", "failed"}
    /\ shows.balance \in Nat /\ shows.price \in Nat
LinesInv ==
    /\ lines \subseteq Attempts \X Legs \X Reports /\ sold \subseteq Attempts \X Legs
    /\ \A x \in lines : x[3] = "COMPLETED" => <<x[1], x[2]>> \in sold

\* The runs that staked, or still may.
MayStake == {a \in Attempts : a \in onChain \/ attempt[a] \in 1 .. Pool}
OnlyFailed(i) == marks[i] = "failed" /\ \A j \in Steps : marks[j] = "failed" => j = i
\* A run that failed before it could stake leaves one stake of those confirmed.
Spare == IF status = "failed" /\ FailedAt < Pool THEN 1 ELSE 0
StakeInv ==
    /\ \A a \in Attempts : /\ attempt[a] \in {Record, Finished} => a \in onChain
                           /\ attempt[a] \in 0 .. Pool => a \notin onChain
    /\ open /\ status = "success" => newest \in onChain \cap recorded
    /\ newest \in Attempts /\ attempt[newest] \in Steps => \A i \in Steps : marks[i] # "failed"
    /\ status = "failed" => \E i \in Steps : OnlyFailed(i)
    /\ confirms \in Nat /\ repeats \in Nat /\ Cardinality(MayStake) + Spare <= confirms + repeats
ClaimInv ==
    /\ \A a \in Attempts : attempt[a] \in {Record, Finished} => a \in onChain
    /\ open /\ status = "success" => newest \in onChain
WindowsInv ==
    /\ RunsTyped /\ ShownTyped /\ LinesInv /\ OneConversion
    /\ window = "stake" => StakeInv
    /\ window = "claim" => ClaimInv

LEMMA ProductsGrow ==
  ASSUME NEW a \in Nat, NEW b \in Nat, NEW c \in Nat, a <= b
  PROVE  a * c <= b * c /\ a * c \in Nat /\ b * c \in Nat
<1>1. PICK d \in Nat : d = b - a
  OBVIOUS
<1>2. b * c = a * c + d * c
  BY <1>1
<1>3. a * c \in Nat /\ b * c \in Nat /\ d * c \in Nat
  OBVIOUS
<1> QED
  BY <1>2, <1>3

\* What division leaves.
LEMMA QuotientFits ==
  ASSUME NEW a \in Nat, NEW b \in Nat \ {0}
  PROVE  a \div b \in Nat /\ (a \div b) * b <= a
  OBVIOUS

LEMMA RatioFits ==
  ASSUME shows.balance \in Nat, shows.price \in Nat, shows.price > 0, NEW q \in 1 .. 4
  PROVE  ~TooLarge(RatioOf(q)) /\ ~Beyond(RatioOf(q))
<1>1. PICK b \in Nat : b = shows.balance
  OBVIOUS
<1>2. PICK p \in Nat \ {0} : p = shows.price
  OBVIOUS
<1>3. MaxUsd \in Nat
  BY WindowsAssumption
<1>4. PICK r : r = RatioOf(q)
  OBVIOUS
<1>5. r \in Nat /\ r * p <= MaxUsd /\ r <= b
  <2>1. CASE b * p <= MaxUsd
    <3>1. r = (b * q) \div 4
      BY <1>1, <1>2, <1>4, <2>1 DEF RatioOf
    <3>2. r \in Nat /\ r <= b
      BY <3>1
    <3>3. r * p <= b * p /\ r * p \in Nat /\ b * p \in Nat
      BY <3>2, ProductsGrow
    <3> QED
      BY <1>3, <2>1, <3>2, <3>3
  <2>2. CASE ~(b * p <= MaxUsd)
    <3>1. r = (MaxUsd * q) \div (4 * p)
      BY <1>1, <1>2, <1>4, <2>2 DEF RatioOf
    <3>2. MaxUsd * q \in Nat /\ MaxUsd * q <= 4 * MaxUsd
      BY <1>3
    <3>3. PICK m \in Nat : m = MaxUsd * q
      BY <3>2
    <3>4. PICK d \in Nat \ {0} : d = 4 * p
      OBVIOUS
    <3>5. r \in Nat /\ r * d <= m
      BY <3>1, <3>3, <3>4, QuotientFits
    <3>6. r * d = 4 * (r * p) /\ r * p \in Nat
      BY <3>4, <3>5
    <3>7. r * p <= MaxUsd
      BY <1>3, <3>2, <3>3, <3>5, <3>6
    <3>8. ~(b <= r)  \/ b = r
      <4>1. ASSUME b <= r PROVE FALSE
        <5>1. b * p <= r * p /\ b * p \in Nat
          BY <3>5, <4>1, ProductsGrow
        <5> QED
          BY <1>3, <2>2, <3>6, <3>7, <5>1
      <4> QED
        BY <4>1
    <3> QED
      BY <3>5, <3>7, <3>8
  <2> QED
    BY <2>1, <2>2
<1>6. (r - 1) * p <= MaxUsd
  <2>1. CASE r = 0
    <3>1. (r - 1) * p = 0 - p
      BY <2>1
    <3> QED
      BY <1>3, <3>1
  <2>2. CASE r # 0
    <3>1. r - 1 \in Nat /\ r - 1 <= r
      BY <1>5, <2>2
    <3>2. (r - 1) * p <= r * p /\ (r - 1) * p \in Nat /\ r * p \in Nat
      BY <1>5, <3>1, ProductsGrow
    <3> QED
      BY <1>3, <1>5, <3>2
  <2> QED
    BY <2>1, <2>2
<1> QED
  <2>1. ~TooLarge(r)
    <3>1. PICK x \in Int : x = (r - 1) * p
      BY <1>5
    <3> QED
      BY <1>2, <1>3, <1>6, <3>1 DEF TooLarge
  <2>2. ~Beyond(r)
    BY <1>1, <1>5 DEF Beyond
  <2> QED
    BY <1>4, <2>1, <2>2

LEMMA StepNumbers ==
  /\ Steps = {1, 2, 3, 4, 5} /\ Prepare = 2 /\ Sign = 3 /\ Pool = 4 /\ Record = 5
  /\ Unused = 0 /\ Finished = 6 /\ Failed = 7 /\ Stopped = 8
  BY DEF Steps, Prepare, Sign, Pool, Record, Unused, Finished, Failed, Stopped

LEMMA InitWindowsInv == WindowsInit => WindowsInv
<1> SUFFICES ASSUME WindowsInit PROVE WindowsInv
  OBVIOUS
<1>1. \A a \in Attempts : attempt[a] = 0
  BY StepNumbers DEF WindowsInit
<1>2. RunsTyped
  <2>1. Started(0)
    BY <1>1, StepNumbers DEF Started
  <2> QED
    BY <2>1, StepNumbers DEF WindowsInit, RunsTyped
<1>3. ShownTyped
  BY DEF WindowsInit, ShownTyped, Pending
<1>4. LinesInv
  BY DEF WindowsInit, LinesInv
<1>5. OneConversion
  BY <1>1, StepNumbers DEF OneConversion, UnderWay
<1>6. StakeInv
  <2>1. MayStake = {}
    BY <1>1, StepNumbers DEF MayStake, WindowsInit
  <2>2. Cardinality(MayStake) = 0
    BY <2>1, FS_EmptySet
  <2>3. Spare = 0 /\ confirms = 0 /\ repeats = 0
    BY DEF Spare, WindowsInit
  <2>4. \A a \in Attempts : a \notin onChain /\ attempt[a] \notin {Record, Finished}
    BY <1>1, StepNumbers DEF WindowsInit
  <2> QED
    BY <1>1, <2>2, <2>3, <2>4, StepNumbers DEF StakeInv, WindowsInit
<1>7. ClaimInv
  BY <1>1, StepNumbers DEF ClaimInv, WindowsInit
<1> QED
  BY <1>2, <1>3, <1>4, <1>5, <1>6, <1>7 DEF WindowsInv

\* The next run is one that never ran.
LEMMA NewRunIsNew ==
  ASSUME RunsTyped, NewRun \in Attempts, NEW x \in 1 .. Stopped,
         attempt' = [attempt EXCEPT ![NewRun] = x]
  PROVE  /\ attempt[NewRun] = Unused /\ NewRun # 0 /\ attempt'[NewRun] = x
         /\ \A a \in Attempts \ {NewRun} : attempt'[a] = attempt[a]
         /\ attempt' \in [Attempts -> 0 .. Stopped] /\ \E n \in Nat : Started(n)'
<1>1. PICK n \in Nat : Started(n)
  BY DEF RunsTyped
<1>2. PICK used : used = {0} \cup {a \in Attempts : attempt[a] # Unused}
  OBVIOUS
<1>3. used = 0 .. n
  BY <1>1, <1>2 DEF Started
<1>4. n \in used /\ \A y \in used : n >= y
  BY <1>3
<1>5. Max(used) = n
  <2>1. \A y \in used : (\A z \in used : y >= z) => y = n
    BY <1>3
  <2> QED
    BY <1>4, <2>1 DEF Max
<1>6. NewRun = n + 1
  BY <1>2, <1>5 DEF NewRun, LastRun
<1>7. attempt[NewRun] = Unused /\ NewRun # 0
  BY <1>1, <1>6 DEF Started
<1>8. /\ attempt'[NewRun] = x /\ \A a \in Attempts \ {NewRun} : attempt'[a] = attempt[a]
      /\ attempt' \in [Attempts -> 0 .. Stopped]
  BY StepNumbers DEF RunsTyped
<1>9. Started(n + 1)'
  <2>1. 1 .. n + 1 = (1 .. n) \cup {n + 1}
    OBVIOUS
  <2> QED
    BY <1>1, <1>6, <1>8, <2>1, StepNumbers DEF Started
<1> QED
  BY <1>7, <1>8, <1>9

\* A run that goes on or ends is still a run.
LEMMA RunMoves ==
  ASSUME RunsTyped, NEW a \in Attempts, attempt[a] # Unused, NEW x \in 1 .. Stopped,
         attempt' = [attempt EXCEPT ![a] = x]
  PROVE  /\ attempt'[a] = x /\ \A b \in Attempts \ {a} : attempt'[b] = attempt[b]
         /\ attempt' \in [Attempts -> 0 .. Stopped] /\ \E n \in Nat : Started(n)'
<1>1. PICK n \in Nat : Started(n)
  BY DEF RunsTyped
<1>2. /\ attempt'[a] = x /\ \A b \in Attempts \ {a} : attempt'[b] = attempt[b]
      /\ attempt' \in [Attempts -> 0 .. Stopped]
  BY StepNumbers DEF RunsTyped
<1>3. Started(n)'
  BY <1>1, <1>2, StepNumbers DEF Started
<1> QED
  BY <1>2, <1>3

LEMMA ConversionsKept ==
  ASSUME OneConversion, window' = window, crossed' = crossed,
         \A a \in Attempts : UnderWay(a)' => UnderWay(a)
  PROVE  OneConversion'
  BY DEF OneConversion

LEMMA MayStakeIsFinite ==
  /\ IsFiniteSet(MayStake) /\ Cardinality(MayStake) \in Nat
  /\ IsFiniteSet(MayStake)' /\ (Cardinality(MayStake) \in Nat)'
<1>1. IsFiniteSet(MayStake) /\ IsFiniteSet(MayStake)'
  BY WindowsAssumption, FS_Subset DEF MayStake
<1> QED
  BY <1>1, FS_CardinalityType

\* The form, and opening and leaving the window.
LEMMA StakeFormStep ==
  ASSUME WindowsInv, StoresChange \/ OpenStake \/ LeaveStake \/ ApplyRatio \/ Type
  PROVE  WindowsInv'
<1>1. /\ UNCHANGED <<window, attempt, onChain, recorded, confirms, repeats, convertVars>>
      /\ window = "stake"
  BY DEF StoresChange, OpenStake, LeaveStake, ApplyRatio, Type
<1>2. UNCHANGED <<converting, preview, lines, sold, crossed>>
  BY <1>1 DEF convertVars
<1>3. open' \in BOOLEAN /\ shows'.balance \in Nat /\ shows'.price \in Nat
  <2>1. CASE StoresChange
    BY <2>1, WindowsAssumption DEF StoresChange, WindowsInv, ShownTyped
  <2>2. CASE OpenStake \/ LeaveStake \/ ApplyRatio \/ Type
    BY <2>2 DEF OpenStake, LeaveStake, ApplyRatio, Type, WindowsInv, ShownTyped
  <2> QED
    BY <2>1, <2>2
<1>4. \/ status' = "idle" /\ marks' = Pending /\ newest' = newest
      \/ UNCHANGED <<status, marks, newest, open>>
      \/ UNCHANGED <<status, marks>> /\ newest' = 0 /\ open' = FALSE
  <2>1. CASE StoresChange \/ ApplyRatio \/ Type
    BY <2>1 DEF StoresChange, ApplyRatio, Type
  <2>2. CASE OpenStake
    BY <2>2 DEF OpenStake
  <2>3. CASE LeaveStake
    BY <2>3 DEF LeaveStake
  <2> QED
    BY <2>1, <2>2, <2>3
<1>5. RunsTyped'
  <2>1. newest' \in Attempts \cup {0}
    BY <1>4 DEF WindowsInv, RunsTyped
  <2> QED
    BY <1>1, <1>2, <2>1 DEF WindowsInv, RunsTyped, Started
<1>6. ShownTyped'
  <2>1. Pending \in [Steps -> {"pending", "active", "success", "failed"}]
    BY DEF Pending
  <2> QED
    BY <1>1, <1>2, <1>3, <1>4, <2>1 DEF WindowsInv, ShownTyped
<1>7. LinesInv' /\ OneConversion'
  <2>1. \A a \in Attempts : UnderWay(a)' => UnderWay(a)
    BY <1>1 DEF UnderWay
  <2> QED
    BY <1>1, <1>2, <2>1, ConversionsKept DEF WindowsInv, LinesInv
<1>8. StakeInv'
  <2>0. StakeInv
    BY <1>1 DEF WindowsInv
  <2>1. MayStake' = MayStake
    BY <1>1 DEF MayStake
  <2>2. Spare \in {0, 1} /\ (Spare' = 0 \/ Spare' = Spare)
    BY <1>4 DEF Spare, FailedAt
  <2>3. Cardinality(MayStake)' + Spare' <= confirms' + repeats'
    BY <1>1, <2>0, <2>1, <2>2, MayStakeIsFinite DEF StakeInv
  <2>4. \A i \in Steps : Pending[i] # "failed"
    BY DEF Pending
  <2>5. CASE status' = "idle" /\ marks' = Pending
    BY <1>1, <2>0, <2>3, <2>4, <2>5 DEF StakeInv
  <2>6. CASE UNCHANGED <<status, marks, newest, open>>
    BY <1>1, <2>0, <2>3, <2>6 DEF StakeInv, OnlyFailed
  <2>7. CASE UNCHANGED <<status, marks>> /\ newest' = 0 /\ open' = FALSE
    <3>1. 0 \notin Attempts
      BY WindowsAssumption
    <3> QED
      BY <1>1, <2>0, <2>3, <2>7, <3>1 DEF StakeInv, OnlyFailed
  <2> QED
    BY <1>4, <2>5, <2>6, <2>7
<1> QED
  BY <1>1, <1>5, <1>6, <1>7, <1>8 DEF WindowsInv

\* A run is started: confirmed, or again.
LEMMA ProcessingStep ==
  ASSUME WindowsInv, Confirm \/ Retry
  PROVE  WindowsInv'
<1>1. /\ window = "stake" /\ NewRun \in Attempts /\ newest' = NewRun
      /\ attempt' = [attempt EXCEPT ![NewRun] = 1]
      /\ status' = "running" /\ marks' = [Pending EXCEPT ![1] = "active"]
      /\ UNCHANGED <<window, open, onChain, shows, recorded, convertVars>>
  BY DEF Confirm, Retry, Processing
<1>2. UNCHANGED <<converting, preview, lines, sold, crossed>>
  BY <1>1 DEF convertVars
<1>3. PICK run \in Attempts : run = NewRun
  BY <1>1
<1>4. /\ attempt[run] = 0 /\ attempt'[run] = 1 /\ newest' = run
      /\ \A a \in Attempts \ {run} : attempt'[a] = attempt[a]
      /\ attempt' \in [Attempts -> 0 .. Stopped] /\ \E n \in Nat : Started(n)'
  BY <1>1, <1>3, NewRunIsNew, StepNumbers DEF WindowsInv
<1>5. /\ marks' \in [Steps -> {"pending", "active", "success", "failed"}]
      /\ \A i \in Steps : marks'[i] # "failed"
  BY <1>1 DEF Pending
<1>6. StakeInv
  BY <1>1 DEF WindowsInv
<1>7. RunsTyped' /\ ShownTyped'
  BY <1>1, <1>2, <1>4, <1>5 DEF WindowsInv, RunsTyped, ShownTyped
<1>8. LinesInv' /\ OneConversion'
  <2>1. \A a \in Attempts : UnderWay(a)' => UnderWay(a)
    BY <1>1 DEF UnderWay
  <2> QED
    BY <1>1, <1>2, <2>1, ConversionsKept DEF WindowsInv, LinesInv
<1>9. Cardinality(MayStake)' = Cardinality(MayStake) + 1
  <2>1. run \notin MayStake
    BY <1>4, <1>6, StepNumbers DEF StakeInv, MayStake
  <2>2. MayStake' = MayStake \cup {run}
    BY <1>1, <1>4, StepNumbers DEF MayStake
  <2> QED
    BY <2>1, <2>2, MayStakeIsFinite, FS_AddElement
<1>10. Spare' = 0
  BY <1>1 DEF Spare
<1>11. confirms' \in Nat /\ repeats' \in Nat /\ confirms' + repeats' + Spare >= confirms + repeats + 1
  <2>1. confirms \in Nat /\ repeats \in Nat
    BY <1>6 DEF StakeInv
  <2>2. CASE Confirm
    BY <2>1, <2>2 DEF Confirm, Spare
  <2>3. CASE Retry
    <3>1. /\ status = "failed" /\ confirms' = confirms
          /\ repeats' = IF status = "failed" /\ FailedAt >= Pool THEN repeats + 1 ELSE repeats
      BY <2>3 DEF Retry, MayRetry
    <3>2. FailedAt \in Steps
      <4>1. PICK i \in Steps : OnlyFailed(i)
        BY <1>6, <3>1 DEF StakeInv
      <4> QED
        BY <4>1 DEF FailedAt, OnlyFailed
    <3>3. PICK at \in 1 .. 5 : at = FailedAt
      BY <3>2 DEF Steps
    <3>4. CASE at >= 4
      BY <2>1, <3>1, <3>3, <3>4, StepNumbers DEF Spare
    <3>5. CASE at < 4
      BY <2>1, <3>1, <3>3, <3>5, StepNumbers DEF Spare
    <3> QED
      BY <3>3, <3>4, <3>5
  <2> QED
    BY <2>2, <2>3
<1>12. Cardinality(MayStake)' + Spare' <= confirms' + repeats'
  <2>1. Spare \in {0, 1} /\ Cardinality(MayStake) + Spare <= confirms + repeats /\ confirms \in Nat /\ repeats \in Nat
    BY <1>6 DEF StakeInv, Spare
  <2>2. PICK before \in Nat : before = Cardinality(MayStake)
    BY MayStakeIsFinite
  <2>3. PICK after : after = Cardinality(MayStake)' + Spare'
    OBVIOUS
  <2>4. after = before + 1
    BY <1>9, <1>10, <2>2, <2>3
  <2>5. PICK c \in Nat : c = confirms'
    BY <1>11
  <2>6. PICK r \in Nat : r = repeats'
    BY <1>11
  <2>7. PICK extra \in {0, 1} : extra = Spare
    BY <2>1
  <2>8. PICK stakes \in Nat : stakes = confirms + repeats
    BY <2>1
  <2>9. before + extra <= stakes /\ c + r + extra >= stakes + 1
    BY <1>11, <2>1, <2>2, <2>5, <2>6, <2>7, <2>8
  <2>10. after <= c + r
    BY <2>4, <2>9
  <2> QED
    BY <2>3, <2>5, <2>6, <2>10
<1>13. \A a \in Attempts : /\ attempt'[a] \in {Record, Finished} => a \in onChain'
                           /\ attempt'[a] \in 0 .. Pool => a \notin onChain'
  BY <1>1, <1>4, <1>6, StepNumbers DEF StakeInv
<1>14. StakeInv'
  BY <1>1, <1>5, <1>11, <1>12, <1>13 DEF StakeInv
<1> QED
  BY <1>1, <1>7, <1>8, <1>14 DEF WindowsInv

\* A run goes on, ends or is given up.
LEMMA StakeRunStep ==
  ASSUME WindowsInv, NEW a \in Attempts, NEW i \in Steps, AtStep(a, i), KeepForm,
         StepDone(a, i) \/ StepFails(a, i),
         onChain' = onChain \/ (i = Pool /\ onChain' = onChain \cup {a}),
         StepDone(a, i) /\ i = Pool => a \in onChain',
         recorded' = recorded \/ recorded' = recorded \cup {a},
         StepDone(a, i) /\ i = Record => a \in recorded'
  PROVE  WindowsInv'
<1>1. /\ window = "stake" /\ attempt[a] = i
      /\ UNCHANGED <<window, open, shows, newest, confirms, repeats, convertVars>>
  BY DEF AtStep, KeepForm
<1>2. UNCHANGED <<converting, preview, lines, sold, crossed>>
  BY <1>1 DEF convertVars
<1>3. StakeInv
  BY <1>1 DEF WindowsInv
<1>4. PICK x \in 1 .. Stopped :
        /\ attempt' = [attempt EXCEPT ![a] = x]
        /\ x # 1 /\ (x \in 2 .. Record => StepDone(a, i) /\ x = i + 1)
        /\ x = Finished => StepDone(a, i) /\ i = Record
  <2>1. CASE StepDone(a, i)
    BY <2>1, StepNumbers DEF StepDone
  <2>2. CASE StepFails(a, i)
    BY <2>2, StepNumbers DEF StepFails
  <2> QED
    BY <2>1, <2>2
<1>5. i \in 1 .. 5 /\ attempt[a] # Unused
  BY <1>1, StepNumbers DEF Steps
<1>6. /\ attempt'[a] = x /\ \A b \in Attempts \ {a} : attempt'[b] = attempt[b]
      /\ attempt' \in [Attempts -> 0 .. Stopped] /\ \E n \in Nat : Started(n)'
  BY <1>4, <1>5, RunMoves DEF WindowsInv
<1>7. \A b \in Attempts : /\ attempt'[b] \in {Record, Finished} => b \in onChain'
                          /\ attempt'[b] \in 0 .. Pool => b \notin onChain'
  <2>1. i \in {Record, Finished} => a \in onChain
    BY <1>1, <1>3 DEF StakeInv
  <2>2. i \in 0 .. Pool => a \notin onChain
    BY <1>1, <1>3 DEF StakeInv
  <2>3. x \in {Record, Finished} => a \in onChain'
    BY <1>4, <1>5, <2>1, StepNumbers
  <2>4. x \in 0 .. Pool => a \notin onChain'
    <3>1. x \in 0 .. Pool => i \in 1 .. 3
      BY <1>4, <1>5, StepNumbers
    <3> QED
      BY <2>2, <3>1, StepNumbers
  <2>5. ASSUME NEW b \in Attempts \ {a}
        PROVE  /\ attempt'[b] \in {Record, Finished} => b \in onChain'
               /\ attempt'[b] \in 0 .. Pool => b \notin onChain'
    BY <1>3, <1>6, <2>5 DEF StakeInv
  <2> QED
    BY <1>6, <2>3, <2>4, <2>5
<1>8. \/ newest # a /\ UNCHANGED <<marks, status>>
      \/ /\ newest = a /\ StepDone(a, i) /\ x # Stopped
         /\ marks' = [j \in Steps |-> IF j = i THEN "success" ELSE IF j = i + 1 THEN "active" ELSE marks[j]]
         /\ status' = IF i = Record THEN "success" ELSE status
      \/ newest = a /\ x = Failed /\ marks' = [marks EXCEPT ![i] = "failed"] /\ status' = "failed"
  <2>1. attempt' = [attempt EXCEPT ![a] = Failed] => x = Failed
    BY <1>6 DEF WindowsInv, RunsTyped
  <2>2. attempt' = [attempt EXCEPT ![a] = IF i = Record THEN Finished ELSE i + 1] => x # Stopped
    BY <1>5, <1>6, StepNumbers DEF WindowsInv, RunsTyped
  <2>3. CASE newest # a
    BY <2>3 DEF StepDone, StepFails
  <2>4. CASE newest = a /\ StepDone(a, i)
    BY <2>2, <2>4 DEF StepDone
  <2>5. CASE newest = a /\ StepFails(a, i)
    BY <2>1, <2>5 DEF StepFails
  <2> QED
    BY <2>3, <2>4, <2>5
<1>9. /\ marks' \in [Steps -> {"pending", "active", "success", "failed"}]
      /\ status' \in {"idle", "running", "claiming", "success", "failed"}
  BY <1>8 DEF WindowsInv, ShownTyped
<1>10. onChain \subseteq onChain' /\ onChain' \subseteq Attempts /\ recorded \subseteq recorded'
       /\ recorded' \subseteq Attempts
  BY DEF WindowsInv, RunsTyped
<1>11. RunsTyped' /\ ShownTyped'
  BY <1>1, <1>2, <1>6, <1>9, <1>10 DEF WindowsInv, RunsTyped, ShownTyped
<1>12. LinesInv' /\ OneConversion'
  <2>1. \A b \in Attempts : ~UnderWay(b)'
    BY <1>1 DEF UnderWay
  <2> QED
    BY <1>1, <1>2, <2>1, ConversionsKept DEF WindowsInv, LinesInv
<1>13. /\ newest \in Attempts /\ attempt'[newest] \in Steps => \A j \in Steps : marks'[j] # "failed"
       /\ status' = "failed" => \E j \in Steps : OnlyFailed(j)'
  <2>0. newest = a => \A j \in Steps : marks[j] # "failed"
    BY <1>1, <1>3 DEF StakeInv
  <2>1. CASE newest # a /\ UNCHANGED <<marks, status>>
    BY <1>3, <1>6, <2>1 DEF StakeInv, OnlyFailed
  <2>2. CASE /\ newest = a /\ StepDone(a, i)
             /\ marks' = [j \in Steps |-> IF j = i THEN "success" ELSE IF j = i + 1 THEN "active" ELSE marks[j]]
             /\ status' = IF i = Record THEN "success" ELSE status
    <3>1. \A j \in Steps : marks'[j] # "failed"
      BY <2>0, <2>2
    <3>2. status # "failed"
      BY <1>3, <2>0, <2>2 DEF StakeInv, OnlyFailed
    <3> QED
      BY <2>2, <3>1, <3>2
  <2>3. CASE newest = a /\ x = Failed /\ marks' = [marks EXCEPT ![i] = "failed"] /\ status' = "failed"
    <3>1. marks'[i] = "failed" /\ \A j \in Steps \ {i} : marks'[j] = marks[j]
      BY <2>3 DEF WindowsInv, ShownTyped
    <3>2. OnlyFailed(i)'
      BY <2>0, <2>3, <3>1 DEF OnlyFailed
    <3>3. attempt'[newest] \notin Steps
      BY <1>6, <2>3, StepNumbers
    <3> QED
      BY <3>2, <3>3
  <2> QED
    BY <1>8, <2>1, <2>2, <2>3
<1>14. open' /\ status' = "success" => newest' \in onChain' \cap recorded'
  <2>1. CASE status' = status
    BY <1>1, <1>3, <1>10, <2>1 DEF StakeInv
  <2>2. CASE newest = a /\ StepDone(a, i) /\ i = Record
    <3>1. a \in onChain
      BY <1>1, <1>3, <2>2 DEF StakeInv
    <3> QED
      BY <1>1, <1>10, <2>2, <3>1
  <2> QED
    BY <1>8, <2>1, <2>2
<1>15. Cardinality(MayStake)' + Spare' <= confirms' + repeats'
  <2>1. MayStake' \subseteq MayStake
    <3>1. a \in MayStake' => a \in MayStake
      <4>1. CASE i \in 1 .. Pool
        BY <1>1, <4>1 DEF MayStake
      <4>2. CASE i \notin 1 .. Pool
        <5>1. i = Record
          BY <1>5, <4>2, StepNumbers
        <5> QED
          BY <1>1, <1>3, <5>1 DEF MayStake, StakeInv
      <4> QED
        BY <4>1, <4>2
    <3>2. \A b \in Attempts \ {a} : b \in MayStake' => b \in MayStake
      BY <1>6 DEF MayStake
    <3> QED
      BY <3>1, <3>2 DEF MayStake
  <2>2. Cardinality(MayStake)' <= Cardinality(MayStake)
    BY <2>1, MayStakeIsFinite, FS_Subset
  <2>3. /\ Cardinality(MayStake) + Spare <= confirms + repeats /\ confirms \in Nat /\ repeats \in Nat
        /\ Spare \in {0, 1} /\ Spare' \in {0, 1}
    BY <1>3 DEF StakeInv, Spare
  <2>4. CASE Spare' = 0 \/ Spare' = Spare
    BY <1>1, <2>2, <2>3, <2>4, MayStakeIsFinite
  <2>5. CASE newest = a /\ x = Failed /\ marks' = [marks EXCEPT ![i] = "failed"] /\ status' = "failed"
             /\ Spare' # 0
    <3>1. FailedAt' = i
      <4>1. marks'[i] = "failed"
        BY <2>5 DEF WindowsInv, ShownTyped
      <4>2. PICK j \in Steps : OnlyFailed(j)'
        BY <1>13, <2>5
      <4>3. \A k \in Steps : marks'[k] = "failed" <=> k = i
        BY <4>1, <4>2 DEF OnlyFailed
      <4> QED
        BY <4>3 DEF FailedAt
    <3>2. i \in 1 .. 3
      BY <1>5, <2>5, <3>1, StepNumbers DEF Spare
    <3>3. a \in MayStake /\ a \notin onChain
      BY <1>1, <1>3, <3>2, StepNumbers DEF MayStake, StakeInv
    <3>4. a \notin MayStake'
      BY <1>6, <2>5, <3>2, <3>3, StepNumbers DEF MayStake
    <3>5. MayStake' \subseteq MayStake \ {a}
      BY <2>1, <3>4
    <3>6. IsFiniteSet(MayStake \ {a}) /\ Cardinality(MayStake \ {a}) = Cardinality(MayStake) - 1
      BY <3>3, MayStakeIsFinite, FS_RemoveElement
    <3>7. Cardinality(MayStake)' <= Cardinality(MayStake) - 1
      BY <3>5, <3>6, MayStakeIsFinite, FS_Subset
    <3> QED
      BY <1>1, <2>3, <3>7, MayStakeIsFinite
  <2>6. CASE newest # a /\ UNCHANGED <<marks, status>>
    <3>1. Spare' = Spare
      BY <2>6 DEF Spare, FailedAt
    <3> QED
      BY <2>4, <3>1
  <2>7. CASE newest = a /\ StepDone(a, i) /\ status' = IF i = Record THEN "success" ELSE status
    <3>1. status # "failed"
      BY <1>1, <1>3, <2>7 DEF StakeInv, OnlyFailed
    <3>2. Spare' = 0
      BY <2>7, <3>1 DEF Spare
    <3> QED
      BY <2>4, <3>2
  <2> QED
    BY <1>8, <2>4, <2>5, <2>6, <2>7
<1>16. StakeInv'
  BY <1>1, <1>3, <1>7, <1>13, <1>14, <1>15 DEF StakeInv
<1> QED
  BY <1>1, <1>11, <1>12, <1>16 DEF WindowsInv

LEMMA StakeStepsStep ==
  ASSUME WindowsInv, NEW a \in Attempts, EarlyStep(a) \/ PoolStep(a) \/ RecordStep(a)
  PROVE  WindowsInv'
<1>1. CASE EarlyStep(a)
  <2>1. PICK i \in {1, Prepare, Sign} : AtStep(a, i) /\ (StepDone(a, i) \/ (i # 1 /\ StepFails(a, i)))
    BY <1>1 DEF EarlyStep
  <2>2. i \in Steps /\ i # Pool /\ i # Record
    BY <2>1, StepNumbers
  <2> QED
    BY <1>1, <2>1, <2>2, StakeRunStep DEF EarlyStep
<1>2. CASE PoolStep(a)
  <2>1. Pool \in Steps /\ Pool # Record
    BY StepNumbers
  <2>2. StepDone(a, Pool) \/ StepFails(a, Pool)
    BY <1>2 DEF PoolStep
  <2>3. StepDone(a, Pool) => a \in onChain'
    <3>1. StepDone(a, Pool) /\ StepFails(a, Pool) => FALSE
      <4>1. attempt[a] = Pool
        BY <1>2 DEF PoolStep, AtStep
      <4> QED
        BY <4>1, StepNumbers DEF StepDone, StepFails, WindowsInv, RunsTyped
    <3> QED
      BY <1>2, <3>1 DEF PoolStep
  <2> QED
    BY <1>2, <2>1, <2>2, <2>3, StakeRunStep DEF PoolStep
<1>3. CASE RecordStep(a)
  <2>1. Record \in Steps /\ Pool # Record
    BY StepNumbers
  <2>2. StepDone(a, Record) \/ StepFails(a, Record)
    BY <1>3 DEF RecordStep
  <2>3. StepDone(a, Record) => a \in recorded'
    <3>1. StepDone(a, Record) /\ StepFails(a, Record) => FALSE
      BY StepNumbers DEF StepDone, StepFails, WindowsInv, RunsTyped
    <3> QED
      BY <1>3, <3>1 DEF RecordStep, NamesTheRow
  <2>4. recorded' = recorded \/ recorded' = recorded \cup {a}
    BY <1>3 DEF RecordStep, PersistStake
  <2> QED
    BY <1>3, <2>1, <2>2, <2>3, <2>4, StakeRunStep DEF RecordStep
<1> QED
  BY <1>1, <1>2, <1>3

\* The claim window.
LEMMA ClaimFormStep ==
  ASSUME WindowsInv, OpenClaim \/ LeaveClaim \/ Claim
  PROVE  WindowsInv'
<1>1. /\ window = "claim" /\ UNCHANGED <<window, onChain, shows, marks, recorded, convertVars>>
      /\ open' \in BOOLEAN /\ status' \in {"idle", "running", "claiming", "success", "failed"}
      /\ open' /\ status' = "success" => open /\ status = "success" /\ newest' = newest
  <2>1. UNCHANGED <<window, onChain, convertVars>> /\ UNCHANGED <<shows, marks, recorded>>
    BY DEF OpenClaim, LeaveClaim, Claim, stakeVars
  <2>2. CASE OpenClaim
    BY <2>1, <2>2 DEF OpenClaim
  <2>3. CASE LeaveClaim
    BY <2>1, <2>3 DEF LeaveClaim, WindowsInv, ShownTyped
  <2>4. CASE Claim
    BY <2>1, <2>4 DEF Claim, WindowsInv, ShownTyped
  <2> QED
    BY <2>2, <2>3, <2>4
<1>2. UNCHANGED <<converting, preview, lines, sold, crossed>>
  BY <1>1 DEF convertVars
<1>3. /\ attempt' \in [Attempts -> 0 .. Stopped] /\ \E n \in Nat : Started(n)'
      /\ newest' \in Attempts \cup {0}
      /\ \A a \in Attempts : attempt'[a] = attempt[a] \/ attempt'[a] = Prepare
  <2>1. CASE OpenClaim \/ LeaveClaim
    BY <2>1 DEF OpenClaim, LeaveClaim, stakeVars, WindowsInv, RunsTyped, Started
  <2>2. CASE Claim
    <3>1. /\ NewRun \in Attempts /\ newest' = NewRun /\ Prepare \in 1 .. Stopped
          /\ attempt' = [attempt EXCEPT ![NewRun] = Prepare]
      BY <2>2, StepNumbers DEF Claim
    <3> QED
      BY <3>1, NewRunIsNew DEF WindowsInv
  <2> QED
    BY <2>1, <2>2
<1>4. RunsTyped' /\ ShownTyped'
  BY <1>1, <1>2, <1>3 DEF WindowsInv, RunsTyped, ShownTyped
<1>5. LinesInv' /\ OneConversion'
  <2>1. \A a \in Attempts : ~UnderWay(a)'
    BY <1>1 DEF UnderWay
  <2> QED
    BY <1>1, <1>2, <2>1, ConversionsKept DEF WindowsInv, LinesInv
<1>6. ClaimInv'
  BY <1>1, <1>3, StepNumbers DEF WindowsInv, ClaimInv
<1> QED
  BY <1>1, <1>4, <1>5, <1>6 DEF WindowsInv

LEMMA ClaimRunStep ==
  ASSUME WindowsInv, NEW a \in Attempts, ClaimGoesOn(a) \/ ClaimFails(a)
  PROVE  WindowsInv'
<1>1. /\ window = "claim" /\ attempt[a] \in Steps
      /\ UNCHANGED <<window, open, shows, marks, newest, convertVars>>
  BY DEF ClaimGoesOn, ClaimFails, ClaimUnder, stakeVars
<1>2. UNCHANGED <<converting, preview, lines, sold, crossed>>
  BY <1>1 DEF convertVars
<1>3. ClaimInv
  BY <1>1 DEF WindowsInv
<1>4. PICK i \in 1 .. 5 : i = attempt[a]
  BY <1>1 DEF Steps
<1>5. /\ onChain \subseteq onChain' /\ onChain' \subseteq Attempts /\ recorded' \subseteq Attempts
      /\ ClaimGoesOn(a) /\ i = Pool => a \in onChain'
  <2>1. CASE ClaimGoesOn(a)
    <3>1. /\ onChain' \in IF i = Pool THEN {onChain \cup {a}} ELSE {onChain}
          /\ recorded' \in IF i = Record THEN {recorded, recorded \cup {a}} ELSE {recorded}
      BY <1>4, <2>1 DEF ClaimGoesOn
    <3> QED
      BY <3>1 DEF WindowsInv, RunsTyped
  <2>2. CASE ClaimFails(a)
    <3>1. onChain' = onChain \/ onChain' = onChain \cup {a}
      BY <2>2 DEF ClaimFails
    <3>2. recorded' = recorded /\ (ClaimGoesOn(a) /\ i = Pool => a \in onChain')
      <4>1. recorded' = recorded
        BY <2>2 DEF ClaimFails, stakeVars
      <4>2. ClaimGoesOn(a) /\ i = Pool => a \in onChain'
        BY <1>4 DEF ClaimGoesOn
      <4> QED
        BY <4>1, <4>2
    <3> QED
      BY <3>1, <3>2 DEF WindowsInv, RunsTyped
  <2> QED
    BY <2>1, <2>2
<1>6. PICK x \in 1 .. Stopped :
        /\ attempt' = [attempt EXCEPT ![a] = x]
        /\ \/ ClaimGoesOn(a) /\ x = (IF i = Record THEN Finished ELSE i + 1)
           \/ x = Failed
  <2>1. CASE ClaimGoesOn(a)
    <3>1. PICK x \in 1 .. 8 : x = IF i = Record THEN Finished ELSE i + 1
      BY StepNumbers
    <3>2. attempt' = [attempt EXCEPT ![a] = x]
      BY <1>4, <2>1, <3>1 DEF ClaimGoesOn
    <3> QED
      BY <2>1, <3>1, <3>2, StepNumbers
  <2>2. CASE ClaimFails(a)
    BY <2>2, StepNumbers DEF ClaimFails
  <2> QED
    BY <2>1, <2>2
<1>7. /\ attempt'[a] = x /\ \A b \in Attempts \ {a} : attempt'[b] = attempt[b]
      /\ attempt' \in [Attempts -> 0 .. Stopped] /\ \E n \in Nat : Started(n)'
  <2>1. attempt[a] # Unused
    BY <1>4, StepNumbers
  <2> QED
    BY <1>6, <2>1, RunMoves DEF WindowsInv
<1>8. /\ status' \in {"idle", "running", "claiming", "success", "failed"}
      /\ \/ status' # "success" \/ status' = status
         \/ ClaimGoesOn(a) /\ i = Record /\ newest = a
  <2>1. CASE ClaimGoesOn(a)
    <3>1. status' = status \/ (i = Record /\ newest = a /\ status' = "success")
      BY <1>4, <2>1 DEF ClaimGoesOn, Tell
    <3> QED
      BY <2>1, <3>1 DEF WindowsInv, ShownTyped
  <2>2. CASE ClaimFails(a)
    BY <2>2 DEF ClaimFails, Tell, WindowsInv, ShownTyped
  <2> QED
    BY <2>1, <2>2
<1>9. RunsTyped' /\ ShownTyped'
  BY <1>1, <1>2, <1>5, <1>7, <1>8 DEF WindowsInv, RunsTyped, ShownTyped
<1>10. LinesInv' /\ OneConversion'
  <2>1. \A b \in Attempts : ~UnderWay(b)'
    BY <1>1 DEF UnderWay
  <2> QED
    BY <1>1, <1>2, <2>1, ConversionsKept DEF WindowsInv, LinesInv
<1>11. ClaimInv'
  <2>1. \A b \in Attempts : attempt'[b] \in {Record, Finished} => b \in onChain'
    <3>1. i = Record => a \in onChain
      BY <1>3, <1>4 DEF ClaimInv
    <3>2. x \in {Record, Finished} => a \in onChain'
      BY <1>5, <1>6, <3>1, StepNumbers
    <3> QED
      BY <1>3, <1>5, <1>7, <3>2 DEF ClaimInv
  <2>2. open' /\ status' = "success" => newest' \in onChain'
    <3>1. ClaimGoesOn(a) /\ i = Record => a \in onChain
      BY <1>3, <1>4 DEF ClaimInv
    <3> QED
      BY <1>1, <1>3, <1>5, <1>8, <3>1 DEF ClaimInv
  <2> QED
    BY <2>1, <2>2 DEF ClaimInv
<1> QED
  BY <1>1, <1>9, <1>10, <1>11 DEF WindowsInv

\* The convert window: what is shown of runs, and which are under way.
LEMMA ConvertMoves ==
  ASSUME WindowsInv, window = "convert", KeepStake, {open, converting}' \subseteq BOOLEAN,
         preview' \in {"none", "loading", "some", "empty", "failed"}, LinesInv',
         attempt' \in [Attempts -> 0 .. Stopped], \E n \in Nat : Started(n)',
         crossed' \subseteq Attempts, OneConversion'
  PROVE  WindowsInv'
<1>1. UNCHANGED <<window, status, onChain, shows, marks, newest, recorded>>
  BY DEF KeepStake, stakeVars
<1>2. RunsTyped' /\ ShownTyped'
  BY <1>1 DEF WindowsInv, RunsTyped, ShownTyped
<1> QED
  BY <1>1, <1>2 DEF WindowsInv

LEMMA ConvertFormStep ==
  ASSUME WindowsInv, OpenConvert \/ Previewed \/ CloseConvert
  PROVE  WindowsInv'
<1>1. window = "convert" /\ KeepStake /\ UNCHANGED <<attempt, sold, crossed>>
  BY DEF OpenConvert, Previewed, CloseConvert
<1>2. window' = window
  BY <1>1 DEF KeepStake
<1>3. /\ {open, converting}' \subseteq BOOLEAN
      /\ preview' \in {"none", "loading", "some", "empty", "failed"}
      /\ lines' = lines \/ lines' = {}
  <2>1. CASE OpenConvert
    BY <2>1 DEF OpenConvert, WindowsInv, ShownTyped
  <2>2. CASE Previewed
    BY <2>2 DEF Previewed, WindowsInv, ShownTyped
  <2>3. CASE CloseConvert
    BY <2>3 DEF CloseConvert, Closed, WindowsInv, ShownTyped
  <2> QED
    BY <2>1, <2>2, <2>3
<1>4. LinesInv'
  BY <1>1, <1>3 DEF WindowsInv, LinesInv
<1>5. OneConversion'
  <2>1. \A a \in Attempts : UnderWay(a)' => UnderWay(a)
    BY <1>1, <1>2 DEF UnderWay
  <2> QED
    BY <1>1, <1>2, <2>1, ConversionsKept DEF WindowsInv
<1>6. attempt' \in [Attempts -> 0 .. Stopped] /\ (\E n \in Nat : Started(n)') /\ crossed' \subseteq Attempts
  BY <1>1 DEF WindowsInv, RunsTyped, Started
<1> QED
  BY <1>1, <1>3, <1>4, <1>5, <1>6, ConvertMoves

LEMMA ConvertClickStep ==
  ASSUME WindowsInv, Convert
  PROVE  WindowsInv'
<1>1. /\ window = "convert" /\ ~converting /\ NewRun \in Attempts /\ Prepare \in 1 .. Stopped
      /\ attempt' = [attempt EXCEPT ![NewRun] = Prepare] /\ converting' = TRUE /\ lines' = {}
      /\ KeepStake /\ UNCHANGED <<open, sold, preview>>
  BY StepNumbers DEF Convert, MayConvert
<1>2. PICK run \in Attempts : run = NewRun
  BY <1>1
<1>3. /\ \A a \in Attempts \ {run} : attempt'[a] = attempt[a]
      /\ attempt' \in [Attempts -> 0 .. Stopped] /\ \E n \in Nat : Started(n)'
  BY <1>1, <1>2, NewRunIsNew DEF WindowsInv
<1>4. crossed' = crossed \cup (IF \E a \in Attempts : UnderWay(a) THEN {run} ELSE {})
  BY <1>1, <1>2 DEF Convert
<1>5. \A a \in Attempts \ {run} : UnderWay(a)' <=> UnderWay(a)
  BY <1>1, <1>3 DEF UnderWay, KeepStake
<1>6. OneConversion'
  <2> SUFFICES ASSUME NEW a \in Attempts, NEW b \in Attempts, a # b, UnderWay(a)', UnderWay(b)'
               PROVE  {a, b} \cap crossed' # {}
    BY DEF OneConversion
  <2>1. CASE a # run /\ b # run
    <3>1. UnderWay(a) /\ UnderWay(b)
      BY <1>5, <2>1
    <3>2. {a, b} \cap crossed # {}
      BY <3>1 DEF WindowsInv, OneConversion
    <3> QED
      BY <1>4, <3>2
  <2>2. CASE a = run \/ b = run
    <3>1. \E c \in Attempts : UnderWay(c)
      BY <1>5, <2>2
    <3>2. run \in crossed'
      BY <1>4, <3>1
    <3> QED
      BY <2>2, <3>2
  <2> QED
    BY <2>1, <2>2
<1>7. LinesInv'
  BY <1>1 DEF WindowsInv, LinesInv
<1>8. crossed' \subseteq Attempts
  BY <1>4 DEF WindowsInv, RunsTyped
<1>9. /\ {open, converting}' \subseteq BOOLEAN
      /\ preview' \in {"none", "loading", "some", "empty", "failed"}
  BY <1>1 DEF WindowsInv, ShownTyped
<1> QED
  BY <1>1, <1>3, <1>6, <1>7, <1>8, <1>9, ConvertMoves

\* A conversion goes on; its lines change, or all are taken away.
LEMMA ConvertRunStep ==
  ASSUME WindowsInv, NEW a \in Attempts,
         ConvertPrepared(a) \/ ConvertSigned(a) \/ ConvertExecuted(a) \/ ConvertTold(a) \/ ConvertFails(a)
  PROVE  WindowsInv'
<1>1. UnderWay(a) /\ window = "convert" /\ KeepStake /\ crossed' = crossed
  BY DEF ConvertPrepared, ConvertSigned, ConvertExecuted, ConvertTold, ConvertFails, UnderWay
<1>2. window' = window
  BY <1>1 DEF KeepStake
<1>3. PICK x \in 1 .. Stopped : attempt' = [attempt EXCEPT ![a] = x]
  BY StepNumbers DEF ConvertPrepared, ConvertSigned, ConvertExecuted, ConvertTold, ConvertFails, ConvertEnds
<1>4. /\ \A b \in Attempts \ {a} : attempt'[b] = attempt[b]
      /\ attempt' \in [Attempts -> 0 .. Stopped] /\ \E n \in Nat : Started(n)'
  <2>1. attempt[a] # Unused
    BY <1>1, StepNumbers DEF UnderWay
  <2> QED
    BY <1>3, <2>1, RunMoves DEF WindowsInv
<1>5. OneConversion'
  <2>1. \A b \in Attempts : UnderWay(b)' => UnderWay(b)
    BY <1>1, <1>2, <1>4 DEF UnderWay
  <2> QED
    BY <1>1, <1>2, <2>1, ConversionsKept DEF WindowsInv
<1>6. /\ {open, converting}' \subseteq BOOLEAN
      /\ preview' \in {"none", "loading", "some", "empty", "failed"}
  <2>1. {open, converting} \subseteq BOOLEAN /\ preview \in {"none", "loading", "some", "empty", "failed"}
    BY DEF WindowsInv, ShownTyped
  <2>2. CASE ConvertPrepared(a)
    BY <2>1, <2>2 DEF ConvertPrepared
  <2>3. CASE ConvertSigned(a)
    BY <2>1, <2>3 DEF ConvertSigned, ConvertEnds
  <2>4. CASE ConvertExecuted(a)
    BY <2>1, <2>4 DEF ConvertExecuted
  <2>5. CASE ConvertTold(a)
    BY <2>1, <2>5 DEF ConvertTold, Closed
  <2>6. CASE ConvertFails(a)
    BY <2>1, <2>6 DEF ConvertFails, ConvertEnds
  <2> QED
    BY <2>2, <2>3, <2>4, <2>5, <2>6
<1>7. LinesInv'
  <2>0. /\ lines \subseteq Attempts \X Legs \X Reports /\ sold \subseteq Attempts \X Legs
        /\ \A y \in lines : y[3] = "COMPLETED" => <<y[1], y[2]>> \in sold
    BY DEF WindowsInv, LinesInv
  <2>1. CASE ConvertPrepared(a)
    <3>1. lines' = LinesOf(a, "PENDING") /\ sold' = sold
      BY <2>1 DEF ConvertPrepared
    <3> QED
      BY <2>0, <3>1 DEF LinesInv, LinesOf, Reports
  <2>2. CASE ConvertSigned(a)
    <3>1. sold' = sold /\ (lines' = {} \/ Update(a, "BROADCASTING"))
      BY <2>2 DEF ConvertSigned
    <3>2. CASE lines' = {}
      BY <2>0, <3>1, <3>2 DEF LinesInv
    <3>3. CASE Update(a, "BROADCASTING")
      <4>1. \A y \in lines' :
               \/ y \in lines
               \/ \E z \in lines : z[1] = a /\ y = <<a, z[2], "BROADCASTING">>
        BY <3>3 DEF Update
      <4>2. ASSUME NEW y \in lines'
            PROVE  y \in Attempts \X Legs \X Reports /\ (y[3] = "COMPLETED" => <<y[1], y[2]>> \in sold)
        <5>1. CASE y \in lines
          BY <2>0, <5>1
        <5>2. CASE \E z \in lines : z[1] = a /\ y = <<a, z[2], "BROADCASTING">>
          <6>1. PICK l \in Legs : y = <<a, l, "BROADCASTING">>
            BY <2>0, <5>2
          <6> QED
            BY <6>1 DEF Reports
        <5> QED
          BY <4>1, <5>1, <5>2
      <4> QED
        BY <2>0, <3>1, <4>2 DEF LinesInv
    <3> QED
      BY <3>1, <3>2, <3>3
  <2>3. CASE ConvertExecuted(a)
    <3>1. PICK done \in SUBSET Legs :
            /\ sold' = sold \cup {<<a, l>> : l \in done}
            /\ lines' = {IF y[1] = a
                         THEN <<a, y[2], IF y[2] \in done THEN "COMPLETED" ELSE "FAILED">>
                         ELSE y : y \in lines}
      BY <2>3 DEF ConvertExecuted
    <3>2. sold \subseteq sold' /\ sold' \subseteq Attempts \X Legs /\ \A l \in done : <<a, l>> \in sold'
      BY <2>0, <3>1
    <3>3. \A y \in lines' :
             \/ y \in lines
             \/ \E z \in lines : /\ z[1] = a
                                 /\ \/ z[2] \in done /\ y = <<a, z[2], "COMPLETED">>
                                    \/ y = <<a, z[2], "FAILED">>
      BY <3>1
    <3>4. ASSUME NEW y \in lines'
          PROVE  y \in Attempts \X Legs \X Reports /\ (y[3] = "COMPLETED" => <<y[1], y[2]>> \in sold')
      <4>1. CASE y \in lines
        BY <2>0, <3>2, <4>1
      <4>2. CASE \E l \in Legs : y = <<a, l, "FAILED">>
        BY <4>2 DEF Reports
      <4>3. CASE \E l \in done : y = <<a, l, "COMPLETED">>
        BY <3>2, <4>3 DEF Reports
      <4> QED
        BY <2>0, <3>3, <4>1, <4>2, <4>3
    <3> QED
      BY <3>2, <3>4 DEF LinesInv
  <2>4. CASE ConvertTold(a)
    <3>1. sold' = sold /\ (lines' = {} \/ lines' = lines)
      BY <2>4 DEF ConvertTold, Closed
    <3> QED
      BY <2>0, <3>1 DEF LinesInv
  <2>5. CASE ConvertFails(a)
    <3>1. PICK done \in SUBSET Legs : sold' = sold \cup {<<a, l>> : l \in done} /\ lines' = lines
      BY <2>5 DEF ConvertFails
    <3>2. sold \subseteq sold' /\ sold' \subseteq Attempts \X Legs
      BY <2>0, <3>1
    <3> QED
      BY <2>0, <3>1, <3>2 DEF LinesInv
  <2> QED
    BY <2>1, <2>2, <2>3, <2>4, <2>5
<1>8. crossed' \subseteq Attempts
  BY <1>1 DEF WindowsInv, RunsTyped
<1> QED
  BY <1>1, <1>4, <1>5, <1>6, <1>7, <1>8, ConvertMoves

LEMMA WindowsStep == WindowsInv /\ [WindowsNext]_windowVars => WindowsInv'
<1>1. ASSUME WindowsInv, UNCHANGED windowVars PROVE WindowsInv'
  <2>1. UNCHANGED <<window, open, status, attempt, onChain, shows, typed, marks, newest, recorded,
                    confirms, repeats, preview, converting, lines, sold, crossed>>
    BY <1>1 DEF windowVars, stakeVars, convertVars
  <2>2. RunsTyped' /\ ShownTyped' /\ LinesInv'
    BY <1>1, <2>1 DEF WindowsInv, RunsTyped, ShownTyped, LinesInv, Started
  <2>3. OneConversion'
    BY <1>1, <2>1 DEF WindowsInv, OneConversion, UnderWay
  <2>4. StakeInv => StakeInv'
    BY <2>1 DEF StakeInv, OnlyFailed, MayStake, Spare, FailedAt
  <2>5. ClaimInv => ClaimInv'
    BY <2>1 DEF ClaimInv
  <2> QED
    BY <1>1, <2>1, <2>2, <2>3, <2>4, <2>5 DEF WindowsInv
<1>2. ASSUME WindowsInv, StoresChange \/ OpenStake \/ LeaveStake \/ ApplyRatio \/ Type PROVE WindowsInv'
  BY <1>2, StakeFormStep
<1>3. ASSUME WindowsInv, Confirm \/ Retry PROVE WindowsInv'
  BY <1>3, ProcessingStep
<1>4. ASSUME WindowsInv, OpenClaim \/ LeaveClaim \/ Claim PROVE WindowsInv'
  BY <1>4, ClaimFormStep
<1>5. ASSUME WindowsInv, OpenConvert \/ Previewed \/ CloseConvert \/ Convert PROVE WindowsInv'
  BY <1>5, ConvertFormStep, ConvertClickStep
<1>6. ASSUME WindowsInv, NEW a \in Attempts, EarlyStep(a) \/ PoolStep(a) \/ RecordStep(a) PROVE WindowsInv'
  BY <1>6, StakeStepsStep
<1>7. ASSUME WindowsInv, NEW a \in Attempts, ClaimGoesOn(a) \/ ClaimFails(a) PROVE WindowsInv'
  BY <1>7, ClaimRunStep
<1>8. ASSUME WindowsInv, NEW a \in Attempts,
             \/ ConvertPrepared(a) \/ ConvertSigned(a) \/ ConvertExecuted(a) \/ ConvertTold(a)
             \/ ConvertFails(a)
      PROVE  WindowsInv'
  BY <1>8, ConvertRunStep
<1> QED
  BY <1>1, <1>2, <1>3, <1>4, <1>5, <1>6, <1>7, <1>8 DEF WindowsNext

LEMMA WindowsInvariance == WindowsInit /\ [][WindowsNext]_windowVars => []WindowsInv
  BY InitWindowsInv, WindowsStep, PTL

LEMMA WindowsInvKeeps ==
  WindowsInv => WindowsTypeOK /\ ToldIsTrue /\ StakesAreConfirmed /\ OneConversion /\ RatioIsWithinLimits
<1> SUFFICES ASSUME WindowsInv
             PROVE  WindowsTypeOK /\ ToldIsTrue /\ StakesAreConfirmed /\ OneConversion /\ RatioIsWithinLimits
  OBVIOUS
<1>1. WindowsTypeOK
  BY DEF WindowsInv, RunsTyped, ShownTyped, LinesInv, WindowsTypeOK
<1>2. ToldIsTrue
  BY DEF WindowsInv, LinesInv, StakeInv, ClaimInv, ToldIsTrue
<1>3. StakesAreConfirmed
  <2> SUFFICES ASSUME window = "stake" PROVE Cardinality(onChain) <= confirms + repeats
    BY DEF StakesAreConfirmed
  <2>1. onChain \subseteq MayStake
    BY DEF MayStake, WindowsInv, RunsTyped
  <2>2. Cardinality(onChain) <= Cardinality(MayStake) /\ Cardinality(onChain) \in Nat
    BY <2>1, MayStakeIsFinite, FS_Subset, FS_CardinalityType
  <2>3. /\ Cardinality(MayStake) + Spare <= confirms + repeats /\ confirms \in Nat /\ repeats \in Nat
        /\ Spare \in {0, 1}
    BY DEF WindowsInv, StakeInv, Spare
  <2> QED
    BY <2>2, <2>3, MayStakeIsFinite
<1>4. RatioIsWithinLimits
  BY RatioFits DEF WindowsInv, ShownTyped, RatioIsWithinLimits
<1> QED
  BY <1>1, <1>2, <1>3, <1>4 DEF WindowsInv

-----------------------------------------------------------------------------
(* The whole.                                                                *)

WebVars == <<part, trackerVars, portfolioVars, windowVars, feedVars, newsVars, docsVars, tokensVars,
             cookieVars>>

\* What runs does what its part does, the others rest.
LEMMA WebParts ==
  WebSpec =>
    /\ TrackerInit /\ [][TrackerNext]_trackerVars
    /\ PortfolioInit /\ [][PortfolioNext]_portfolioVars
    /\ WindowsInit /\ [][WindowsNext]_windowVars
    /\ FeedInit /\ [][FeedNext]_feedVars
    /\ NewsInit /\ [][NewsNext]_newsVars
    /\ DocsInit /\ [][DocsNext]_docsVars
    /\ TokensInit /\ [][TokensNext]_tokensVars
    /\ CookiesInit /\ [][CookiesNext]_cookieVars
<1>1. WebInit => /\ TrackerInit /\ PortfolioInit /\ WindowsInit /\ FeedInit
                 /\ NewsInit /\ DocsInit /\ TokensInit /\ CookiesInit
  BY DEF WebInit
<1>2. [WebNext]_WebVars =>
        /\ [TrackerNext]_trackerVars /\ [PortfolioNext]_portfolioVars
        /\ [WindowsNext]_windowVars /\ [FeedNext]_feedVars
        /\ [NewsNext]_newsVars /\ [DocsNext]_docsVars
        /\ [TokensNext]_tokensVars /\ [CookiesNext]_cookieVars
  BY DEF WebNext, WebVars, TrackerPart, PortfolioPart, WindowsPart, FeedPart, NewsPart, DocsPart,
         TokensPart, CookiesPart
<1>3. WebSpec => WebInit /\ [][WebNext]_WebVars
  BY PTL DEF WebSpec, WebVars
<1> QED
  BY <1>1, <1>2, <1>3, PTL

\* What administrators publish stays whole, however many of them write at once: the sections
\* of a page are of one save, pages are in categories there are, SOL has no mint, and an
\* answered token an icon that is there (docs.service.ts, market.service.ts).
THEOREM ContentStands == WebSpec => []ContentIsWhole
<1>1. TokensInv /\ DocsInv => ContentIsWhole
  BY TokensInvKeeps, DocsInvKeeps DEF ContentIsWhole
<1> QED
  BY <1>1, WebParts, TokensInvariance, DocsInvariance, PTL

\* The counts of an item are the votes stored, a feed marks its reader's vote and a browser is
\* one reader, for any number of readers, feeds, items and votes at once (news.service.ts,
\* NewsFeed.tsx, news-client.ts).
THEOREM VotesStand == WebSpec => []VotesAreCounted
<1>1. NewsInv /\ ReaderInv => VotesAreCounted
  BY NewsInvKeeps, ReaderInvKeeps DEF VotesAreCounted
<1> QED
  BY <1>1, WebParts, NewsInvariance, ReaderInvariance, PTL

\* The windows tell what happened, stake no more than was confirmed, convert once and fill in
\* amounts within their limits, for any number of runs and any balance, price and limit
\* (StakeModal.tsx, ClaimModal.tsx, ConvertModal.tsx).
THEOREM WindowsTellTheTruth == WebSpec => []WindowsAreTrue
<1>1. WindowsInv => WindowsAreTrue
  BY WindowsInvKeeps DEF WindowsAreTrue
<1> QED
  BY <1>1, WebParts, WindowsInvariance, PTL

\* A tab follows its wallet, for any number of accounts, sessions and runs at once: its
\* presence session is of the wallet connected and no other stays open, its amounts are of
\* the wallet signed in, what loads is loading, and its token stays until it ends or the
\* wallet is barred (UserSessionTracker.tsx, use-user-data.ts, middleware.ts).
THEOREM TabStands == WebSpec => []TabFollowsItsWallet
<1>1. TrackerInv /\ PortfolioInv /\ TokenInv => TabFollowsItsWallet
  BY TrackerInvKeeps, PortfolioInvKeeps, TokenInvKeeps DEF TabFollowsItsWallet
<1> QED
  BY <1>1, WebParts, TrackerInvariance, PortfolioInvariance, TokenInvariance, PTL

\* The feed shows no row twice, and none is lost between a page, its polls and its cursor,
\* for any number of rows and of answers under way, and pages of any size
\* (users.service.ts, listExplorerFeed; ExplorerOverview.tsx).
THEOREM FeedIsTrue == WebSpec => []FeedStands
<1>1. FeedInv => FeedStands
  BY FeedInvKeeps DEF FeedStands
<1> QED
  BY <1>1, WebParts, FeedInvariance, PTL

\* Every variable of what visitors see and administrators publish keeps its shape.
THEOREM WebTyped == WebSpec => []WebTypeOK
<1>1. /\ TrackerInv /\ PortfolioInv /\ WindowsInv /\ FeedInv /\ NewsInv /\ DocsInv /\ TokensInv
      /\ TokenInv
      => WebTypeOK
  BY TrackerInvKeeps, PortfolioInvKeeps, WindowsInvKeeps, FeedInvKeeps, NewsInvKeeps, DocsInvKeeps,
     TokensInvKeeps, TokenInvKeeps DEF WebTypeOK
<1> QED
  BY <1>1, WebParts, TrackerInvariance, PortfolioInvariance, WindowsInvariance, FeedInvariance,
     NewsInvariance, DocsInvariance, TokensInvariance, TokenInvariance, PTL
=============================================================================
