----------------------------- MODULE MarketTokens -----------------------------
(***************************************************************************)
(* The listed tokens of market.service.ts: creating, editing and deleting  *)
(* them, where a check and the write that relies on it are two statements, *)
(* and the icons uploaded by an earlier version, which are copied to the   *)
(* directory of today when the service starts and before any token is      *)
(* answered.  A mint is none, the one of wrapped SOL or another.           *)
(***************************************************************************)
EXTENDS Naturals, FiniteSets

CONSTANTS
    Coins,            \* rows of tokens
    Tickers, Sol, NoTicker,
    Editors,          \* requests of administrators under way at once
    Icons,            \* files in the directory of the earlier version
    MaxTokenEdits
ASSUME TokensAssumption ==
    /\ Sol \in Tickers /\ NoTicker \notin Tickers /\ MaxTokenEdits \in Nat

VARIABLES
    tokens,           \* the row of each token, NoTicker when it does not exist
    edit,             \* requests under way
    tokensRaced,      \* history: two requests on one token overlapped
    legacyFiles,      \* files of the earlier version still to be looked at
    copied,           \* files in today's directory
    unreadable,       \* history: files that could not be copied
    onList,           \* whether a list of tokens has been answered
    tokenEdits

tokensVars == <<tokens, edit, tokensRaced, legacyFiles, copied, unreadable, onList, tokenEdits>>
uploadVars == <<legacyFiles, copied, unreadable, onList>>

MintInputs == {"missing", "empty", "wrapped", "other", "malformed"}
NoCoin == [ticker |-> NoTicker, mint |-> "none"]
NoEdit == [op |-> "none", of |-> {}, ticker |-> NoTicker, mint |-> "kept"]

TokensInit ==
    /\ tokens = [c \in Coins |-> NoCoin] /\ edit = [e \in Editors |-> NoEdit]
    /\ tokensRaced = FALSE
    /\ legacyFiles = Icons /\ copied \in SUBSET Icons /\ unreadable = {} /\ onList = FALSE
    /\ tokenEdits = 0

IsListed(c) == tokens[c].ticker # NoTicker
NamedBy(c) == {e \in Editors : c \in edit[e].of}
TickerFree(c, t) == \A d \in Coins \ {c} : tokens[d].ticker # t
EditAsked(e, r) ==
    /\ edit[e] = NoEdit /\ tokenEdits < MaxTokenEdits /\ tokenEdits' = tokenEdits + 1
    /\ edit' = [edit EXCEPT ![e] = r]
    /\ tokensRaced' = (tokensRaced \/ \E c \in r.of : NamedBy(c) # {})
    /\ UNCHANGED <<tokens, uploadVars>>

-----------------------------------------------------------------------------
(* Tokens.                                                                  *)

\* normalizeMintAddressForPersist: SOL has no mint of its own, and what is not an address
\* is refused.
Persistable(t, input) ==
    IF t = Sol THEN input \in {"missing", "empty", "wrapped"} ELSE input # "malformed"
Persisted(t, input) == IF t = Sol \/ input \in {"missing", "empty"} THEN "none" ELSE input

\* createToken: no token has the ticker; the rows of this model have identifiers of their own.
CheckCreate(e, c, t, input) ==
    /\ ~IsListed(c) /\ NamedBy(c) = {} /\ TickerFree(c, t) /\ Persistable(t, input)
    /\ EditAsked(e, [op |-> "create", of |-> {c}, ticker |-> t, mint |-> Persisted(t, input)])

\* Mutant: the mint is judged by the ticker the token had.
JudgedByOld(c, t) == tokens[c].ticker
\* effectiveTicker: the one the token will have.
JudgedBy(c, t) == IF t = NoTicker THEN tokens[c].ticker ELSE t
\* updateToken: the ticker may be missing, or is free or the one it has.
CheckUpdate(e, c, t, input) ==
    /\ IsListed(c) /\ (t = NoTicker \/ TickerFree(c, t))
    /\ LET by == JudgedBy(c, t) IN
       /\ by = Sol \/ input = "missing" \/ Persistable(by, input)
       /\ EditAsked(e, [op |-> "update", of |-> {c}, ticker |-> t,
                       mint |-> IF by = Sol THEN "none"
                                ELSE IF input = "missing" THEN "kept" ELSE Persisted(by, input)])
CheckDelete(e, c) ==
    /\ IsListed(c) /\ EditAsked(e, [op |-> "delete", of |-> {c}, ticker |-> NoTicker, mint |-> "kept"])

\* The statement, which the database refuses for a ticker taken or a row gone by now.
WriteToken(e) ==
    /\ edit[e].op # "none" /\ edit' = [edit EXCEPT ![e] = NoEdit]
    /\ LET c == CHOOSE d \in Coins : d \in edit[e].of
           t == edit[e].ticker IN
       IF \/ edit[e].op # "create" /\ ~IsListed(c)
          \/ t # NoTicker /\ ~TickerFree(c, t)
       THEN tokens' = tokens
       ELSE tokens' = [tokens EXCEPT ![c] =
              IF edit[e].op = "delete" THEN NoCoin
              ELSE [ticker |-> IF t = NoTicker THEN @.ticker ELSE t,
                    mint |-> IF edit[e].mint = "kept" THEN @.mint ELSE edit[e].mint]]
    /\ UNCHANGED <<tokensRaced, uploadVars, tokenEdits>>

-----------------------------------------------------------------------------
(* Uploads of the earlier version: ensureTokenUploadCompatibility.          *)

\* A file that is already there stays, another is copied or, with a warning, is not.
CopyIcon(i) ==
    /\ i \in legacyFiles /\ legacyFiles' = legacyFiles \ {i}
    /\ \/ copied' = copied \cup {i} /\ unreadable' = unreadable
       \/ i \notin copied /\ copied' = copied /\ unreadable' = unreadable \cup {i}
    /\ UNCHANGED <<tokens, edit, tokensRaced, onList, tokenEdits>>
\* Mutant: tokens are answered while files are being copied.
UploadsReadyAlways == TRUE
UploadsReady == legacyFiles = {}
\* getActiveTokens, getAllTokensAdmin, getTokenAdmin: the paths of the icons are rewritten
\* to today's directory.
ListTokens ==
    /\ UploadsReady /\ onList' = TRUE
    /\ UNCHANGED <<tokens, edit, tokensRaced, legacyFiles, copied, unreadable, tokenEdits>>

TokensNext ==
    \/ ListTokens \/ \E i \in Icons : CopyIcon(i)
    \/ \E e \in Editors : \/ WriteToken(e)
                          \/ \E c \in Coins : CheckDelete(e, c)
                          \/ \E c \in Coins, t \in Tickers, input \in MintInputs : CheckCreate(e, c, t, input)
                          \/ \E c \in Coins, t \in Tickers \cup {NoTicker}, input \in MintInputs :
                               CheckUpdate(e, c, t, input)
TokensSpec == TokensInit /\ [][TokensNext]_tokensVars

-----------------------------------------------------------------------------
\* A type invariant.
TokensTypeOK ==
    /\ tokens \in [Coins -> [ticker : Tickers \cup {NoTicker}, mint : {"none", "wrapped", "other"}]]
    /\ \A e \in Editors : edit[e].op \in {"none", "create", "update", "delete"}
    /\ copied \cup unreadable \subseteq Icons /\ tokenEdits \in 0 .. MaxTokenEdits

\* The token SOL stores no mint, whatever was renamed to it or edited, as long as two
\* requests on one token do not overlap: the price is then looked up by wrapped SOL.
SolHasNoMint ==
    ~tokensRaced => \A c \in Coins : tokens[c].ticker = Sol => tokens[c].mint = "none"

\* A token that is answered names an icon that is there, unless it could not be copied.
IconsAreServed == onList => copied \cup unreadable = Icons
=============================================================================
