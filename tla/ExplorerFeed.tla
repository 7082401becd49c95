------------------------------ MODULE ExplorerFeed -----------------------------
(***************************************************************************)
(* The feed of everyone's activities: rows of WalletUserActivity, listed   *)
(* by listExplorerFeed newest first and page by page, and the Explorer     *)
(* page, which loads the first page, polls it, and loads more behind its   *)
(* cursor, for the filter that is set.  Rows are numbered in the order of  *)
(* their createdAt; a row may be stored after rows that are newer.         *)
(***************************************************************************)
EXTENDS Naturals, FiniteSets, Sequences, SequencesExt

CONSTANTS
    MaxActivities,
    KindOf,          \* the type of each row
    PageSize,        \* EXPLORER_PAGE_SIZE
    Fetches,         \* requests under way at once
    MaxAsks          \* requests and changes of the filter
ASSUME FeedAssumption ==
    /\ MaxActivities \in Nat /\ PageSize \in Nat \ {0} /\ MaxAsks \in Nat
    /\ KindOf \in [1 .. MaxActivities -> {"STAKE", "CONVERT"}]

VARIABLES
    timed, storedRows,   \* rows given their time, and rows stored
    filter,
    listed,              \* items on the page
    itemsRef, cursorRef, \* and what the next landing works from
    moreShown,           \* nextCursor: whether more is offered
    loading,             \* the requests of the page
    tangled,             \* history: an answer met a page it was not asked for
    asks

feedVars == <<timed, storedRows, filter, listed, itemsRef, cursorRef, moreShown, loading, tangled, asks>>
pageVars == <<listed, itemsRef, cursorRef, moreShown>>

Filters == {"ALL", "CONVERT"}
NoLoad == [mode |-> "none", filter |-> "ALL", cursor |-> 0, state |-> "asked", items |-> <<>>, next |-> 0]
Underway(mode) == {f \in Fetches : loading[f].mode = mode}

FeedInit ==
    /\ timed = 0 /\ storedRows = {} /\ filter = "ALL"
    /\ listed = <<>> /\ itemsRef = <<>> /\ cursorRef = 0 /\ moreShown = FALSE
    /\ \E f \in Fetches :
         loading = [g \in Fetches |-> IF g = f THEN [NoLoad EXCEPT !.mode = "initial"] ELSE NoLoad]
    /\ tangled = FALSE /\ asks = 0

-----------------------------------------------------------------------------
(* The service.                                                             *)

\* A call takes the time of its row,
Stamp ==
    /\ timed < MaxActivities /\ timed' = timed + 1
    /\ UNCHANGED <<storedRows, filter, pageVars, loading, tangled, asks>>
\* and stores it, perhaps after calls that took theirs later: the row of a stake has the
\* time at which it was prepared.
CreateRecord(r) ==
    /\ r \in 1 .. timed \ storedRows
    /\ storedRows' = storedRows \cup {r} /\ tangled' = (tangled \/ \E s \in storedRows : s > r)
    /\ UNCHANGED <<timed, filter, pageVars, loading, asks>>

Matches(r, by) == by = "ALL" \/ KindOf[r] = by
\* Numbers in increasing order.
Ordered(S) ==
    CHOOSE s \in [1 .. Cardinality(S) -> S] : \A i, j \in DOMAIN s : i < j => s[i] < s[j]
\* Mutant: the row after the page is taken for the cursor, and is skipped.
CursorBeyond(rows) == IF Len(rows) > PageSize THEN rows[PageSize + 1] ELSE 0
\* The last row of a page that is not the last; no cursor else.
Cursor(rows) == IF Len(rows) > PageSize THEN rows[PageSize] ELSE 0
ListFeed(f) ==
    LET q == loading[f]
        rows == Reverse(Ordered({r \in storedRows :
                                   Matches(r, q.filter) /\ (q.cursor = 0 \/ r < q.cursor)})) IN
    /\ q.mode # "none" /\ q.state = "asked"
    /\ loading' = [loading EXCEPT ![f] = [@ EXCEPT !.state = "answered",
                     !.items = SubSeq(rows, 1, IF Len(rows) > PageSize THEN PageSize ELSE Len(rows)),
                     !.next = Cursor(rows)]]
    /\ UNCHANGED <<timed, storedRows, filter, pageVars, tangled, asks>>
FetchFails(f) ==
    /\ loading[f].mode # "none" /\ loading[f].state = "asked"
    /\ loading' = [loading EXCEPT ![f].state = "failed"]
    /\ UNCHANGED <<timed, storedRows, filter, pageVars, tangled, asks>>

-----------------------------------------------------------------------------
(* The page asks.                                                           *)

Asks(f, mode, by, cursor) ==
    /\ loading[f].mode = "none" /\ asks < MaxAsks /\ asks' = asks + 1
    /\ loading' = [loading EXCEPT ![f] = [NoLoad EXCEPT !.mode = mode, !.filter = by, !.cursor = cursor]]
\* Another filter, or a search: its first page is asked for at once; the rows stay meanwhile.
ChangeFilter(f, by) ==
    /\ by # filter /\ filter' = by /\ Asks(f, "initial", by, 0)
    /\ UNCHANGED <<timed, storedRows, pageVars, tangled>>
Poll(f) ==
    /\ Asks(f, "poll", filter, 0)
    /\ UNCHANGED <<timed, storedRows, filter, pageVars, tangled>>
\* One at a time.
LoadMore(f) ==
    /\ Underway("more") = {} /\ moreShown /\ cursorRef # 0
    /\ Asks(f, "more", filter, cursorRef)
    /\ UNCHANGED <<timed, storedRows, filter, pageVars, tangled>>

-----------------------------------------------------------------------------
(* Answers land: nothing tells an answer of another filter, or of a list    *)
(* that has changed since, from one that fits.                              *)

Landed(f) == loading' = [loading EXCEPT ![f] = NoLoad]
\* The rows of a list that are not in another.
Without(rows, seen) ==
    LET kept == Ordered({i \in DOMAIN rows : rows[i] \notin ToSet(seen)}) IN
    [n \in DOMAIN kept |-> rows[kept[n]]]
\* A first page that fails empties what is shown and nothing else.
LandNothing(f) ==
    /\ loading[f].state = "failed" /\ Landed(f)
    /\ IF loading[f].mode = "initial"
       THEN listed' = <<>> /\ moreShown' = FALSE /\ tangled' = TRUE
       ELSE UNCHANGED <<listed, moreShown, tangled>>
    /\ UNCHANGED <<timed, storedRows, filter, itemsRef, cursorRef, asks>>
\* A poll of a list longer than a page is put before it, cut to its length.
Merges(q) == q.mode = "poll" /\ Len(itemsRef) > PageSize
Overtaken(q) == \E r \in ToSet(itemsRef), s \in ToSet(q.items) : r > s /\ r \notin ToSet(q.items)
LandPoll(f) ==
    LET q == loading[f]
        fresh == q.items \o Without(itemsRef, q.items)
        cut == SubSeq(fresh, 1, Len(itemsRef)) IN
    /\ q.state = "answered" /\ Merges(q) /\ Landed(f)
    /\ listed' = cut /\ itemsRef' = cut
    /\ tangled' = (tangled \/ q.filter # filter \/ Len(fresh) > Len(cut) \/ Overtaken(q))
    /\ UNCHANGED <<timed, storedRows, filter, cursorRef, moreShown, asks>>
\* Any other first page replaces the list.
LandFirst(f) ==
    LET q == loading[f] IN
    /\ q.state = "answered" /\ q.mode \in {"initial", "poll"} /\ ~Merges(q) /\ Landed(f)
    /\ listed' = q.items /\ itemsRef' = q.items
    /\ cursorRef' = q.next /\ moreShown' = (q.next # 0)
    /\ tangled' = (tangled \/ q.filter # filter)
    /\ UNCHANGED <<timed, storedRows, filter, asks>>
\* Mutant: a row that is there already is appended again.
AppendAll(rows) == itemsRef \o rows
AppendNew(rows) == itemsRef \o Without(rows, itemsRef)
LandMore(f) ==
    LET q == loading[f] IN
    /\ q.state = "answered" /\ q.mode = "more" /\ Landed(f)
    /\ listed' = AppendNew(q.items) /\ itemsRef' = listed'
    /\ cursorRef' = q.next /\ moreShown' = (q.next # 0)
    /\ tangled' = (tangled \/ q.filter # filter \/ q.cursor # cursorRef)
    /\ UNCHANGED <<timed, storedRows, filter, asks>>

FeedNext ==
    \/ Stamp \/ \E r \in 1 .. MaxActivities : CreateRecord(r)
    \/ \E f \in Fetches :
         \/ ListFeed(f) \/ FetchFails(f) \/ \E by \in Filters : ChangeFilter(f, by)
         \/ Poll(f) \/ LoadMore(f)
         \/ LandNothing(f) \/ LandPoll(f) \/ LandFirst(f) \/ LandMore(f)
FeedSpec == FeedInit /\ [][FeedNext]_feedVars

-----------------------------------------------------------------------------
\* A type invariant.
FeedTypeOK ==
    /\ storedRows \subseteq 1 .. timed /\ filter \in Filters
    /\ ToSet(listed) \subseteq storedRows /\ ToSet(itemsRef) \subseteq storedRows
    /\ cursorRef \in 0 .. MaxActivities /\ {moreShown, tangled} \subseteq BOOLEAN
    /\ \A f \in Fetches : loading[f].state \in {"asked", "answered", "failed"}

\* No row is on the page twice, whatever answers overtake one another.
NoRowTwice == IsInjective(listed)

\* Unless an answer met a list it was not asked for, a poll pushed rows off the end, or a
\* row was stored behind newer ones: the rows on the page stand newest first, they fit the
\* filter once its first page is there, and a stored row that fits is on the page, newer
\* than all of it, or behind the cursor.
FeedIsWhole ==
    ~tangled /\ Underway("initial") = {} =>
      /\ \A i, j \in DOMAIN listed : i < j => listed[i] > listed[j]
      /\ \A r \in ToSet(listed) : Matches(r, filter)
      /\ listed # <<>> => \A r \in storedRows :
           Matches(r, filter) => r \in ToSet(listed) \/ r > listed[1] \/ r < cursorRef
=============================================================================
