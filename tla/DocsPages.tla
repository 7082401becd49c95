------------------------------- MODULE DocsPages -------------------------------
(***************************************************************************)
(* docs.service.ts: categories of documentation, their pages and the       *)
(* sections of a page, edited by several administrators at once.  A check  *)
(* and the write that relies on it are separate statements; saving the     *)
(* sections of a page is one READ COMMITTED transaction, whose statements  *)
(* each see what is committed when they begin.  A section is known by the  *)
(* number of the save that wrote it.                                       *)
(***************************************************************************)
EXTENDS Naturals, FiniteSets

CONSTANTS
    Categories, NoCategory,
    Titles, NoTitle,     \* titles of categories, without regard to case
    Pages,
    Slugs, NoSlug,
    Writers,             \* requests of administrators under way at once
    MaxWrites
ASSUME DocsAssumption ==
    /\ NoCategory \notin Categories /\ NoTitle \notin Titles /\ NoSlug \notin Slugs
    /\ MaxWrites \in Nat

VARIABLES
    title,         \* the title of each category, NoTitle when it does not exist
    filed,         \* the category of each page, NoCategory when it does not exist
    slug,          \* its slug, which the database keeps unique
    sections,      \* the saves whose sections each page has
    held,          \* rows of pages locked by a transaction
    writer,        \* requests under way
    titlesRaced,   \* history: two requests checked one title at once
    bareRaced,     \* history: a save of nothing but sections overlapped another
    writes

docsVars == <<title, filed, slug, sections, held, writer, titlesRaced, bareRaced, writes>>
rowVars == <<title, filed, slug, sections, held>>

NoWrite == [op |-> "none", of |-> {}, title |-> NoTitle, slug |-> NoSlug, into |-> NoCategory,
            bare |-> FALSE, save |-> 0, seen |-> {}]

DocsInit ==
    /\ title = [c \in Categories |-> NoTitle] /\ filed = [p \in Pages |-> NoCategory]
    /\ slug = [p \in Pages |-> NoSlug] /\ sections = [p \in Pages |-> {}] /\ held = {}
    /\ writer = [w \in Writers |-> NoWrite] /\ titlesRaced = FALSE /\ bareRaced = FALSE
    /\ writes = 0

\* Identifiers are never used twice: a new row has one that no request names.
UnusedPage(id) == \A w \in Writers : id \notin writer[w].of
Goes(w, to) == writer' = [writer EXCEPT ![w] = to]
Ends(w) == Goes(w, NoWrite)
\* A request arrives; it passes its checks or ends here.
Arrives(w, to) ==
    /\ writer[w] = NoWrite /\ writes < MaxWrites /\ writes' = writes + 1
    /\ Goes(w, [to EXCEPT !.save = writes + 1])
Listed(c) == c # NoCategory /\ title[c] # NoTitle
PageExists(p) == filed[p] # NoCategory

-----------------------------------------------------------------------------
(* Categories.                                                              *)

\* Mutant: a category may take a title another has.
TitleFreeAlways(c, x) == TRUE
\* createCategory, updateCategory: no other category has the title.
TitleFree(c, x) == \A d \in Categories \ {c} : title[d] # x
CheckTitle(w, c, x) ==
    /\ TitleFree(c, x) /\ (Listed(c) \/ UnusedPage(c))
    /\ Arrives(w, [NoWrite EXCEPT !.op = IF Listed(c) THEN "retitle" ELSE "title",
                                  !.of = {c}, !.title = x])
    /\ titlesRaced' = (titlesRaced \/ \E v \in Writers : writer[v].title = x)
    /\ UNCHANGED <<rowVars, bareRaced>>
WriteTitle(w) ==
    /\ writer[w].op \in {"title", "retitle"} /\ Ends(w)
    /\ title' = [c \in Categories |-> IF c \in writer[w].of /\ (Listed(c) \/ writer[w].op = "title")
                                      THEN writer[w].title ELSE title[c]]
    /\ UNCHANGED <<filed, slug, sections, held, titlesRaced, bareRaced, writes>>
\* removeCategory: its pages and their sections go with it.
RemoveCategory(c) ==
    /\ Listed(c) /\ \A p \in held : filed[p] # c
    /\ title' = [title EXCEPT ![c] = NoTitle]
    /\ filed' = [p \in Pages |-> IF filed[p] = c THEN NoCategory ELSE filed[p]]
    /\ slug' = [p \in Pages |-> IF filed[p] = c THEN NoSlug ELSE slug[p]]
    /\ sections' = [p \in Pages |-> IF filed[p] = c THEN {} ELSE sections[p]]
    /\ UNCHANGED <<held, writer, titlesRaced, bareRaced, writes>>

-----------------------------------------------------------------------------
(* Pages.                                                                   *)

SlugFree(p, x) == \A q \in Pages \ {p} : slug[q] # x
\* createPage: the category exists and no page has the slug.
CheckPage(w, p, c, x) ==
    /\ ~PageExists(p) /\ Listed(c) /\ SlugFree(p, x)
    /\ UnusedPage(p)
    /\ Arrives(w, [NoWrite EXCEPT !.op = "page", !.of = {p}, !.into = c, !.slug = x])
    /\ UNCHANGED <<rowVars, titlesRaced, bareRaced>>
\* The insert, which the database refuses when the category or the slug is gone by now.
WritePage(w) ==
    /\ writer[w].op = "page" /\ Ends(w)
    /\ LET p == CHOOSE q \in Pages : q \in writer[w].of
           x == writer[w].slug
           c == writer[w].into IN
       IF Listed(c) /\ SlugFree(p, x)
       THEN /\ filed' = [filed EXCEPT ![p] = c] /\ slug' = [slug EXCEPT ![p] = x]
            /\ \E some \in {{}, {writer[w].save}} : sections' = [sections EXCEPT ![p] = some]
       ELSE UNCHANGED <<filed, slug, sections>>
    /\ UNCHANGED <<title, held, titlesRaced, bareRaced, writes>>
\* updatePage of other fields than the sections: one statement after its checks.
CheckMove(w, p, c, x) ==
    /\ PageExists(p) /\ Listed(c) /\ SlugFree(p, x)
    /\ Arrives(w, [NoWrite EXCEPT !.op = "move", !.of = {p}, !.into = c, !.slug = x])
    /\ UNCHANGED <<rowVars, titlesRaced, bareRaced>>
WriteMove(w) ==
    /\ writer[w].op = "move" /\ writer[w].of \cap held = {} /\ Ends(w)
    /\ LET p == CHOOSE q \in Pages : q \in writer[w].of IN
       IF PageExists(p) /\ Listed(writer[w].into) /\ SlugFree(p, writer[w].slug)
       THEN /\ filed' = [filed EXCEPT ![p] = writer[w].into]
            /\ slug' = [slug EXCEPT ![p] = writer[w].slug]
       ELSE UNCHANGED <<filed, slug>>
    /\ UNCHANGED <<title, sections, held, titlesRaced, bareRaced, writes>>
RemovePage(p) ==
    /\ PageExists(p) /\ p \notin held
    /\ filed' = [filed EXCEPT ![p] = NoCategory] /\ slug' = [slug EXCEPT ![p] = NoSlug]
    /\ sections' = [sections EXCEPT ![p] = {}]
    /\ UNCHANGED <<title, held, writer, titlesRaced, bareRaced, writes>>

-----------------------------------------------------------------------------
(* Saving the sections of a page.                                           *)

Saving(w) == writer[w].op \in {"update", "delete", "insert"}
\* updatePage with sections makes the checks of a move; a save of nothing but sections is bare.
CheckSave(w, p, c, x, bare) ==
    /\ PageExists(p) /\ Listed(c) /\ SlugFree(p, x) /\ (bare => c = filed[p] /\ x = slug[p])
    /\ Arrives(w, [NoWrite EXCEPT !.op = "update", !.of = {p}, !.into = c, !.slug = x, !.bare = bare])
    /\ bareRaced' = (bareRaced \/ \E v \in Writers : /\ Saving(v) /\ p \in writer[v].of
                                                    /\ (bare \/ writer[v].bare))
    /\ UNCHANGED <<rowVars, titlesRaced>>
\* Mutant: the page's row is not touched before its sections are.
LocksNever(w) == held' = held
\* The update of the page locks its row, unless it has no field to set.
Locks(w) ==
    IF writer[w].bare THEN held' = held
    ELSE writer[w].of \cap held = {} /\ held' = held \cup writer[w].of
UpdateRow(w) ==
    /\ writer[w].op = "update"
    /\ IF \E p \in writer[w].of : PageExists(p)
       THEN Locks(w) /\ Goes(w, [writer[w] EXCEPT !.op = "delete"])
       ELSE held' = held /\ Ends(w)
    /\ UNCHANGED <<title, filed, slug, sections, titlesRaced, bareRaced, writes>>
DeleteSections(w) ==
    /\ writer[w].op = "delete"
    /\ Goes(w, [writer[w] EXCEPT !.op = "insert", !.seen = UNION {sections[p] : p \in writer[w].of}])
    /\ UNCHANGED <<rowVars, titlesRaced, bareRaced, writes>>
\* The new sections, and the commit.  A save that failed on the way, because the page, the
\* category or the slug is gone by now, leaves nothing.
InsertSections(w) ==
    /\ writer[w].op = "insert" /\ Ends(w)
    /\ LET p == CHOOSE q \in Pages : q \in writer[w].of
           moves == ~writer[w].bare IN
       IF PageExists(p) /\ (moves => Listed(writer[w].into) /\ SlugFree(p, writer[w].slug))
       THEN /\ \E new \in {{}, {writer[w].save}} :
                 sections' = [sections EXCEPT ![p] = (@ \ writer[w].seen) \cup new]
            /\ filed' = IF moves THEN [filed EXCEPT ![p] = writer[w].into] ELSE filed
            /\ slug' = IF moves THEN [slug EXCEPT ![p] = writer[w].slug] ELSE slug
       ELSE UNCHANGED <<sections, filed, slug>>
    /\ held' = IF writer[w].bare THEN held ELSE held \ writer[w].of
    /\ UNCHANGED <<title, titlesRaced, bareRaced, writes>>

DocsNext ==
    \/ \E w \in Writers : \/ WriteTitle(w) \/ WritePage(w) \/ WriteMove(w)
                          \/ UpdateRow(w) \/ DeleteSections(w) \/ InsertSections(w)
                          \/ \E c \in Categories, x \in Titles : CheckTitle(w, c, x)
                          \/ \E p \in Pages, c \in Categories, x \in Slugs :
                               \/ CheckPage(w, p, c, x) \/ CheckMove(w, p, c, x)
                               \/ \E bare \in BOOLEAN : CheckSave(w, p, c, x, bare)
    \/ \E c \in Categories : RemoveCategory(c)
    \/ \E p \in Pages : RemovePage(p)
DocsSpec == DocsInit /\ [][DocsNext]_docsVars

-----------------------------------------------------------------------------
\* A type invariant.
DocsTypeOK ==
    /\ title \in [Categories -> Titles \cup {NoTitle}]
    /\ filed \in [Pages -> Categories \cup {NoCategory}] /\ slug \in [Pages -> Slugs \cup {NoSlug}]
    /\ sections \in [Pages -> SUBSET (1 .. MaxWrites)] /\ held \subseteq Pages
    /\ \A w \in Writers : writer[w].op \in {"none", "title", "retitle", "page", "move",
                                         "update", "delete", "insert"}
    /\ titlesRaced \in BOOLEAN /\ bareRaced \in BOOLEAN /\ writes \in 0 .. MaxWrites

\* A page shows the sections of one save, however the saves of several administrators
\* interleave: the update of its row makes the second wait for the first.  Saves of
\* nothing but sections do not touch the row and are the exception.
SectionsAreOneSave == ~bareRaced => \A p \in Pages : Cardinality(sections[p]) <= 1

\* Every page is in a category that exists, and categories have different titles unless
\* two requests checked one title at the same time, which nothing in the database refuses.
DocsAreFiled ==
    /\ \A p \in Pages : PageExists(p) => Listed(filed[p])
    /\ ~titlesRaced => \A c, d \in Categories :
         c # d /\ title[c] # NoTitle => title[c] # title[d]
=============================================================================
