------------------------------ MODULE NewsVotes ------------------------------
(***************************************************************************)
(* News items, the votes of readers, and the feeds that show them:         *)
(* src/apps/api/src/news/news.service.ts and                               *)
(* src/apps/web/components/panels/NewsFeed.tsx.  An item carries its own   *)
(* counts beside the votes; a vote is a transaction that reads the old     *)
(* vote and moves the counts by what it read.  A feed shows a vote before  *)
(* it is answered, and takes it back when it fails.                        *)
(***************************************************************************)
EXTENDS Naturals, Integers, FiniteSets

CONSTANTS
    Items, Readers, Feeds, \* a reader is a client key; feeds of two tabs may have one
    Slots,                 \* votes under way at once
    MaxVotes, MaxEdits, MaxMounts

ASSUME NewsAssumption == IsFiniteSet(Readers) /\ MaxVotes \in Nat /\ MaxEdits \in Nat /\ MaxMounts \in Nat

VARIABLES
    item,       \* NewsItem: whether it exists and is active, and its counts
    vote,       \* NewsVote by item and reader
    reader,     \* the reader of a feed
    feed,       \* newsItems of a feed: by item what it shows, or that it does not
    voting,     \* votingById
    kept,       \* the answer requestJson remembers for the page of a feed
    fetch,      \* the GET of the page under way
    votes,      \* votes under way
    overlapped, \* history: items on which two votes of one reader overlapped
    missed,     \* history: what a feed could not know of its reader's vote
    voteCount, edits, mounts

newsVars == <<item, vote, reader, feed, voting, kept, fetch, votes, overlapped, missed,
              voteCount, edits, mounts>>

VoteChoices == {"up", "down", "none"}
NoView == [here |-> FALSE]
View(i, mine) == [here |-> TRUE, up |-> item[i].up, down |-> item[i].down, mine |-> mine]
EmptyFeed == [i \in Items |-> NoView]
NoFetch == [stage |-> "none", waited |-> FALSE, answer |-> EmptyFeed]
NoVote == [stage |-> "none"]

NewsInit ==
    /\ item \in [Items -> [state : {"active", "draft"}, up : {0}, down : {0}]]
    /\ vote = [i \in Items |-> [r \in Readers |-> "none"]]
    /\ reader \in [Feeds -> Readers]
    /\ feed = [f \in Feeds |-> EmptyFeed] /\ voting = [f \in Feeds |-> {}]
    /\ kept = [f \in Feeds |-> {}] /\ fetch = [f \in Feeds |-> NoFetch]
    /\ votes = [s \in Slots |-> NoVote]
    /\ overlapped = {} /\ missed = {} /\ voteCount = 0 /\ edits = 0 /\ mounts = 0

Exists(i) == item[i].state \in {"active", "draft"}
OfReader(r, i) == {s \in Slots : votes[s].stage # "none" /\ votes[s].item = i
                                   /\ reader[votes[s].feed] = r}

-----------------------------------------------------------------------------
(* The administrators: create, update, remove; votes go with their item.    *)

EditItem(i) ==
    /\ edits < MaxEdits /\ edits' = edits + 1
    /\ \/ item[i].state = "draft" /\ item' = [item EXCEPT ![i].state = "active"] /\ UNCHANGED vote
       \/ item[i].state = "active" /\ item' = [item EXCEPT ![i].state = "draft"] /\ UNCHANGED vote
       \/ /\ Exists(i) /\ item' = [item EXCEPT ![i].state = "removed"]
          /\ vote' = [vote EXCEPT ![i] = [r \in Readers |-> "none"]]
    /\ UNCHANGED <<reader, feed, voting, kept, fetch, votes, overlapped, missed, voteCount, mounts>>

-----------------------------------------------------------------------------
(* Loading a feed.                                                          *)

\* The component appears, or again: it shows nothing, and takes what is remembered, waits
\* for a call under way, or asks.
MountFeed(f) ==
    /\ mounts < MaxMounts /\ mounts' = mounts + 1
    /\ feed' = [feed EXCEPT ![f] = IF kept[f] = {} THEN EmptyFeed ELSE CHOOSE v \in kept[f] : TRUE]
    /\ voting' = [voting EXCEPT ![f] = {}]
    /\ fetch' = [fetch EXCEPT ![f] =
          CASE kept[f] # {} -> @
            [] kept[f] = {} /\ @.stage = "none" -> [NoFetch EXCEPT !.stage = "sent", !.waited = TRUE]
            [] OTHER -> [@ EXCEPT !.waited = TRUE]]
    /\ votes' = [s \in Slots |-> IF votes[s].stage # "none" /\ votes[s].feed = f
                                 THEN [votes[s] EXCEPT !.live = FALSE] ELSE votes[s]]
    /\ missed' = missed \cup {<<f, i>> : i \in {j \in Items : OfReader(reader[f], j) # {}}}
    /\ UNCHANGED <<item, vote, reader, kept, overlapped, voteCount, edits>>

\* findAll reads the active items, and then the votes of the reader on them.
FindItems(f) ==
    /\ fetch[f].stage = "sent"
    /\ fetch' = [fetch EXCEPT ![f].stage = "items",
          ![f].answer = [i \in Items |-> IF item[i].state = "active" THEN View(i, "none") ELSE NoView]]
    /\ UNCHANGED <<item, vote, reader, feed, voting, kept, votes, overlapped, missed, voteCount,
                   edits, mounts>>
FindVotes(f) ==
    /\ fetch[f].stage = "items"
    /\ fetch' = [fetch EXCEPT ![f].stage = "answered",
          ![f].answer = [i \in Items |-> IF @[i].here THEN [@[i] EXCEPT !.mine = vote[i][reader[f]]]
                                         ELSE NoView]]
    /\ UNCHANGED <<item, vote, reader, feed, voting, kept, votes, overlapped, missed, voteCount,
                   edits, mounts>>
FeedLoaded(f) ==
    /\ fetch[f].stage = "answered"
    /\ kept' = [kept EXCEPT ![f] = {fetch[f].answer}]
    /\ feed' = IF fetch[f].waited THEN [feed EXCEPT ![f] = fetch[f].answer] ELSE feed
    /\ fetch' = [fetch EXCEPT ![f] = NoFetch]
    /\ UNCHANGED <<item, vote, reader, voting, votes, overlapped, missed, voteCount, edits, mounts>>
LoadFails(f) ==
    /\ fetch[f].stage # "none"
    /\ feed' = IF fetch[f].waited THEN [feed EXCEPT ![f] = EmptyFeed] ELSE feed
    /\ fetch' = [fetch EXCEPT ![f] = NoFetch]
    /\ UNCHANGED <<item, vote, reader, voting, kept, votes, overlapped, missed, voteCount, edits, mounts>>
KeptExpires(f) ==
    /\ kept[f] # {} /\ kept' = [kept EXCEPT ![f] = {}]
    /\ UNCHANGED <<item, vote, reader, feed, voting, fetch, votes, overlapped, missed, voteCount,
                   edits, mounts>>

-----------------------------------------------------------------------------
(* Voting.                                                                  *)

Less(n) == IF n = 0 THEN 0 ELSE n - 1
\* applyVoteToItem.
Optimistic(view, next) ==
    [view EXCEPT !.mine = next,
        !.up = (IF view.mine = "up" THEN Less(@) ELSE @) + (IF next = "up" THEN 1 ELSE 0),
        !.down = (IF view.mine = "down" THEN Less(@) ELSE @) + (IF next = "down" THEN 1 ELSE 0)]

\* handleVote: the same vote again takes it back.
PressVote(f, i, choice) ==
    LET next == IF feed[f][i].mine = choice THEN "none" ELSE choice IN
    /\ feed[f][i].here /\ i \notin voting[f]
    /\ voteCount < MaxVotes /\ voteCount' = voteCount + 1
    /\ \E s \in Slots :
          /\ votes[s].stage = "none"
          /\ votes' = [votes EXCEPT ![s] =
                [stage |-> "sent", feed |-> f, item |-> i, next |-> next, before |-> feed[f][i],
                 old |-> "none", answer |-> NoView, live |-> TRUE]]
    /\ voting' = [voting EXCEPT ![f] = @ \cup {i}]
    /\ feed' = [feed EXCEPT ![f][i] = Optimistic(@, next)]
    /\ kept' = [kept EXCEPT ![f] = {}]
    /\ missed' = missed \cup {<<g, i>> : g \in {h \in Feeds : reader[h] = reader[f]
                                                   /\ (h # f \/ fetch[h].stage # "none")}}
    /\ UNCHANGED <<item, vote, reader, fetch, overlapped, edits, mounts>>

\* NewsService.vote, its reads: the item and the reader's vote on it; a vote beyond the
\* limit or for an item that is not there is refused.
VoteReads(s) ==
    LET v == votes[s] IN
    /\ v.stage = "sent"
    /\ \/ /\ Exists(v.item)
          /\ votes' = [votes EXCEPT ![s].stage = "read", ![s].old = vote[v.item][reader[v.feed]]]
          /\ overlapped' = overlapped \cup
                {i \in {v.item} : \E t \in OfReader(reader[v.feed], i) : votes[t].stage = "read"}
       \/ votes' = [votes EXCEPT ![s].stage = "failed"] /\ UNCHANGED overlapped
    /\ UNCHANGED <<item, vote, reader, feed, voting, kept, fetch, missed, voteCount, edits, mounts>>

\* Mutant: changing a vote counts the new one, and leaves the old one counted.
CountedTwice(counts, old, next) ==
    [counts EXCEPT !.up = @ + (IF next = "up" THEN 1 ELSE 0) - (IF old = "up" /\ next = "none" THEN 1 ELSE 0),
                   !.down = @ + (IF next = "down" THEN 1 ELSE 0) - (IF old = "down" /\ next = "none" THEN 1 ELSE 0)]
Counted(counts, old, next) ==
    [counts EXCEPT !.up = @ + (IF next = "up" THEN 1 ELSE 0) - (IF old = "up" THEN 1 ELSE 0),
                   !.down = @ + (IF next = "down" THEN 1 ELSE 0) - (IF old = "down" THEN 1 ELSE 0)]

\* A row that is to be created must not be there, one that is to be changed or deleted
\* must; a change finds a row whatever it says by now.
\* Mutant: a vote is written whether or not its item is still there.
VoteFitsAny(v, now) == v.old # v.next => (v.old = "none" <=> now = "none")
VoteFits(v, now) == Exists(v.item) /\ (v.old # v.next => (v.old = "none" <=> now = "none"))
\* Its writes and its commit.
VoteWrites(s) ==
    LET v == votes[s]  r == reader[v.feed]  now == vote[v.item][r]
        writes == v.old # v.next
    IN  /\ v.stage = "read"
        /\ IF VoteFits(v, now)
           THEN /\ vote' = IF writes THEN [vote EXCEPT ![v.item][r] = v.next] ELSE vote
                /\ item' = IF writes THEN [item EXCEPT ![v.item] = Counted(@, v.old, v.next)] ELSE item
                /\ votes' = [votes EXCEPT ![s].stage = "done",
                      ![s].answer = [here |-> TRUE, up |-> item'[v.item].up, down |-> item'[v.item].down,
                                     mine |-> vote'[v.item][r]]]
           ELSE votes' = [votes EXCEPT ![s].stage = "failed"] /\ UNCHANGED <<item, vote>>
        /\ UNCHANGED <<reader, feed, voting, kept, fetch, overlapped, missed, voteCount, edits, mounts>>

\* The feed, if it is still the one that asked, replaces the item.
Replaces(s, view) ==
    LET v == votes[s] IN
    /\ feed' = IF v.live /\ feed[v.feed][v.item].here THEN [feed EXCEPT ![v.feed][v.item] = view] ELSE feed
    /\ voting' = IF v.live THEN [voting EXCEPT ![v.feed] = @ \ {v.item}] ELSE voting
VoteAnswered(s) ==
    /\ votes[s].stage = "done" /\ Replaces(s, votes[s].answer)
    /\ votes' = [votes EXCEPT ![s] = NoVote]
    /\ UNCHANGED <<item, vote, reader, kept, fetch, overlapped, missed, voteCount, edits, mounts>>
\* Mutant: what was shown before the answer stays.
TakenBackNot(v) == feed[v.feed][v.item]
TakenBack(v) == v.before
VoteFails(s) ==
    /\ votes[s].stage = "failed" /\ Replaces(s, TakenBack(votes[s]))
    /\ votes' = [votes EXCEPT ![s] = NoVote]
    /\ UNCHANGED <<item, vote, reader, kept, fetch, overlapped, missed, voteCount, edits, mounts>>
\* Nobody waits for the answer any longer; the API goes on.
VoteGivenUp(s) ==
    LET v == votes[s] IN
    /\ v.stage \in {"sent", "read", "done"} /\ v.live
    /\ Replaces(s, v.before)
    /\ votes' = [votes EXCEPT ![s].live = FALSE]
    /\ missed' = missed \cup {<<v.feed, v.item>>}
    /\ UNCHANGED <<item, vote, reader, kept, fetch, overlapped, voteCount, edits, mounts>>

NewsNext ==
    \/ \E i \in Items : EditItem(i)
    \/ \E f \in Feeds : \/ MountFeed(f) \/ FindItems(f) \/ FindVotes(f) \/ FeedLoaded(f) \/ LoadFails(f)
                        \/ KeptExpires(f)
                        \/ \E i \in Items, choice \in {"up", "down"} : PressVote(f, i, choice)
    \/ \E s \in Slots : \/ VoteReads(s) \/ VoteWrites(s) \/ VoteAnswered(s) \/ VoteFails(s)
                        \/ VoteGivenUp(s)
NewsSpec == NewsInit /\ [][NewsNext]_newsVars

-----------------------------------------------------------------------------
\* Types, and no vote outlives its item; a count may go wrong, but only where votes overlap.
NewsTypeOK ==
    /\ \A i \in Items : /\ item[i].up \in Int /\ item[i].down \in Int
                        /\ item[i].state \in {"active", "draft", "removed"}
    /\ \A i \in Items, r \in Readers : vote[i][r] # "none" => Exists(i)
    /\ vote \in [Items -> [Readers -> VoteChoices]] /\ reader \in [Feeds -> Readers]
    /\ \A f \in Feeds : voting[f] \subseteq Items /\ Cardinality(kept[f]) <= 1

\* The counts of an item are the votes on it, whatever failed in between, as long as no
\* two votes of one reader on it ran at the same time (news.service.ts, vote).
CountsMatchVotes ==
    \A i \in {j \in Items \ overlapped : Exists(j)} :
        /\ item[i].up = Cardinality({r \in Readers : vote[i][r] = "up"})
        /\ item[i].down = Cardinality({r \in Readers : vote[i][r] = "down"})

\* A feed at rest marks the vote that is stored, also after a vote that failed, unless it
\* voted elsewhere, gave up waiting, or loaded while a vote was under way
\* (NewsFeed.tsx, handleVote).
FeedMarksTheVote ==
    \A f \in Feeds, i \in Items :
        feed[f][i].here /\ i \notin voting[f] /\ fetch[f].stage = "none" /\ Exists(i)
          /\ <<f, i>> \notin missed => feed[f][i].mine = vote[i][reader[f]]
=============================================================================
