-------------------------- MODULE WalletAccessProofs --------------------------
(* What AuthChallenge guarantees for any number of requests and challenges,   *)
(* WalletBalances for any number of tokens, requests and changes, and         *)
(* WalletSessions for any number of sessions, requests and sweeps; together   *)
(* they are what MCWalletAccess composes.                                     *)
EXTENDS MCWalletAccess, Sums

\* A request that has begun an answer carries a challenge that was issued.
Answering(r) == request[r].stage \in {"loading", "consuming", "authorizing", "granted"}

\* The row holds the newest challenge or none, and never one that was spent:
\* this is what makes a second answer fail, and the newest one the only one.
SpentIsGone ==
  /\ stored.challenge \in {0, issued}
  /\ \A r \in Requests : Answering(r) => request[r].challenge # 0
  /\ \A r \in Requests : HasSpent(r) => request[r].challenge # stored.challenge

CInv == ChallengeTypeOK /\ SpentIsGone /\ AnsweredOnce

LEMMA PrunedRow ==
  ASSUME ChallengeTypeOK
  PROVE  Pruned \in {stored, NoChallenge} /\ Pruned \in StoredRecords
  BY DEF Pruned, ChallengeTypeOK, StoredRecords

LEMMA InitCInv == ChallengeInit => CInv
  BY ChallengeAssumption DEF ChallengeInit, CInv, ChallengeTypeOK, SpentIsGone, AnsweredOnce,
     StoredRecords, NoChallenge, Idle, RequestStages, Services, Answering, HasSpent, Challenges

LEMMA TypeStep == ChallengeTypeOK /\ [ChallengeNext]_challengeVars => ChallengeTypeOK'
<1> SUFFICES ASSUME ChallengeTypeOK, [ChallengeNext]_challengeVars
             PROVE  ChallengeTypeOK'
  OBVIOUS
<1> USE ChallengeAssumption DEF ChallengeTypeOK, RequestStages, Services, Challenges
<1>1. CASE UNCHANGED challengeVars
  BY <1>1 DEF challengeVars
<1>2. ASSUME NEW r \in Requests, BeginIssue(r) PROVE ChallengeTypeOK'
  BY <1>2, PrunedRow DEF BeginIssue, Moves, NoChallenge
<1>3. ASSUME NEW r \in Requests, Issue(r) PROVE ChallengeTypeOK'
  BY <1>3 DEF Issue, Moves, StoredRecords
<1>4. ASSUME NEW r \in Requests, BeginVerify(r) PROVE ChallengeTypeOK'
  BY <1>4, PrunedRow DEF BeginVerify, NoChallenge
<1>5. ASSUME NEW r \in Requests, Load(r) PROVE ChallengeTypeOK'
  BY <1>5 DEF Load, Moves
<1>6. ASSUME NEW r \in Requests, Consume(r) PROVE ChallengeTypeOK'
  BY <1>6 DEF Consume, Moves, Deleted, NoChallenge, StoredRecords
<1>7. ASSUME NEW r \in Requests, Authorize(r) PROVE ChallengeTypeOK'
  BY <1>7 DEF Authorize, Moves
<1>8. CASE Sign
  BY <1>8 DEF Sign
<1>9. CASE Expire
  <2>1. stored \in [challenge : 1 .. MaxIssued, live : BOOLEAN]
    BY <1>9 DEF Expire, StoredRecords, NoChallenge
  <2>2. stored' = [challenge |-> stored.challenge, live |-> FALSE]
    BY <1>9, <2>1 DEF Expire
  <2>3. stored' \in StoredRecords /\ stored'.challenge = stored.challenge
    BY <2>1, <2>2 DEF StoredRecords
  <2>4. QED
    BY <1>9, <2>3 DEF Expire
<1>10. CASE SetBarred \/ SetAdmin
  BY <1>10 DEF SetBarred, SetAdmin
<1> QED
  BY <1>1, <1>2, <1>3, <1>4, <1>5, <1>6, <1>7, <1>8, <1>9, <1>10 DEF ChallengeNext

\* Only Consume lets a request past the deletion, and it does so for the challenge
\* that was in the row.
LEMMA SpendingConsumes ==
  ASSUME NEW r \in Requests, ChallengeTypeOK, [ChallengeNext]_challengeVars,
         HasSpent(r)', ~HasSpent(r)
  PROVE  Consume(r) /\ Deletes(request[r].challenge) /\ Answering(r)
<1> USE DEF HasSpent, ChallengeTypeOK, RequestStages, Services
<1>1. ASSUME NEW q \in Requests, BeginIssue(q) PROVE FALSE
  BY <1>1 DEF BeginIssue, Moves
<1>2. ASSUME NEW q \in Requests, Issue(q) PROVE FALSE
  BY <1>2 DEF Issue, Moves
<1>3. ASSUME NEW q \in Requests, BeginVerify(q) PROVE FALSE
  BY <1>3 DEF BeginVerify
<1>4. ASSUME NEW q \in Requests, Load(q) PROVE FALSE
  BY <1>4 DEF Load, Moves
<1>5. ASSUME NEW q \in Requests, Authorize(q) PROVE FALSE
  BY <1>5 DEF Authorize, Moves
<1>6. ASSUME NEW q \in Requests, Consume(q)
      PROVE  q = r /\ Deletes(request[r].challenge) /\ Answering(r)
  BY <1>6 DEF Consume, Moves, MayGoOn, Answering
<1>7. CASE Sign \/ Expire \/ SetBarred \/ SetAdmin \/ UNCHANGED challengeVars
  BY <1>7 DEF Sign, Expire, SetBarred, SetAdmin, challengeVars
<1> QED
  BY <1>1, <1>2, <1>3, <1>4, <1>5, <1>6, <1>7 DEF ChallengeNext

LEMMA SpentStep == CInv /\ [ChallengeNext]_challengeVars => SpentIsGone'
<1> SUFFICES ASSUME CInv, [ChallengeNext]_challengeVars PROVE SpentIsGone'
  OBVIOUS
<1> USE ChallengeAssumption DEF CInv, ChallengeTypeOK, SpentIsGone, Answering, HasSpent, RequestStages, Services
<1>1. CASE UNCHANGED challengeVars
  BY <1>1 DEF challengeVars
<1>2. ASSUME NEW r \in Requests, BeginIssue(r) PROVE SpentIsGone'
  BY <1>2, PrunedRow DEF BeginIssue, Moves, NoChallenge
<1>3. ASSUME NEW r \in Requests, Issue(r) PROVE SpentIsGone'
  BY <1>3 DEF Issue, Moves
<1>4. ASSUME NEW r \in Requests, BeginVerify(r) PROVE SpentIsGone'
  BY <1>4, PrunedRow DEF BeginVerify, NoChallenge
<1>5. ASSUME NEW r \in Requests, Load(r) PROVE SpentIsGone'
  BY <1>5 DEF Load, Moves
<1>6. ASSUME NEW r \in Requests, Consume(r) PROVE SpentIsGone'
  BY <1>6 DEF Consume, Moves, Deleted, NoChallenge, Deletes, MayGoOn, Usable
<1>7. ASSUME NEW r \in Requests, Authorize(r) PROVE SpentIsGone'
  BY <1>7 DEF Authorize, Moves
<1>8. CASE Sign
  BY <1>8 DEF Sign
<1>9. CASE Expire
  BY <1>9 DEF Expire, StoredRecords, NoChallenge
<1>10. CASE SetBarred \/ SetAdmin
  BY <1>10 DEF SetBarred, SetAdmin
<1> QED
  BY <1>1, <1>2, <1>3, <1>4, <1>5, <1>6, <1>7, <1>8, <1>9, <1>10 DEF ChallengeNext

\* A request that gets past the deletion keeps its challenge.
LEMMA SpentKeeps ==
  ASSUME NEW r \in Requests, ChallengeTypeOK, [ChallengeNext]_challengeVars, HasSpent(r)'
  PROVE  request'[r].challenge = request[r].challenge
<1> USE DEF HasSpent, ChallengeTypeOK, RequestStages, Services
<1>1. ASSUME NEW q \in Requests, BeginIssue(q) \/ Issue(q) \/ BeginVerify(q)
      PROVE  request'[r].challenge = request[r].challenge
  BY <1>1 DEF BeginIssue, Issue, BeginVerify, Moves
<1>2. ASSUME NEW q \in Requests, Load(q) \/ Consume(q) \/ Authorize(q)
      PROVE  request'[r].challenge = request[r].challenge
  BY <1>2 DEF Load, Consume, Authorize, Moves
<1>3. CASE Sign \/ Expire \/ SetBarred \/ SetAdmin \/ UNCHANGED challengeVars
  BY <1>3 DEF Sign, Expire, SetBarred, SetAdmin, challengeVars
<1> QED
  BY <1>1, <1>2, <1>3 DEF ChallengeNext

LEMMA OnceStep == CInv /\ [ChallengeNext]_challengeVars => AnsweredOnce'
<1> SUFFICES ASSUME CInv, [ChallengeNext]_challengeVars,
                    NEW r \in Requests, NEW q \in Requests, HasSpent(r)', HasSpent(q)',
                    request'[r].challenge = request'[q].challenge
             PROVE  r = q
  BY DEF AnsweredOnce, HasSpent
<1>1. request[r].challenge = request[q].challenge
  BY SpentKeeps DEF CInv
<1>2. CASE HasSpent(r) /\ HasSpent(q)
  BY <1>1, <1>2 DEF CInv, AnsweredOnce
<1>3. ASSUME NEW a \in Requests, NEW b \in Requests, ~HasSpent(a), HasSpent(a)', HasSpent(b)
      PROVE  request[a].challenge # request[b].challenge
  BY <1>3, SpendingConsumes DEF CInv, SpentIsGone, Deletes, Usable
<1>4. CASE ~HasSpent(r) /\ ~HasSpent(q)
  <2>1. Consume(r) /\ Consume(q) /\ request[r].stage # "authorizing" /\ request[q].stage # "authorizing"
    BY <1>4, SpendingConsumes DEF CInv, HasSpent
  <2>2. request'[q].stage = "authorizing" \/ request'[q].stage = "granted"
    BY DEF HasSpent
  <2>3. r # q => request'[q] = request[q]
    BY <2>1 DEF Consume, Moves, CInv, ChallengeTypeOK
  <2>4. QED
    BY <1>4, <2>2, <2>3 DEF HasSpent
<1> QED
  BY <1>1, <1>2, <1>3, <1>4

LEMMA ChallengeInvariance == ChallengeSpec => []CInv
<1>1. CInv /\ [ChallengeNext]_challengeVars => CInv'
  BY TypeStep, SpentStep, OnceStep DEF CInv
<1>2. QED
  BY InitCInv, <1>1, PTL DEF ChallengeSpec

\* Rows, requests and challenges keep their types (all of both services' handlers).
THEOREM ChallengeTypeCorrect == ChallengeSpec => []ChallengeTypeOK
  BY ChallengeInvariance, PTL DEF CInv

\* One signed message gets at most one request past the deletion, whatever the
\* number of requests and tabs and whichever service they address.
THEOREM OneAnswer == ChallengeSpec => []AnsweredOnce
  BY ChallengeInvariance, PTL DEF CInv

\* What signs in is the newest challenge, before it expires.
THEOREM NewestSignsIn == ChallengeSpec => NewestOnly
<1>1. CInv /\ [ChallengeNext]_challengeVars =>
        [\A r \in Requests :
           (HasSpent(r)' /\ ~HasSpent(r)) => (request[r].challenge = issued /\ stored.live)]_challengeVars
  BY SpendingConsumes DEF CInv, SpentIsGone, Deletes, Usable
<1>2. QED
  BY <1>1, ChallengeInvariance, PTL DEF ChallengeSpec, NewestOnly

--------------------------------------------------------------------------------
\* The stored balances of a wallet.

\* The part of the shape that the argument needs.
ReadingFields == {"stage", "kind", "net", "tracked", "found", "blind", "at"}
IsAReading(r) == ReadingFields \subseteq DOMAIN r /\ r.kind \in {"profile", "session", "convert"}
\* It is a sequence, of whatever elements.
IsASeq(p) == \E S : p \in Seq(S)
BalancesShape ==
    /\ clock \in Nat /\ Len(past) = clock + 1 /\ IsASeq(past)
    /\ past[clock + 1] = held
    /\ reading = [c \in Calls2 |-> reading[c]]
    /\ \A c \in Calls2 : IsAReading(reading[c])
    /\ holdings = [n \in Nets |-> holdings[n]]

\* A list of tokens to store has RA in it.
RaIsTracked ==
    \A c \in Calls2 : reading[c].stage \in {"fetching", "storing"} => RA \in reading[c].tracked

\* What net held at the change numbered at, when everybody answered.
WasHeld(net, t, amount, at, blind) ==
    at \in 0 .. clock /\ (~blind => amount = Total(past[at + 1][net][t]))

\* What a request has found is what the chain held when it looked.
FoundIsPast ==
    \A c \in Calls2 : reading[c].stage = "storing" =>
        \A t \in Tokens : WasHeld(reading[c].net, t, reading[c].found[t], reading[c].at,
                                  reading[c].blind)

\* The rows of a network are those of one reading.
RowsArePast ==
    \A n \in Nets : \A t \in Tokens : holdings[n][t].exists =>
        /\ holdings[n][RA].exists
        /\ holdings[n][t].at = holdings[n][RA].at
        /\ WasHeld(n, t, holdings[n][t].amount, holdings[n][t].at, holdings[n][t].blind)

BalancesInv == BalancesShape /\ RaIsTracked /\ FoundIsPast /\ RowsArePast

LEMMA InitBalancesInv == BalancesInit => BalancesInv
<1> SUFFICES ASSUME BalancesInit PROVE BalancesInv
  OBVIOUS
<1>1. IsASeq(past) /\ Len(past) = 1 /\ past[1] = held
  <2>1. past \in Seq({held}) /\ past = <<held>>
    BY DEF BalancesInit
  <2>2. QED
    BY <2>1 DEF IsASeq
<1>2. BalancesShape
  BY <1>1 DEF BalancesInit, BalancesShape, IsAReading, ReadingFields, NoReading
<1>3. RaIsTracked /\ FoundIsPast /\ RowsArePast
  BY DEF BalancesInit, RaIsTracked, FoundIsPast, RowsArePast, NoReading, NoHolding
<1>4. QED
  BY <1>2, <1>3 DEF BalancesInv

\* A change of the chain adds to the past and takes nothing from it.
LEMMA PastGrows ==
  ASSUME BalancesShape, ChainMoves
  PROVE  /\ clock' = clock + 1
         /\ Len(past') = clock + 2 /\ past'[clock + 2] = held' /\ IsASeq(past')
         /\ \A i \in 1 .. clock + 1 : past'[i] = past[i]
<1>1. PICK S : past \in Seq(S)
  BY DEF BalancesShape, IsASeq
<1>2. past \in Seq(S \cup {held'}) /\ held' \in S \cup {held'}
  <2>1. \A i \in 1 .. Len(past) : past[i] \in S \cup {held'}
    BY <1>1
  <2>2. QED
    BY <1>1, <2>1
<1>3. past' = Append(past, held') /\ clock' = clock + 1
  BY DEF ChainMoves
<1>4. IsASeq(past')
  BY <1>2, <1>3 DEF IsASeq
<1>5. QED
  BY <1>2, <1>3, <1>4 DEF BalancesShape

LEMMA ShapeStep == BalancesShape /\ [BalancesNext]_balanceVars => BalancesShape'
<1> SUFFICES ASSUME BalancesShape, [BalancesNext]_balanceVars PROVE BalancesShape'
  OBVIOUS
<1> USE DEF BalancesShape, IsAReading, ReadingFields
<1>1. CASE UNCHANGED balanceVars
  BY <1>1 DEF balanceVars
<1>2. CASE ChainMoves
  <2>1. /\ clock' = clock + 1 /\ Len(past') = clock + 2 /\ past'[clock + 2] = held'
        /\ IsASeq(past')
    BY <1>2, PastGrows
  <2>2. UNCHANGED <<reading, holdings>>
    BY <1>2 DEF ChainMoves
  <2>3. QED
    BY <2>1, <2>2
<1>3. CASE NetworkSwitched \/ TokenListed \/ CopyExpires \/ BecomesDue
  BY <1>3 DEF NetworkSwitched, TokenListed, CopyExpires, BecomesDue
<1>4. ASSUME NEW c \in Calls2, NEW q, Reads(c, q), IsAReading(q)
      PROVE  reading' = [d \in Calls2 |-> reading'[d]] /\ \A d \in Calls2 : IsAReading(reading'[d])
  BY <1>4 DEF Reads
<1>5. ASSUME NEW c \in Calls2,
             Request(c) \/ ListTracked(c) \/ Fetch(c) \/ FetchFails(c) \/ Store(c)
      PROVE  BalancesShape'
  <2>1. PICK q : Reads(c, q) /\ IsAReading(q)
    <3> IsAReading(NoReading)
      BY DEF NoReading
    <3> IsAReading(reading[c])
      OBVIOUS
    <3> HIDE DEF BalancesShape
    <3>1. CASE Request(c)
      <4>1. PICK kind \in {"profile", "session", "convert"} :
               Reads(c, [NoReading EXCEPT !.kind = kind, !.net = Network, !.stage =
                           IF kind = "profile" /\ ~due THEN "showing" ELSE "listing"])
        BY <3>1 DEF Request
      <4>2. IsAReading([NoReading EXCEPT !.kind = kind, !.net = Network, !.stage =
                           IF kind = "profile" /\ ~due THEN "showing" ELSE "listing"])
        BY DEF NoReading
      <4> HIDE DEF IsAReading
      <4>3. QED
        BY <4>1, <4>2
    <3>2. CASE ListTracked(c)
      <4>1. Reads(c, [reading[c] EXCEPT !.stage = "fetching", !.tracked = listed \cup {RA}])
        BY <3>2 DEF ListTracked
      <4>2. IsAReading([reading[c] EXCEPT !.stage = "fetching", !.tracked = listed \cup {RA}])
        OBVIOUS
      <4> HIDE DEF IsAReading
      <4>3. QED
        BY <4>1, <4>2
    <3>3. CASE Fetch(c)
      <4>1. PICK failing \in SUBSET Programs \ {Programs} :
               Reads(c, [reading[c] EXCEPT !.stage = "storing", !.at = clock,
                           !.blind = failing # {}, !.found = Found(reading[c].net, failing)])
        BY <3>3 DEF Fetch
      <4>2. IsAReading([reading[c] EXCEPT !.stage = "storing", !.at = clock,
                          !.blind = failing # {}, !.found = Found(reading[c].net, failing)])
        OBVIOUS
      <4> HIDE DEF IsAReading
      <4>3. QED
        BY <4>1, <4>2
    <3>4. CASE FetchFails(c)
      BY <3>4 DEF FetchFails
    <3>5. CASE Store(c)
      <4>1. CASE reading[c].kind = "profile"
        BY <3>5, <4>1 DEF Store
      <4>2. CASE reading[c].kind # "profile"
        BY <3>5, <4>2 DEF Store
      <4>3. QED
        BY <4>1, <4>2
    <3>6. QED
      BY <1>5, <3>1, <3>2, <3>3, <3>4, <3>5
  <2>2. reading' = [d \in Calls2 |-> reading'[d]] /\ \A d \in Calls2 : IsAReading(reading'[d])
    BY <1>4, <2>1
  <2>3. UNCHANGED <<clock, past, held>>
    BY <1>5 DEF Request, ListTracked, Fetch, FetchFails, Store
  <2>4. holdings' = [n \in Nets |-> holdings'[n]]
    BY <1>5 DEF Request, ListTracked, Fetch, FetchFails, Store
  <2>5. QED
    BY <2>2, <2>3, <2>4
<1>6. ASSUME NEW c \in Calls2, ShowProfile(c) \/ Choose(c) PROVE BalancesShape'
  BY <1>6 DEF ShowProfile, Choose, Reads, NoReading
<1> QED
  BY <1>1, <1>2, <1>3, <1>4, <1>5, <1>6 DEF BalancesNext

\* What was held at a moment was held then ever after.
LEMMA PastStays ==
  ASSUME BalancesShape, [BalancesNext]_balanceVars
  PROVE  /\ 0 .. clock \subseteq 0 .. clock'
         /\ \A i \in 0 .. clock : past'[i + 1] = past[i + 1]
<1>1. CASE ChainMoves
  BY <1>1, PastGrows DEF BalancesShape
<1>2. ASSUME past' = past, clock' = clock
      PROVE  /\ 0 .. clock \subseteq 0 .. clock'
             /\ \A i \in 0 .. clock : past'[i + 1] = past[i + 1]
  BY <1>2
<1>3. CASE UNCHANGED balanceVars \/ NetworkSwitched \/ TokenListed \/ CopyExpires \/ BecomesDue
  BY <1>2, <1>3 DEF balanceVars, NetworkSwitched, TokenListed, CopyExpires, BecomesDue
<1>4. ASSUME NEW c \in Calls2, \/ Request(c) \/ ListTracked(c) \/ Fetch(c) \/ FetchFails(c)
                               \/ Store(c) \/ ShowProfile(c) \/ Choose(c)
      PROVE  past' = past /\ clock' = clock
  BY <1>4 DEF Request, ListTracked, Fetch, FetchFails, Store, ShowProfile, Choose
<1> QED
  BY <1>1, <1>2, <1>3, <1>4 DEF BalancesNext

LEMMA TrackedStep == BalancesInv /\ [BalancesNext]_balanceVars => RaIsTracked'
<1> SUFFICES ASSUME BalancesInv, [BalancesNext]_balanceVars PROVE RaIsTracked'
  OBVIOUS
<1> USE DEF BalancesInv, BalancesShape, IsAReading, ReadingFields, RaIsTracked
<1>1. CASE UNCHANGED balanceVars
  BY <1>1 DEF balanceVars
<1>2. CASE ChainMoves \/ NetworkSwitched \/ TokenListed \/ CopyExpires \/ BecomesDue
  BY <1>2 DEF ChainMoves, NetworkSwitched, TokenListed, CopyExpires, BecomesDue
<1>3. ASSUME NEW c \in Calls2, Request(c) PROVE RaIsTracked'
  BY <1>3 DEF Request, Reads, NoReading
<1>4. ASSUME NEW c \in Calls2, ListTracked(c) PROVE RaIsTracked'
  BY <1>4 DEF ListTracked, Reads
<1>5. ASSUME NEW c \in Calls2, Fetch(c) PROVE RaIsTracked'
  BY <1>5 DEF Fetch, Reads, ReadingAt
<1>6. ASSUME NEW c \in Calls2, FetchFails(c) \/ ShowProfile(c) \/ Choose(c) PROVE RaIsTracked'
  BY <1>6 DEF FetchFails, ShowProfile, Choose, Reads, NoReading
<1>7. ASSUME NEW c \in Calls2, Store(c) PROVE RaIsTracked'
  BY <1>7 DEF Store, Reads, NoReading
<1> QED
  BY <1>1, <1>2, <1>3, <1>4, <1>5, <1>6, <1>7 DEF BalancesNext

\* A reading stands at what the chain holds now, and is past from then on.
LEMMA FoundStep == BalancesInv /\ [BalancesNext]_balanceVars => FoundIsPast'
<1> SUFFICES ASSUME BalancesInv, [BalancesNext]_balanceVars,
                    NEW d \in Calls2, reading'[d].stage = "storing", NEW t \in Tokens
             PROVE  WasHeld(reading[d].net, t, reading[d].found[t], reading[d].at, reading[d].blind)'
  BY DEF FoundIsPast, WasHeld
<1> USE DEF BalancesInv
<1>1. CASE reading'[d] = reading[d]
  <2>1. WasHeld(reading[d].net, t, reading[d].found[t], reading[d].at, reading[d].blind)
    BY <1>1 DEF FoundIsPast
  <2>2. QED
    BY <1>1, <2>1, PastStays DEF WasHeld
<1>2. ASSUME NEW c \in Calls2, Fetch(c), c = d
      PROVE  WasHeld(reading[d].net, t, reading[d].found[t], reading[d].at, reading[d].blind)'
  <2>1. PICK failing \in SUBSET Programs :
          reading'[d] = [reading[d] EXCEPT !.stage = "storing", !.at = clock,
                                           !.blind = failing # {},
                                           !.found = Found(reading[d].net, failing)]
    BY <1>2 DEF Fetch, Reads, BalancesShape
  <2>2. /\ reading'[d].net = reading[d].net /\ reading'[d].at = clock
        /\ reading'[d].blind = (failing # {})
        /\ reading'[d].found = Found(reading[d].net, failing)
    BY <2>1 DEF BalancesShape, IsAReading, ReadingFields
  <2>3. failing = {} => Found(reading[d].net, failing)[t] = Total(held[reading[d].net][t])
    BY DEF Found
  <2>4. past' = past /\ clock' = clock /\ past[clock + 1] = held /\ clock \in Nat
    BY <1>2 DEF Fetch, BalancesShape
  <2>5. ~reading'[d].blind => reading'[d].found[t] = Total(held[reading[d].net][t])
    <3>1. (failing # {}) \/ failing = {}
      OBVIOUS
    <3>2. CASE failing # {}
      BY <2>2, <3>2, Zenon
    <3>3. CASE failing = {}
      BY <2>2, <2>3, <3>3
    <3>4. QED
      BY <3>1, <3>2, <3>3
  <2>6. clock \in 0 .. clock'
    BY <2>4
  <2>7. QED
    BY <2>2, <2>4, <2>5, <2>6 DEF WasHeld
<1>3. CASE UNCHANGED balanceVars
  BY <1>1, <1>3 DEF balanceVars
<1>4. CASE ChainMoves \/ NetworkSwitched \/ TokenListed \/ CopyExpires \/ BecomesDue
  BY <1>1, <1>4 DEF ChainMoves, NetworkSwitched, TokenListed, CopyExpires, BecomesDue
<1>5. ASSUME NEW c \in Calls2, NEW q, Reads(c, q), c = d => q.stage # "storing"
      PROVE  reading'[d] = reading[d]
  BY <1>5 DEF Reads, BalancesShape
<1>6. ASSUME NEW c \in Calls2, Request(c) PROVE reading'[d] = reading[d]
  BY <1>6 DEF Request, Reads, NoReading, BalancesShape
<1>7. ASSUME NEW c \in Calls2, ListTracked(c) PROVE reading'[d] = reading[d]
  BY <1>7 DEF ListTracked, Reads, BalancesShape, IsAReading, ReadingFields
<1>8. ASSUME NEW c \in Calls2, Fetch(c), c # d PROVE reading'[d] = reading[d]
  BY <1>8 DEF Fetch, Reads, BalancesShape
<1>9. ASSUME NEW c \in Calls2, FetchFails(c) \/ ShowProfile(c) \/ Choose(c)
      PROVE  reading'[d] = reading[d]
  BY <1>9, <1>5 DEF FetchFails, ShowProfile, Choose, NoReading
<1>10. ASSUME NEW c \in Calls2, Store(c) PROVE reading'[d] = reading[d]
  BY <1>10 DEF Store, Reads, NoReading, BalancesShape, IsAReading, ReadingFields
<1> QED
  BY <1>1, <1>2, <1>3, <1>4, <1>6, <1>7, <1>8, <1>9, <1>10 DEF BalancesNext

\* Only Store writes rows, and it writes those of one reading.
LEMMA RowsStep == BalancesInv /\ [BalancesNext]_balanceVars => RowsArePast'
<1> SUFFICES ASSUME BalancesInv, [BalancesNext]_balanceVars,
                    NEW n \in Nets, NEW t \in Tokens, holdings'[n][t].exists
             PROVE  /\ holdings'[n][RA].exists
                    /\ holdings'[n][t].at = holdings'[n][RA].at
                    /\ WasHeld(n, t, holdings[n][t].amount, holdings[n][t].at, holdings[n][t].blind)'
  BY DEF RowsArePast, WasHeld
<1> USE DEF BalancesInv
<1>1. CASE holdings'[n] = holdings[n]
  <2>1. /\ holdings[n][RA].exists /\ holdings[n][t].at = holdings[n][RA].at
        /\ WasHeld(n, t, holdings[n][t].amount, holdings[n][t].at, holdings[n][t].blind)
    BY <1>1 DEF RowsArePast
  <2>2. QED
    BY <1>1, <2>1, PastStays DEF WasHeld
<1>2. ASSUME NEW c \in Calls2, Store(c), reading[c].net = n
      PROVE  /\ holdings'[n][RA].exists
             /\ holdings'[n][t].at = holdings'[n][RA].at
             /\ WasHeld(n, t, holdings[n][t].amount, holdings[n][t].at, holdings[n][t].blind)'
  <2> DEFINE r == reading[c]
  <2>1. holdings'[n] = Stored(r, holdings[n]) /\ past' = past /\ clock' = clock
    BY <1>2 DEF Store, BalancesShape
  <2>2. RA \in Tokens /\ RA \in r.tracked /\ r.stage = "storing"
    BY <1>2, BalancesAssumption DEF Store, ReadingAt, RaIsTracked
  <2>3. holdings'[n][RA] = Holding(r, RA)
    BY <2>1, <2>2 DEF Stored
  <2>4. holdings'[n][t] = Holding(r, t)
    BY <2>1 DEF Stored, NoHolding
  <2>5. WasHeld(n, t, r.found[t], r.at, r.blind)
    BY <1>2, <2>2 DEF FoundIsPast
  <2>6. QED
    BY <2>1, <2>3, <2>4, <2>5 DEF Holding, WasHeld
<1>3. CASE UNCHANGED balanceVars
  BY <1>1, <1>3 DEF balanceVars
<1>4. CASE ChainMoves \/ NetworkSwitched \/ TokenListed \/ CopyExpires \/ BecomesDue
  BY <1>1, <1>4 DEF ChainMoves, NetworkSwitched, TokenListed, CopyExpires, BecomesDue
<1>5. ASSUME NEW c \in Calls2, \/ Request(c) \/ ListTracked(c) \/ Fetch(c) \/ FetchFails(c)
                               \/ ShowProfile(c) \/ Choose(c)
      PROVE  holdings'[n] = holdings[n]
  BY <1>5 DEF Request, ListTracked, Fetch, FetchFails, ShowProfile, Choose
<1>6. ASSUME NEW c \in Calls2, Store(c), reading[c].net # n PROVE holdings'[n] = holdings[n]
  BY <1>6 DEF Store, BalancesShape
<1> QED
  BY <1>1, <1>2, <1>3, <1>4, <1>5, <1>6 DEF BalancesNext

LEMMA BalancesInvariance == BalancesSpec => []BalancesInv
<1>1. BalancesInv /\ [BalancesNext]_balanceVars => BalancesInv'
  BY ShapeStep, TrackedStep, FoundStep, RowsStep DEF BalancesInv
<1>2. QED
  BY InitBalancesInv, <1>1, PTL DEF BalancesSpec

\* The stored balances of a network are what the chain held at one moment, if everybody
\* answered then (syncUserTrackedOnchainBalances), for any number of tokens and requests.
THEOREM OneMoment == BalancesSpec => []HoldingsAreOneMoment
<1>1. BalancesInv => HoldingsAreOneMoment
  BY DEF BalancesInv, RowsArePast, WasHeld, HoldingsAreOneMoment
<1>2. QED
  BY <1>1, BalancesInvariance, PTL

\* What the shape of balances rests on: accounts hold natural amounts, and a reading is of a
\* network there is.
BalancesTyped ==
    /\ BalancesTypeOK
    /\ held \in [Nets -> [Tokens -> [1 .. 2 -> Nat]]]
    /\ \A c \in Calls2 :
          /\ reading[c].net \in Nets
          /\ reading[c].stage = "storing" => \A t \in Tokens : reading[c].found[t] \in Nat

LEMMA InitBalancesTyped == BalancesInit => BalancesTyped
<1> SUFFICES ASSUME BalancesInit PROVE BalancesTyped
  OBVIOUS
<1> USE DEF BalancesInit
<1>1. held \in [Nets -> [Tokens -> [1 .. 2 -> Nat]]]
  <2>1. <<0, 0>> \in [1 .. 2 -> Nat]
    OBVIOUS
  <2>2. Nothing \in [Tokens -> [1 .. 2 -> Nat]]
    BY <2>1 DEF Nothing
  <2> QED
    BY <2>2
<1>2. ASSUME NEW c \in Calls2 PROVE reading[c].net \in Nets /\ reading[c].stage = "none"
  BY DEF NoReading
<1>3. BalancesTypeOK
  BY DEF BalancesTypeOK, NoHolding
<1> QED
  BY <1>1, <1>2, <1>3 DEF BalancesTyped

LEMMA TotalIsNat ==
  ASSUME BalancesTyped, NEW n \in Nets, NEW t \in Tokens
  PROVE  Total(held[n][t]) \in Nat
<1>1. held[n][t] \in [1 .. 2 -> Nat]
  BY DEF BalancesTyped
<1>2. held[n][t][1] \in Nat /\ held[n][t][2] \in Nat
  BY <1>1
<1> QED
  BY <1>2 DEF Total

\* A request whose reading is set to one of a network there is.
LEMMA ReadingTyped ==
  ASSUME BalancesShape, BalancesTyped, NEW c \in Calls2, NEW q, Reads(c, q), q.net \in Nets,
         q.stage = "storing" => \A t \in Tokens : q.found[t] \in Nat
  PROVE  \A d \in Calls2 :
            /\ reading'[d].net \in Nets
            /\ reading'[d].stage = "storing" => \A t \in Tokens : reading'[d].found[t] \in Nat
<1>1. reading'[c] = q /\ \A d \in Calls2 \ {c} : reading'[d] = reading[d]
  BY DEF Reads, BalancesShape
<1> QED
  BY <1>1 DEF BalancesTyped

LEMMA NetworkIsOne == ASSUME BalancesTyped PROVE Network \in Nets
<1>1. CASE cachedNet = {}
  BY <1>1 DEF Network, BalancesTyped, BalancesTypeOK
<1>2. CASE cachedNet # {}
  BY <1>2 DEF Network, BalancesTyped, BalancesTypeOK
<1> QED
  BY <1>1, <1>2

LEMMA BalancesTypedStep ==
  BalancesShape /\ RaIsTracked /\ BalancesTyped /\ [BalancesNext]_balanceVars => BalancesTyped'
<1> SUFFICES ASSUME BalancesShape, RaIsTracked, BalancesTyped, [BalancesNext]_balanceVars PROVE BalancesTyped'
  OBVIOUS
<1>1. CASE UNCHANGED balanceVars
  BY <1>1 DEF balanceVars, BalancesTyped, BalancesTypeOK
<1>2. CASE ChainMoves
  <2>1. PICK n \in Nets, t \in Tokens, a \in Amounts : \E i \in 1 .. AccountsOf[t] :
          a # held[n][t][i] /\ held' = [held EXCEPT ![n][t][i] = a]
    BY <1>2, Zenon DEF ChainMoves
  <2>2. PICK i \in 1 .. AccountsOf[t] : held' = [held EXCEPT ![n][t][i] = a]
    BY <2>1, Zenon
  <2>3. a \in Nat
    BY BalancesAssumption
  <2>4. held' \in [Nets -> [Tokens -> [1 .. 2 -> Nat]]]
    BY <2>2, <2>3 DEF BalancesTyped
  <2>5. UNCHANGED <<headerNet, cachedNet, listed, due, raBalance, holdings, reading>>
    BY <1>2 DEF ChainMoves
  <2> QED
    BY <2>4, <2>5 DEF BalancesTyped, BalancesTypeOK
<1>3. CASE NetworkSwitched
  BY <1>3 DEF NetworkSwitched, BalancesTyped, BalancesTypeOK
<1>4. CASE TokenListed
  <2>1. listed' \subseteq Tokens
    BY <1>4, BalancesAssumption DEF TokenListed, BalancesTyped, BalancesTypeOK
  <2> QED
    BY <1>4, <2>1 DEF TokenListed, BalancesTyped, BalancesTypeOK
<1>5. CASE CopyExpires \/ BecomesDue
  BY <1>5 DEF CopyExpires, BecomesDue, BalancesTyped, BalancesTypeOK
<1>6. ASSUME NEW c \in Calls2, NEW q, Reads(c, q), q.net \in Nets,
             q.stage = "storing" => \A t \in Tokens : q.found[t] \in Nat,
             held' = held, BalancesTypeOK'
      PROVE  BalancesTyped'
  BY <1>6, ReadingTyped DEF BalancesTyped
<1>7. ASSUME NEW c \in Calls2, Request(c) PROVE BalancesTyped'
  <2>1. PICK kind \in {"profile", "session", "convert"} :
          Reads(c, [NoReading EXCEPT !.kind = kind, !.net = Network,
                      !.stage = IF kind = "profile" /\ ~due THEN "showing" ELSE "listing"])
    BY <1>7 DEF Request
  <2>2. PICK q : q = [NoReading EXCEPT !.kind = kind, !.net = Network,
                        !.stage = IF kind = "profile" /\ ~due THEN "showing" ELSE "listing"]
    OBVIOUS
  <2>3. q.net = Network /\ q.stage # "storing"
    BY <2>2 DEF NoReading
  <2>4. held' = held /\ cachedNet' = {Network}
        /\ UNCHANGED <<headerNet, listed, holdings, raBalance, due>>
    BY <1>7 DEF Request
  <2>5. BalancesTypeOK'
    BY <2>4, NetworkIsOne DEF BalancesTyped, BalancesTypeOK
  <2> QED
    BY <1>6, <2>1, <2>2, <2>3, <2>4, <2>5, NetworkIsOne
<1>8. ASSUME NEW c \in Calls2, ListTracked(c) PROVE BalancesTyped'
  <2>1. PICK q : q = [reading[c] EXCEPT !.stage = "fetching", !.tracked = listed \cup {RA}]
    OBVIOUS
  <2>2. q.net = reading[c].net /\ q.stage = "fetching"
    BY <2>1 DEF BalancesShape, IsAReading, ReadingFields
  <2>3. q.net \in Nets /\ q.stage # "storing"
    BY <2>2 DEF BalancesTyped
  <2>4. Reads(c, q) /\ held' = held /\ BalancesTypeOK'
    BY <1>8, <2>1 DEF ListTracked, BalancesTyped, BalancesTypeOK
  <2> QED
    BY <1>6, <2>3, <2>4
<1>9. ASSUME NEW c \in Calls2, Fetch(c) PROVE BalancesTyped'
  <2>1. PICK failing \in SUBSET Programs :
          Reads(c, [reading[c] EXCEPT !.stage = "storing", !.at = clock, !.blind = failing # {},
                      !.found = Found(reading[c].net, failing)])
    BY <1>9 DEF Fetch
  <2>2. PICK q : q = [reading[c] EXCEPT !.stage = "storing", !.at = clock, !.blind = failing # {},
                      !.found = Found(reading[c].net, failing)]
    OBVIOUS
  <2>3. q.net = reading[c].net /\ q.found = Found(reading[c].net, failing)
    BY <2>2 DEF BalancesShape, IsAReading, ReadingFields
  <2>4. reading[c].net \in Nets
    BY DEF BalancesTyped
  <2>5. \A t \in Tokens : Found(reading[c].net, failing)[t] \in Nat
    BY <2>4, TotalIsNat DEF Found
  <2>6. held' = held /\ BalancesTypeOK'
    BY <1>9 DEF Fetch, BalancesTyped, BalancesTypeOK
  <2> QED
    BY <1>6, <2>1, <2>2, <2>3, <2>4, <2>5, <2>6
<1>10. NoReading.net \in Nets /\ NoReading.stage = "none"
  BY DEF NoReading, BalancesTyped, BalancesTypeOK
<1>11. ASSUME NEW c \in Calls2, FetchFails(c) \/ ShowProfile(c) \/ Choose(c) PROVE BalancesTyped'
  <2>1. Reads(c, NoReading) /\ held' = held
        /\ UNCHANGED <<headerNet, cachedNet, listed, holdings, raBalance, due>>
    BY <1>11 DEF FetchFails, ShowProfile, Choose
  <2>2. BalancesTypeOK'
    BY <2>1 DEF BalancesTyped, BalancesTypeOK
  <2> QED
    BY <1>6, <1>10, <2>1, <2>2
<1>12. ASSUME NEW c \in Calls2, Store(c) PROVE BalancesTyped'
  <2>1. reading[c].stage = "storing" /\ reading[c].net \in Nets
    BY <1>12 DEF Store, ReadingAt, BalancesTyped
  <2>2. PICK q : Reads(c, q) /\ q.net \in Nets /\ q.stage # "storing"
    <3>1. CASE reading[c].kind = "profile"
      <4>1. PICK q : q = [reading[c] EXCEPT !.stage = "showing"]
        OBVIOUS
      <4>2. q.net = reading[c].net /\ q.stage = "showing"
        BY <4>1 DEF BalancesShape, IsAReading, ReadingFields
      <4>3. Reads(c, q)
        BY <1>12, <3>1, <4>1 DEF Store
      <4> QED
        BY <2>1, <4>2, <4>3
    <3>2. CASE reading[c].kind = "session"
      <4>1. Reads(c, NoReading)
        BY <1>12, <3>2 DEF Store
      <4> QED
        BY <1>10, <4>1
    <3>3. CASE reading[c].kind = "convert"
      <4>1. PICK q : q = [reading[c] EXCEPT !.stage = "choosing"]
        OBVIOUS
      <4>2. q.net = reading[c].net /\ q.stage = "choosing"
        BY <4>1 DEF BalancesShape, IsAReading, ReadingFields
      <4>3. Reads(c, q)
        BY <1>12, <3>3, <4>1 DEF Store
      <4> QED
        BY <2>1, <4>2, <4>3
    <3> QED
      BY <3>1, <3>2, <3>3 DEF BalancesShape, IsAReading
  <2>3. held' = held /\ UNCHANGED <<headerNet, cachedNet, listed>> /\ due' = FALSE
        /\ raBalance' = [amount |-> reading[c].found[RA], net |-> reading[c].net,
                         at |-> reading[c].at, blind |-> reading[c].blind]
        /\ holdings' = [holdings EXCEPT ![reading[c].net] = Stored(reading[c], @)]
    BY <1>12 DEF Store
  <2>4. raBalance'.amount \in Nat
    BY <2>1, <2>3, BalancesAssumption DEF BalancesTyped
  <2>5. ASSUME NEW n \in Nets, NEW t \in Tokens PROVE holdings'[n][t].exists \in BOOLEAN
    <3>1. CASE n = reading[c].net
      <4>1. holdings'[n][t] = IF t \in reading[c].tracked THEN Holding(reading[c], t) ELSE NoHolding
        BY <2>3, <3>1 DEF Stored, BalancesShape
      <4> QED
        BY <4>1 DEF Holding, NoHolding
    <3>2. CASE n # reading[c].net
      <4>1. holdings'[n] = holdings[n]
        BY <2>3, <3>2 DEF BalancesShape
      <4> QED
        BY <4>1 DEF BalancesTyped, BalancesTypeOK
    <3> QED
      BY <3>1, <3>2
  <2>6. BalancesTypeOK'
    BY <2>3, <2>4, <2>5 DEF BalancesTyped, BalancesTypeOK
  <2> QED
    BY <1>6, <2>2, <2>3, <2>6
<1> QED
  BY <1>1, <1>2, <1>3, <1>4, <1>5, <1>7, <1>8, <1>9, <1>11, <1>12 DEF BalancesNext

LEMMA BalancesStayTyped == BalancesSpec => []BalancesTyped
  BY InitBalancesTyped, BalancesTypedStep, BalancesInvariance, PTL DEF BalancesSpec, BalancesInv

--------------------------------------------------------------------------------
(* The presence sessions of a wallet.                                         *)

\* A request that works on a session works on one there is, and closes what it read open;
\* so does a sweep, and the browser's key is on one there is.
WorksOnOne(c) ==
    call[c].stage \in {"touching", "beating", "refreshing", "barring", "ending", "closing"}
CallsKnowTheirSession ==
    /\ \A c \in Callers :
          /\ WorksOnOne(c) => call[c].session \in Sessions /\ row[call[c].session].exists
          /\ call[c].stage \in {"barring", "closing"} => call[c].open
    /\ \A w \in Sweepers : \A old \in sweep[w] : row[old.session].exists
    /\ \A s \in keyed : row[s].exists

\* What is open is online and has no duration yet.
OpenRowsAreNew ==
    \A s \in Sessions :
        /\ ~row[s].exists => ~row[s].ended
        /\ ~row[s].ended => row[s].duration = 0
        /\ OpenRow(s) => row[s].online

\* Blocking closes what is open, so that only what was created since is.
OpenIsLate == blocked => \A s \in Sessions : OpenRow(s) => s \in late

SessionsInv ==
    /\ SessionTypeOK /\ CallsKnowTheirSession /\ OpenRowsAreNew /\ TotalIsTheSum /\ OpenIsLate

LEMMA SpanIsTime == ASSUME NEW from \in Time, NEW to \in Time PROVE Span(from, to) \in Time
  BY SessionAssumption DEF Span, Time

\* A step that leaves the rows and the total alone.
LEMMA RowsLeftAlone ==
  ASSUME SessionsInv, UNCHANGED <<total, row, overlapped>>
  PROVE  OpenRowsAreNew' /\ TotalIsTheSum'
  BY DEF SessionsInv, OpenRowsAreNew, TotalIsTheSum, Counted, OpenRow

\* The total where one row changes its duration.
LEMMA CountedMoves ==
  ASSUME SessionsInv, row' \in [Sessions -> RowRecords], NEW s \in Sessions,
         \A x \in Sessions \ {s} : row'[x].duration = row[x].duration
  PROVE  /\ Counted' = Counted + (row'[s].duration - row[s].duration)
         /\ Counted \in Int
<1>1. PICK f : f = [x \in Sessions |-> row[x].duration]
  OBVIOUS
<1>2. PICK h : h = [x \in Sessions |-> row'[x].duration]
  OBVIOUS
<1>3. \A x \in Sessions : row[x].duration \in Nat /\ row'[x].duration \in Nat
  BY DEF SessionsInv, SessionTypeOK, RowRecords, Time
<1>4. \A x \in Sessions : f[x] \in Int /\ h[x] \in Int
  BY <1>1, <1>2, <1>3
<1>5. \A x \in Sessions \ {s} : f[x] = h[x]
  BY <1>1, <1>2
<1>6. SumFunction(h) = SumFunction(f) + (h[s] - f[s]) /\ SumFunction(f) \in Int
  <2>1. f = [x \in Sessions |-> f[x]] /\ h = [x \in Sessions |-> h[x]]
    BY <1>1, <1>2
  <2> QED
    BY <1>4, <1>5, <2>1, SessionAssumption, WholeSumMoves
<1>7. Counted = SumFunction(f) /\ Counted' = SumFunction(h)
  BY <1>1, <1>2 DEF Counted
<1>8. h[s] = row'[s].duration /\ f[s] = row[s].duration
  BY <1>1, <1>2
<1> QED
  BY <1>6, <1>7, <1>8

\* A row that is seen again keeps its duration, and stays as ended as it was.
LEMMA RowSeen ==
  ASSUME SessionsInv, NEW s \in Sessions, NEW at \in Time,
         row' = [row EXCEPT ![s] = TouchedRow(@, at)], UNCHANGED <<total, overlapped, blocked, late>>
  PROVE  row' \in [Sessions -> RowRecords] /\ OpenRowsAreNew' /\ TotalIsTheSum' /\ OpenIsLate'
<1>1. row'[s] = TouchedRow(row[s], at) /\ \A x \in Sessions \ {s} : row'[x] = row[x]
  BY DEF SessionsInv, SessionTypeOK
<1>2. /\ row'[s].exists = row[s].exists /\ row'[s].ended = row[s].ended
      /\ row'[s].duration = row[s].duration /\ row'[s].online = TRUE
      /\ row'[s] \in RowRecords
  BY <1>1 DEF SessionsInv, SessionTypeOK, TouchedRow, RowRecords
<1>3. row' \in [Sessions -> RowRecords]
  BY <1>2 DEF SessionsInv, SessionTypeOK
<1>4. Counted' = Counted
  <2>1. Counted' = Counted + (row'[s].duration - row[s].duration) /\ Counted \in Int
    BY <1>1, <1>3, CountedMoves
  <2>2. row[s].duration \in Int
    BY DEF SessionsInv, SessionTypeOK, RowRecords, Time
  <2> QED
    BY <1>2, <2>1, <2>2
<1>5. OpenRowsAreNew' /\ OpenIsLate'
  BY <1>1, <1>2 DEF SessionsInv, OpenRowsAreNew, OpenIsLate, OpenRow
<1> QED
  BY <1>3, <1>4, <1>5 DEF SessionsInv, TotalIsTheSum

\* Closing a row adds its span to the total; only a row that was closed meanwhile makes the
\* total more than the sum.
LEMMA RowClosed ==
  ASSUME SessionsInv, NEW s \in Sessions, row[s].exists, NEW seen \in Time, NEW span \in Time,
         NEW readOpen, readOpen, Close(s, seen, span, readOpen), UNCHANGED <<blocked, late>>
  PROVE  /\ row' \in [Sessions -> RowRecords] /\ total' \in Nat /\ overlapped' \in BOOLEAN
         /\ OpenRowsAreNew' /\ TotalIsTheSum' /\ OpenIsLate'
<1> USE DEF Close
<1>1. /\ row'[s] = [row[s] EXCEPT !.online = FALSE, !.ended = TRUE, !.seen = seen, !.duration = span]
      /\ \A x \in Sessions \ {s} : row'[x] = row[x]
  BY DEF SessionsInv, SessionTypeOK
<1>2. /\ row'[s].exists = row[s].exists /\ row'[s].ended = TRUE /\ row'[s].duration = span
      /\ row'[s] \in RowRecords
  BY <1>1 DEF SessionsInv, SessionTypeOK, RowRecords
<1>3. row' \in [Sessions -> RowRecords]
  BY <1>2 DEF SessionsInv, SessionTypeOK
<1>4. Counted' = Counted + (span - row[s].duration) /\ Counted \in Int
  BY <1>1, <1>2, <1>3, CountedMoves
<1>5. span \in Nat /\ row[s].duration \in Nat /\ total \in Nat /\ total' = total + span
  BY DEF SessionsInv, SessionTypeOK, RowRecords, Time
<1>6. ~overlapped' => ~overlapped /\ ~row[s].ended
  OBVIOUS
<1>7. TotalIsTheSum'
  <2>1. total' >= Counted'
    BY <1>4, <1>5 DEF SessionsInv, TotalIsTheSum
  <2>2. ASSUME ~overlapped' PROVE total' = Counted'
    <3>1. total = Counted /\ row[s].duration = 0
      BY <1>6, <2>2 DEF SessionsInv, TotalIsTheSum, OpenRowsAreNew
    <3> QED
      BY <1>4, <1>5, <3>1
  <2> QED
    BY <2>1, <2>2 DEF TotalIsTheSum
<1>8. ASSUME NEW x \in Sessions
      PROVE  /\ ~row'[x].exists => ~row'[x].ended
             /\ ~row'[x].ended => row'[x].duration = 0
             /\ OpenRow(x)' => OpenRow(x) /\ row'[x].online
  <2>1. CASE x = s
    BY <1>2, <2>1 DEF OpenRow
  <2>2. CASE x # s
    BY <1>1, <2>2 DEF SessionsInv, OpenRowsAreNew, OpenRow
  <2> QED
    BY <2>1, <2>2
<1>9. OpenRowsAreNew' /\ OpenIsLate'
  BY <1>8 DEF SessionsInv, OpenRowsAreNew, OpenIsLate
<1>10. total' \in Nat /\ overlapped' \in BOOLEAN
  BY <1>5 DEF SessionsInv, SessionTypeOK
<1> QED
  BY <1>3, <1>7, <1>9, <1>10

CallRecords ==
    [stage: Stages, session: Sessions \cup {NoSession}, at: Time, key: BOOLEAN, open: BOOLEAN]

\* What remains of the invariant where the rows are left alone.
LEMMA CallMoves ==
  ASSUME SessionsInv, NEW c \in Callers, NEW q \in CallRecords, call' = [call EXCEPT ![c] = q],
         /\ q.stage \in {"touching", "beating", "refreshing", "barring", "ending", "closing"}
               => q.session \in Sessions /\ row[q.session].exists
         /\ q.stage \in {"barring", "closing"} => q.open,
         calls' \in 0 .. MaxCalls,
         UNCHANGED <<now, blocked, total, row, keyed, sweep, overlapped, late>>
  PROVE  SessionsInv'
<1>1. call' \in [Callers -> CallRecords] /\ call'[c] = q /\ \A d \in Callers \ {c} : call'[d] = call[d]
  BY DEF SessionsInv, SessionTypeOK, CallRecords
<1>2. SessionTypeOK'
  BY <1>1 DEF SessionsInv, SessionTypeOK, CallRecords, Time
<1>3. CallsKnowTheirSession'
  <2>1. ASSUME NEW d \in Callers
        PROVE  /\ WorksOnOne(d)' => call'[d].session \in Sessions /\ row'[call'[d].session].exists
               /\ call'[d].stage \in {"barring", "closing"} => call'[d].open
    BY <1>1 DEF WorksOnOne, CallsKnowTheirSession, SessionsInv
  <2> QED
    BY <2>1 DEF CallsKnowTheirSession, SessionsInv
<1>4. OpenIsLate'
  BY DEF SessionsInv, OpenIsLate, OpenRow
<1> QED
  BY <1>2, <1>3, <1>4, RowsLeftAlone DEF SessionsInv

LEMMA IdleIsACall == IdleCall \in CallRecords
  BY SessionAssumption DEF IdleCall, CallRecords, Stages, Time

\* A step of a request that reads, or fails.
ReadsOnly(c) ==
    \/ BeginStart(c) \/ TimeStart(c) \/ FindByKey(c) \/ BeginHeartbeat(c) \/ ReadForHeartbeat(c)
    \/ BeginEnd(c) \/ ReadForEnd(c) \/ CallFails(c)

LEMMA ReadingKeeps == ASSUME SessionsInv, NEW c \in Callers, ReadsOnly(c) PROVE SessionsInv'
<1> USE DEF CallRecords, Stages
<1>1. call[c] \in CallRecords /\ calls \in 0 .. MaxCalls /\ now \in Time
  BY DEF SessionsInv, SessionTypeOK
<1>2. /\ WorksOnOne(c) => call[c].session \in Sessions /\ row[call[c].session].exists
      /\ call[c].stage \in {"barring", "closing"} => call[c].open
  BY DEF SessionsInv, CallsKnowTheirSession
<1>3. Calls(c) => calls' \in 0 .. MaxCalls
  BY <1>1, SessionAssumption DEF Calls
<1>4. ASSUME Ends(c), UNCHANGED <<now, blocked, total, row, keyed, sweep, overlapped, late, calls>>
      PROVE  SessionsInv'
  BY <1>1, <1>4, IdleIsACall, CallMoves DEF Ends, IdleCall
<1>5. CASE BeginStart(c)
  <2>1. PICK key \in BOOLEAN :
          call' = [call EXCEPT ![c] = [call[c] EXCEPT !.stage = "starting", !.key = key]]
    BY <1>5 DEF BeginStart
  <2>2. PICK q : q = [call[c] EXCEPT !.stage = "starting", !.key = key]
    OBVIOUS
  <2>3. q \in CallRecords /\ q.stage = "starting" /\ call' = [call EXCEPT ![c] = q]
    BY <1>1, <2>1, <2>2
  <2>4. UNCHANGED <<now, blocked, total, row, keyed, sweep, overlapped, late>> /\ calls' \in 0 .. MaxCalls
    BY <1>3, <1>5 DEF BeginStart
  <2> HIDE DEF CallRecords
  <2> QED
    BY <2>3, <2>4, CallMoves
<1>6. CASE TimeStart(c)
  <2>1. PICK q : q = [call[c] EXCEPT !.stage = IF call[c].key THEN "finding" ELSE "creating", !.at = now]
    OBVIOUS
  <2>2. q \in CallRecords /\ q.stage \in {"finding", "creating"} /\ call' = [call EXCEPT ![c] = q]
    BY <1>1, <1>6, <2>1 DEF TimeStart
  <2>3. UNCHANGED <<now, blocked, total, row, keyed, sweep, overlapped, late, calls>>
    BY <1>6 DEF TimeStart
  <2> HIDE DEF CallRecords
  <2> QED
    BY <1>1, <2>2, <2>3, CallMoves
<1>7. CASE FindByKey(c)
  <2>1. UNCHANGED <<now, blocked, total, row, keyed, sweep, overlapped, late, calls>>
    BY <1>7 DEF FindByKey
  <2>2. CASE \E s \in keyed : OpenRow(s)
    <3>1. PICK s : s = CHOOSE x \in keyed : TRUE
      OBVIOUS
    <3>2. s \in keyed
      BY <2>2, <3>1
    <3>3. s \in Sessions /\ row[s].exists
      BY <3>2 DEF SessionsInv, SessionTypeOK, CallsKnowTheirSession
    <3>4. PICK q : q = [call[c] EXCEPT !.stage = "touching", !.session = s]
      OBVIOUS
    <3>5. q \in CallRecords /\ q.stage = "touching" /\ q.session = s
      BY <1>1, <3>3, <3>4
    <3>6. call' = [call EXCEPT ![c] = q]
      BY <1>7, <2>2, <3>1, <3>4 DEF FindByKey
    <3> HIDE DEF CallRecords
    <3> QED
      BY <1>1, <2>1, <3>3, <3>5, <3>6, CallMoves
  <2>3. CASE ~\E s \in keyed : OpenRow(s)
    <3>1. PICK q : q = [call[c] EXCEPT !.stage = "creating"]
      OBVIOUS
    <3>2. q \in CallRecords /\ q.stage = "creating" /\ call' = [call EXCEPT ![c] = q]
      BY <1>1, <1>7, <2>3, <3>1 DEF FindByKey, GoesTo
    <3> HIDE DEF CallRecords
    <3> QED
      BY <1>1, <2>1, <3>2, CallMoves
  <2> QED
    BY <2>2, <2>3
<1>8. CASE BeginHeartbeat(c) \/ BeginEnd(c)
  <2>1. PICK s \in Sessions, stage \in {"beating", "ending"} :
          /\ row[s].exists
          /\ call' = [call EXCEPT ![c] = [call[c] EXCEPT !.stage = stage, !.session = s, !.at = now]]
    BY <1>8 DEF BeginHeartbeat, BeginEnd
  <2>2. PICK q : q = [call[c] EXCEPT !.stage = stage, !.session = s, !.at = now]
    OBVIOUS
  <2>3. q \in CallRecords /\ q.stage = stage /\ q.session = s /\ call' = [call EXCEPT ![c] = q]
    BY <1>1, <2>1, <2>2
  <2>4. UNCHANGED <<now, blocked, total, row, keyed, sweep, overlapped, late>> /\ calls' \in 0 .. MaxCalls
    BY <1>3, <1>8 DEF BeginHeartbeat, BeginEnd
  <2> HIDE DEF CallRecords
  <2> QED
    BY <2>1, <2>3, <2>4, CallMoves
<1>9. CASE ReadForHeartbeat(c)
  <2>1. UNCHANGED <<now, blocked, total, row, keyed, sweep, overlapped, late, calls>>
    BY <1>9 DEF ReadForHeartbeat
  <2>2. call[c].session \in Sessions /\ row[call[c].session].exists
    BY <1>2, <1>9 DEF ReadForHeartbeat, WorksOnOne
  <2>3. CASE OpenRow(call[c].session)
    <3>1. PICK q : q = [call[c] EXCEPT !.stage = IF blocked THEN "barring" ELSE "refreshing", !.open = TRUE]
      OBVIOUS
    <3>2. q \in CallRecords /\ q.open = TRUE /\ q.session = call[c].session
      BY <1>1, <3>1
    <3>3. call' = [call EXCEPT ![c] = q]
      BY <1>9, <2>3, <3>1 DEF ReadForHeartbeat
    <3> HIDE DEF CallRecords
    <3> QED
      BY <1>1, <2>1, <2>2, <3>2, <3>3, CallMoves
  <2>4. CASE ~OpenRow(call[c].session) /\ ~blocked
    <3>1. PICK q : q = [call[c] EXCEPT !.stage = "starting"]
      OBVIOUS
    <3>2. q \in CallRecords /\ q.stage = "starting" /\ call' = [call EXCEPT ![c] = q]
      BY <1>1, <1>9, <2>4, <3>1 DEF ReadForHeartbeat, GoesTo
    <3> HIDE DEF CallRecords
    <3> QED
      BY <1>1, <2>1, <3>2, CallMoves
  <2>5. CASE ~OpenRow(call[c].session) /\ blocked
    BY <1>4, <1>9, <2>1, <2>5 DEF ReadForHeartbeat
  <2> QED
    BY <2>3, <2>4, <2>5
<1>10. CASE ReadForEnd(c)
  <2>1. UNCHANGED <<now, blocked, total, row, keyed, sweep, overlapped, late, calls>>
    BY <1>10 DEF ReadForEnd
  <2>2. call[c].session \in Sessions /\ row[call[c].session].exists
    BY <1>2, <1>10 DEF ReadForEnd, WorksOnOne
  <2>3. CASE OpenRow(call[c].session)
    <3>1. PICK q : q = [call[c] EXCEPT !.stage = "closing", !.open = OpenRow(call[c].session)]
      OBVIOUS
    <3>2. OpenRow(call[c].session) \in BOOLEAN
      BY <2>2 DEF OpenRow
    <3>3. q \in CallRecords
      BY <1>1, <3>1, <3>2
    <3>4. q.open = OpenRow(call[c].session) /\ q.session = call[c].session
      BY <1>1, <3>1
    <3>5. call' = [call EXCEPT ![c] = q]
      BY <1>10, <2>3, <3>1 DEF ReadForEnd, MayEnd
    <3>6. q.open
      BY <2>3, <3>4
    <3> HIDE DEF CallRecords
    <3> QED
      BY <1>1, <2>1, <2>2, <3>3, <3>4, <3>5, <3>6, CallMoves
  <2>4. CASE ~OpenRow(call[c].session)
    BY <1>4, <1>10, <2>1, <2>4 DEF ReadForEnd, MayEnd
  <2> QED
    BY <2>3, <2>4
<1>11. CASE CallFails(c)
  BY <1>4, <1>11 DEF CallFails
<1> QED
  BY <1>5, <1>6, <1>7, <1>8, <1>9, <1>10, <1>11 DEF ReadsOnly

\* What remains of the invariant where a request writes a row and is done.
LEMMA CallEnds ==
  ASSUME SessionsInv, NEW c \in Callers, Ends(c), UNCHANGED <<now, blocked, sweep, calls>>,
         row' \in [Sessions -> RowRecords], \A s \in Sessions : row[s].exists => row'[s].exists,
         total' \in Nat, overlapped' \in BOOLEAN, late' \subseteq Sessions,
         keyed' \subseteq Sessions, Cardinality(keyed') <= 1, \A s \in keyed' : row'[s].exists,
         OpenRowsAreNew', TotalIsTheSum', OpenIsLate'
  PROVE  SessionsInv'
<1>1. call' \in [Callers -> CallRecords] /\ call'[c] = IdleCall /\ \A d \in Callers \ {c} : call'[d] = call[d]
  BY IdleIsACall DEF SessionsInv, SessionTypeOK, CallRecords, Ends
<1>2. SessionTypeOK'
  BY <1>1 DEF SessionsInv, SessionTypeOK, CallRecords, Time
<1>3. ASSUME NEW d \in Callers
      PROVE  /\ WorksOnOne(d)' => call'[d].session \in Sessions /\ row'[call'[d].session].exists
             /\ call'[d].stage \in {"barring", "closing"} => call'[d].open
  <2>1. CASE d = c
    BY <1>1, <2>1 DEF WorksOnOne, IdleCall
  <2>2. CASE d # c
    BY <1>1, <2>2 DEF WorksOnOne, CallsKnowTheirSession, SessionsInv
  <2> QED
    BY <2>1, <2>2
<1>4. \A w \in Sweepers : \A old \in sweep'[w] : row'[old.session].exists
  <2>1. SUFFICES ASSUME NEW w \in Sweepers, NEW old \in sweep[w] PROVE row'[old.session].exists
    OBVIOUS
  <2>2. row[old.session].exists /\ old.session \in Sessions
    BY DEF SessionsInv, SessionTypeOK, CallsKnowTheirSession
  <2> QED
    BY <2>2
<1>5. CallsKnowTheirSession'
  BY <1>3, <1>4 DEF CallsKnowTheirSession
<1> QED
  BY <1>2, <1>5 DEF SessionsInv

LEMMA KeyedIsOne ==
  ASSUME SessionsInv
  PROVE  keyed \subseteq Sessions /\ Cardinality(keyed) <= 1 /\ \A s \in keyed : s \in Sessions /\ row[s].exists
  BY DEF SessionsInv, SessionTypeOK, CallsKnowTheirSession

LEMMA SeeingKeeps == ASSUME SessionsInv, NEW c \in Callers, Touch(c) \/ Refresh(c) PROVE SessionsInv'
<1>1. PICK s \in Sessions, at \in Time : s = call[c].session /\ at = call[c].at
  BY DEF SessionsInv, CallsKnowTheirSession, WorksOnOne, Touch, Refresh, SessionTypeOK
<1>2. row' = [row EXCEPT ![s] = TouchedRow(@, at)]
  BY <1>1 DEF Touch, Refresh
<1>3. UNCHANGED <<total, overlapped, blocked, late, now, keyed, sweep, calls>> /\ Ends(c)
  BY DEF Touch, Refresh
<1>4. row' \in [Sessions -> RowRecords] /\ OpenRowsAreNew' /\ TotalIsTheSum' /\ OpenIsLate'
  BY <1>2, <1>3, RowSeen
<1>5. \A x \in Sessions : row[x].exists => row'[x].exists
  BY <1>2 DEF TouchedRow, SessionsInv, SessionTypeOK, RowRecords
<1>6. total \in Nat /\ overlapped \in BOOLEAN /\ late \subseteq Sessions
  BY DEF SessionsInv, SessionTypeOK
<1> QED
  BY <1>3, <1>4, <1>5, <1>6, KeyedIsOne, CallEnds

LEMMA CloserKeeps == ASSUME SessionsInv, NEW c \in Callers, Bar(c) \/ CloseAtEnd(c) PROVE SessionsInv'
<1>1. call[c].stage \in {"barring", "closing"}
  BY DEF Bar, CloseAtEnd
<1>2. PICK s \in Sessions, at \in Time : s = call[c].session /\ at = call[c].at /\ row[s].exists
  BY <1>1 DEF SessionsInv, CallsKnowTheirSession, WorksOnOne, SessionTypeOK
<1>3. PICK span \in Time : span = Span(row[s].started, at)
  <2>1. row[s].started \in Time
    BY DEF SessionsInv, SessionTypeOK, RowRecords
  <2> QED
    BY <2>1, SpanIsTime
<1>4. call[c].open
  BY <1>1 DEF SessionsInv, CallsKnowTheirSession
<1>5. Close(s, at, span, call[c].open)
  BY <1>2, <1>3 DEF Bar, CloseAtEnd
<1>6. UNCHANGED <<now, blocked, keyed, sweep, late, calls>> /\ Ends(c)
  BY DEF Bar, CloseAtEnd
<1>7. /\ row' \in [Sessions -> RowRecords] /\ total' \in Nat /\ overlapped' \in BOOLEAN
      /\ OpenRowsAreNew' /\ TotalIsTheSum' /\ OpenIsLate'
  BY <1>2, <1>4, <1>5, <1>6, RowClosed
<1>8. \A x \in Sessions : row[x].exists => row'[x].exists
  BY <1>5 DEF Close, SessionsInv, SessionTypeOK, RowRecords
<1>9. late \subseteq Sessions
  BY DEF SessionsInv, SessionTypeOK
<1> QED
  BY <1>6, <1>7, <1>8, <1>9, KeyedIsOne, CallEnds

LEMMA CreateKeeps == ASSUME SessionsInv, NEW c \in Callers, Create(c) PROVE SessionsInv'
<1>1. UNCHANGED <<now, blocked, total, sweep, overlapped, calls>> /\ Ends(c)
  BY DEF Create
<1>2. total \in Nat /\ overlapped \in BOOLEAN /\ late \subseteq Sessions /\ row \in [Sessions -> RowRecords]
  BY DEF SessionsInv, SessionTypeOK
<1>3. CASE call[c].key /\ keyed # {}
  <2>1. UNCHANGED <<row, keyed, late>>
    BY <1>3 DEF Create
  <2>2. OpenRowsAreNew' /\ TotalIsTheSum'
    BY <1>1, <2>1, RowsLeftAlone
  <2>3. OpenIsLate'
    BY <1>1, <2>1 DEF SessionsInv, OpenIsLate, OpenRow
  <2> QED
    BY <1>1, <1>2, <2>1, <2>2, <2>3, KeyedIsOne, CallEnds
<1>4. CASE ~(call[c].key /\ keyed # {})
  <2>1. PICK s \in Sessions :
          /\ ~row[s].exists
          /\ row' = [row EXCEPT ![s] =
               [exists |-> TRUE, online |-> TRUE, ended |-> FALSE,
                started |-> call[c].at, seen |-> call[c].at, duration |-> 0]]
          /\ keyed' = IF call[c].key THEN {s} ELSE keyed
          /\ late' = IF blocked THEN late \cup {s} ELSE late
    BY <1>4 DEF Create
  <2>2. call[c].at \in Time /\ 0 \in Time
    BY SessionAssumption DEF SessionsInv, SessionTypeOK, Time
  <2>3. [exists |-> TRUE, online |-> TRUE, ended |-> FALSE,
         started |-> call[c].at, seen |-> call[c].at, duration |-> 0] \in RowRecords
    BY <2>2 DEF RowRecords
  <2>4. /\ row' \in [Sessions -> RowRecords] /\ \A x \in Sessions \ {s} : row'[x] = row[x]
        /\ row'[s].exists = TRUE /\ row'[s].online = TRUE /\ row'[s].ended = FALSE /\ row'[s].duration = 0
    BY <1>2, <2>1, <2>3
  <2>5. row[s].duration = 0
    BY <2>1 DEF SessionsInv, OpenRowsAreNew
  <2>6. Counted' = Counted
    <3>1. Counted' = Counted + (row'[s].duration - row[s].duration) /\ Counted \in Int
      BY <2>4, CountedMoves
    <3> QED
      BY <2>4, <2>5, <3>1
  <2>7. TotalIsTheSum'
    BY <1>1, <2>6 DEF SessionsInv, TotalIsTheSum
  <2>8. OpenRowsAreNew'
    BY <2>4 DEF SessionsInv, OpenRowsAreNew, OpenRow
  <2>9. OpenIsLate'
    BY <1>1, <2>1, <2>4 DEF SessionsInv, OpenIsLate, OpenRow
  <2>10. keyed' \subseteq Sessions /\ Cardinality(keyed') <= 1 /\ \A x \in keyed' : row'[x].exists
    <3>1. Cardinality({s}) = 1
      BY FS_Singleton
    <3>2. CASE call[c].key
      BY <2>1, <2>4, <3>1, <3>2
    <3>3. CASE ~call[c].key
      BY <2>1, <2>4, <3>3, KeyedIsOne
    <3> QED
      BY <3>2, <3>3
  <2>11. late' \subseteq Sessions
    BY <1>2, <2>1
  <2> QED
    BY <1>1, <1>2, <2>4, <2>7, <2>8, <2>9, <2>10, <2>11, CallEnds
<1> QED
  BY <1>3, <1>4

-----------------------------------------------------------------------------
(* Sweeps, the block and the clock.                                        *)

LEMMA BeginSweepKeeps == ASSUME SessionsInv, NEW w \in Sweepers, BeginSweep(w) PROVE SessionsInv'
<1>1. UNCHANGED <<now, blocked, total, row, keyed, call, overlapped, late, calls>>
  BY DEF BeginSweep
<1>2. PICK read : read = {[session |-> s, seen |-> row[s].seen] : s \in {x \in Sessions : Stale(x)}}
  OBVIOUS
<1>3. sweep' = [sweep EXCEPT ![w] = read]
  BY <1>2 DEF BeginSweep
<1>4. \A old \in read : old \in [session: Sessions, seen: Time] /\ row[old.session].exists
  BY <1>2 DEF Stale, OpenRow, SessionsInv, SessionTypeOK, RowRecords
<1>5. SessionTypeOK'
  BY <1>1, <1>3, <1>4 DEF SessionsInv, SessionTypeOK, Time
<1>6. \A v \in Sweepers : \A old \in sweep'[v] : row'[old.session].exists
  <2>1. sweep \in [Sweepers -> SUBSET [session: Sessions, seen: Time]]
    BY DEF SessionsInv, SessionTypeOK
  <2>2. \A v \in Sweepers : v # w => sweep'[v] = sweep[v]
    BY <1>3, <2>1
  <2>3. sweep'[w] = read
    BY <1>3, <2>1
  <2> QED
    BY <1>1, <1>4, <2>2, <2>3 DEF SessionsInv, CallsKnowTheirSession
<1>7. CallsKnowTheirSession' /\ OpenIsLate'
  BY <1>1, <1>6 DEF SessionsInv, CallsKnowTheirSession, WorksOnOne, OpenIsLate, OpenRow
<1> QED
  BY <1>1, <1>5, <1>7, RowsLeftAlone DEF SessionsInv

\* What remains of the invariant where rows change and requests stay.
LEMMA RowsChange ==
  ASSUME SessionsInv, UNCHANGED <<keyed, call, calls>>, now' \in Time, blocked' \in BOOLEAN,
         row' \in [Sessions -> RowRecords], \A s \in Sessions : row[s].exists => row'[s].exists,
         total' \in Nat, overlapped' \in BOOLEAN, late' = late,
         sweep' \in [Sweepers -> SUBSET [session: Sessions, seen: Time]],
         \A w \in Sweepers : sweep'[w] \subseteq sweep[w],
         OpenRowsAreNew', TotalIsTheSum', OpenIsLate'
  PROVE  SessionsInv'
<1>1. SessionTypeOK'
  BY DEF SessionsInv, SessionTypeOK
<1>2. ASSUME NEW d \in Callers
      PROVE  /\ WorksOnOne(d)' => call'[d].session \in Sessions /\ row'[call'[d].session].exists
             /\ call'[d].stage \in {"barring", "closing"} => call'[d].open
  BY DEF WorksOnOne, CallsKnowTheirSession, SessionsInv
<1>3. ASSUME NEW w \in Sweepers, NEW old \in sweep'[w] PROVE row'[old.session].exists
  <2>1. old \in sweep[w] /\ old.session \in Sessions
    OBVIOUS
  <2>2. row[old.session].exists
    BY <2>1 DEF SessionsInv, CallsKnowTheirSession
  <2> QED
    BY <2>1, <2>2
<1>4. \A s \in keyed' : row'[s].exists
  BY KeyedIsOne
<1>5. CallsKnowTheirSession'
  BY <1>2, <1>3, <1>4 DEF CallsKnowTheirSession
<1> QED
  BY <1>1, <1>5 DEF SessionsInv

LEMMA SweepKeeps == ASSUME SessionsInv, NEW w \in Sweepers, SweepOne(w) PROVE SessionsInv'
<1>1. PICK old \in sweep[w] :
        /\ Close(old.session, row[old.session].seen, Span(row[old.session].started, old.seen), TRUE)
        /\ sweep' = [sweep EXCEPT ![w] = @ \ {old}]
        /\ UNCHANGED <<now, blocked, keyed, call, late, calls>>
  BY DEF SweepOne
<1>2. sweep \in [Sweepers -> SUBSET [session: Sessions, seen: Time]]
  BY DEF SessionsInv, SessionTypeOK
<1>3. old \in [session: Sessions, seen: Time] /\ row[old.session].exists
  BY <1>2 DEF SessionsInv, CallsKnowTheirSession
<1>4. PICK s \in Sessions : s = old.session
  BY <1>3
<1>5. row[s].seen \in Time /\ row[s].started \in Time /\ old.seen \in Time
  BY <1>3 DEF SessionsInv, SessionTypeOK, RowRecords
<1>6. PICK seen \in Time, span \in Time : seen = row[s].seen /\ span = Span(row[s].started, old.seen)
  BY <1>5, SpanIsTime
<1>7. Close(s, seen, span, TRUE) /\ row[s].exists
  BY <1>1, <1>3, <1>4, <1>6
<1>8. /\ row' \in [Sessions -> RowRecords] /\ total' \in Nat /\ overlapped' \in BOOLEAN
      /\ OpenRowsAreNew' /\ TotalIsTheSum' /\ OpenIsLate'
  BY <1>1, <1>7, RowClosed
<1>9. \A x \in Sessions : row[x].exists => row'[x].exists
  BY <1>7 DEF Close, SessionsInv, SessionTypeOK, RowRecords
<1>10. /\ sweep' \in [Sweepers -> SUBSET [session: Sessions, seen: Time]]
       /\ \A v \in Sweepers : sweep'[v] \subseteq sweep[v]
  BY <1>1, <1>2
<1>11. now \in Time /\ blocked \in BOOLEAN
  BY DEF SessionsInv, SessionTypeOK
<1> QED
  BY <1>1, <1>8, <1>9, <1>10, <1>11, RowsChange

\* The block closes what is open and counts what each of them lasted.
LEMMA BlockKeeps == ASSUME SessionsInv, Block PROVE SessionsInv'
<1>1. /\ blocked' = TRUE /\ UNCHANGED <<now, keyed, call, sweep, overlapped, late, calls>>
      /\ now \in Time /\ total \in Nat /\ overlapped \in BOOLEAN
      /\ sweep \in [Sweepers -> SUBSET [session: Sessions, seen: Time]]
  BY DEF Block, SessionsInv, SessionTypeOK
<1>2. PICK spans : spans = [s \in Sessions |-> Span(row[s].started, now)]
  OBVIOUS
<1>3. row' = [s \in Sessions |->
         IF s \in ClosedByBlock
         THEN [row[s] EXCEPT !.online = FALSE, !.ended = TRUE, !.seen = now, !.duration = spans[s]]
         ELSE row[s]]
  BY <1>2 DEF Block
<1>4. total' = total + SumFunctionOnSet(spans, ClosedByBlock)
  BY <1>2 DEF Block
<1>5. \A s \in Sessions : row[s] \in RowRecords /\ spans[s] \in Time
  BY <1>1, <1>2, SpanIsTime DEF SessionsInv, SessionTypeOK, RowRecords
<1>6. ASSUME NEW s \in Sessions
      PROVE  /\ row'[s] \in RowRecords /\ row'[s].exists = row[s].exists
             /\ s \in ClosedByBlock =>
                   row'[s].duration = spans[s] /\ row'[s].ended /\ row[s].duration = 0 /\ row[s].exists
             /\ s \notin ClosedByBlock => row'[s] = row[s] /\ ~OpenRow(s)
  <2>1. CASE s \in ClosedByBlock
    <3>1. row'[s] = [row[s] EXCEPT !.online = FALSE, !.ended = TRUE, !.seen = now, !.duration = spans[s]]
      BY <1>3, <2>1
    <3>2. OpenRow(s) /\ row[s].duration = 0
      BY <2>1 DEF ClosedByBlock, SessionsInv, OpenRowsAreNew, OpenRow
    <3> QED
      BY <1>1, <1>5, <2>1, <3>1, <3>2 DEF RowRecords, OpenRow
  <2>2. CASE s \notin ClosedByBlock
    <3>1. row'[s] = row[s]
      BY <1>3, <2>2
    <3>2. ~OpenRow(s)
      BY <2>2 DEF ClosedByBlock, SessionsInv, OpenRowsAreNew
    <3> QED
      BY <1>5, <2>2, <3>1, <3>2
  <2> QED
    BY <2>1, <2>2
<1>7. row' \in [Sessions -> RowRecords]
  BY <1>3, <1>6
<1>8. PICK f : f = [s \in Sessions |-> row[s].duration]
  OBVIOUS
<1>9. PICK h : h = [s \in Sessions |-> row'[s].duration]
  OBVIOUS
<1>10. Counted = SumFunctionOnSet(f, Sessions) /\ Counted' = SumFunctionOnSet(h, Sessions)
  BY <1>8, <1>9 DEF Counted, SumFunction
<1>11. PICK C \in SUBSET Sessions : C = ClosedByBlock
  BY DEF ClosedByBlock
<1>12. /\ \A s \in Sessions : f[s] \in Nat /\ h[s] \in Nat /\ spans[s] \in Nat
       /\ \A s \in C : h[s] = f[s] + spans[s]
       /\ \A s \in Sessions \ C : h[s] = f[s]
  <2>1. \A s \in Sessions : f[s] = row[s].duration /\ h[s] = row'[s].duration
    BY <1>8, <1>9
  <2>2. \A s \in Sessions : row[s].duration \in Nat /\ row'[s].duration \in Nat /\ spans[s] \in Nat
    BY <1>5, <1>6 DEF RowRecords, Time
  <2>3. ASSUME NEW s \in C PROVE h[s] = f[s] + spans[s]
    <3>1. row'[s].duration = spans[s] /\ row[s].duration = 0
      BY <1>6, <1>11, <2>3
    <3> QED
      BY <2>1, <2>2, <3>1
  <2> QED
    BY <1>6, <1>11, <2>1, <2>2, <2>3
<1>13. SumFunctionOnSet(spans, C) \in Nat /\ SumFunctionOnSet(f, Sessions) \in Nat
  <2>1. IsFiniteSet(C) /\ IsFiniteSet(Sessions)
    BY SessionAssumption, FS_Subset
  <2> QED
    BY <1>12, <2>1, SumIsNat
<1>14. Counted' = Counted + SumFunctionOnSet(spans, C)
  BY <1>10, <1>12, SessionAssumption, SumGrows
<1>15. total' \in Nat /\ TotalIsTheSum'
  BY <1>1, <1>4, <1>10, <1>11, <1>13, <1>14 DEF SessionsInv, TotalIsTheSum
<1>16. \A s \in Sessions : ~OpenRow(s)'
  BY <1>6 DEF OpenRow
<1>17. OpenRowsAreNew' /\ OpenIsLate'
  BY <1>6, <1>16 DEF SessionsInv, OpenRowsAreNew, OpenIsLate
<1> QED
  BY <1>1, <1>6, <1>7, <1>15, <1>17, RowsChange

LEMMA WorldKeeps == ASSUME SessionsInv, Unblock \/ Tick PROVE SessionsInv'
<1>1. UNCHANGED <<total, row, keyed, call, sweep, overlapped, late, calls>>
  BY DEF Unblock, Tick
<1>2. now' \in Time /\ blocked' \in BOOLEAN /\ (blocked' => blocked)
  <2>1. now \in Time /\ blocked \in BOOLEAN
    BY DEF SessionsInv, SessionTypeOK
  <2>2. CASE Unblock
    BY <2>1, <2>2 DEF Unblock
  <2>3. CASE Tick
    <3>1. now' \in Time
      BY <2>1, <2>3, SessionAssumption DEF Tick, Time
    <3> QED
      BY <2>1, <2>3, <3>1 DEF Tick
  <2> QED
    BY <2>2, <2>3
<1>3. OpenRowsAreNew' /\ TotalIsTheSum'
  BY <1>1, RowsLeftAlone
<1>4. OpenIsLate'
  BY <1>1, <1>2 DEF SessionsInv, OpenIsLate, OpenRow
<1>5. /\ row \in [Sessions -> RowRecords] /\ total \in Nat /\ overlapped \in BOOLEAN
      /\ sweep \in [Sweepers -> SUBSET [session: Sessions, seen: Time]]
  BY DEF SessionsInv, SessionTypeOK
<1> QED
  BY <1>1, <1>2, <1>3, <1>4, <1>5, RowsChange

LEMMA SweepFailsKeeps == ASSUME SessionsInv, NEW w \in Sweepers, SweepFails(w) PROVE SessionsInv'
<1>1. UNCHANGED <<now, blocked, total, row, keyed, call, overlapped, late, calls>>
  BY DEF SweepFails
<1>2. OpenRowsAreNew' /\ TotalIsTheSum'
  BY <1>1, RowsLeftAlone
<1>3. OpenIsLate'
  BY <1>1 DEF SessionsInv, OpenIsLate, OpenRow
<1>4. /\ row \in [Sessions -> RowRecords] /\ total \in Nat /\ overlapped \in BOOLEAN
      /\ now \in Time /\ blocked \in BOOLEAN
      /\ sweep \in [Sweepers -> SUBSET [session: Sessions, seen: Time]]
  BY DEF SessionsInv, SessionTypeOK
<1>5. /\ sweep' \in [Sweepers -> SUBSET [session: Sessions, seen: Time]]
      /\ \A v \in Sweepers : sweep'[v] \subseteq sweep[v]
  BY <1>4 DEF SweepFails
<1> QED
  BY <1>1, <1>2, <1>3, <1>4, <1>5, RowsChange

LEMMA SessionsInvStep == SessionsInv /\ [SessionNext]_sessionVars => SessionsInv'
<1> SUFFICES ASSUME SessionsInv, [SessionNext]_sessionVars PROVE SessionsInv'
  OBVIOUS
<1>1. CASE UNCHANGED sessionVars
  <2>1. UNCHANGED <<now, blocked, total, row, keyed, call, sweep, overlapped, late, calls>>
    BY <1>1 DEF sessionVars
  <2>2. OpenRowsAreNew' /\ TotalIsTheSum'
    BY <2>1, RowsLeftAlone
  <2>3. OpenIsLate'
    BY <2>1 DEF SessionsInv, OpenIsLate, OpenRow
  <2>4. SessionTypeOK' /\ CallsKnowTheirSession'
    BY <2>1 DEF SessionsInv, SessionTypeOK, CallsKnowTheirSession, WorksOnOne, Time
  <2> QED
    BY <2>2, <2>3, <2>4 DEF SessionsInv
<1>2. ASSUME NEW c \in Callers, ReadsOnly(c) PROVE SessionsInv'
  BY <1>2, ReadingKeeps
<1>3. ASSUME NEW c \in Callers, Touch(c) \/ Refresh(c) PROVE SessionsInv'
  BY <1>3, SeeingKeeps
<1>4. ASSUME NEW c \in Callers, Bar(c) \/ CloseAtEnd(c) PROVE SessionsInv'
  BY <1>4, CloserKeeps
<1>5. ASSUME NEW c \in Callers, Create(c) PROVE SessionsInv'
  BY <1>5, CreateKeeps
<1>6. ASSUME NEW w \in Sweepers, BeginSweep(w) \/ SweepOne(w) \/ SweepFails(w) PROVE SessionsInv'
  BY <1>6, BeginSweepKeeps, SweepKeeps, SweepFailsKeeps
<1>7. CASE Block \/ Unblock \/ Tick
  BY <1>7, BlockKeeps, WorldKeeps
<1> QED
  BY <1>1, <1>2, <1>3, <1>4, <1>5, <1>6, <1>7 DEF SessionNext, ReadsOnly

LEMMA InitSessionsInv == SessionInit => SessionsInv
<1> SUFFICES ASSUME SessionInit PROVE SessionsInv
  OBVIOUS
<1> USE DEF SessionInit
<1>1. 0 \in Time /\ NoRow \in RowRecords
  BY SessionAssumption DEF Time, NoRow, RowRecords
<1>2. Cardinality({}) = 0
  BY FS_EmptySet
<1>3. SessionTypeOK
  <2>1. /\ row \in [Sessions -> RowRecords] /\ now \in Time
        /\ sweep \in [Sweepers -> SUBSET [session: Sessions, seen: Time]]
    BY <1>1
  <2>2. call \in [Callers -> CallRecords]
    BY IdleIsACall
  <2>3. keyed \subseteq Sessions /\ Cardinality(keyed) <= 1 /\ calls \in 0 .. MaxCalls /\ total \in Nat
    BY <1>2, SessionAssumption
  <2> QED
    BY <2>1, <2>2, <2>3 DEF SessionTypeOK, CallRecords
<1>4. CallsKnowTheirSession /\ OpenRowsAreNew /\ OpenIsLate
  BY DEF CallsKnowTheirSession, WorksOnOne, IdleCall, OpenRowsAreNew, OpenIsLate, OpenRow, NoRow
<1>5. Counted = 0
  <2>1. PICK f : f = [s \in Sessions |-> row[s].duration]
    OBVIOUS
  <2>2. f = [s \in Sessions |-> 0]
    BY <2>1 DEF NoRow
  <2> QED
    BY <2>1, <2>2, SessionAssumption, SumOfZeros DEF Counted
<1> QED
  BY <1>3, <1>4, <1>5 DEF SessionsInv, TotalIsTheSum

LEMMA SessionsInvariance == SessionSpec => []SessionsInv
  BY InitSessionsInv, SessionsInvStep, PTL DEF SessionSpec

\* Nothing ends a session's end.
LEMMA EndStays ==
  ASSUME SessionsInv, [SessionNext]_sessionVars, NEW s \in Sessions, row[s].ended
  PROVE  row'[s].ended /\ ~Online(s)'
<1>1. row \in [Sessions -> RowRecords]
  BY DEF SessionsInv, SessionTypeOK
<1>2. CASE row' = row
  BY <1>2 DEF Online, OpenRow
<1>3. CASE row'[s].ended
  BY <1>3 DEF Online, OpenRow
<1>4. CASE UNCHANGED sessionVars \/ Unblock \/ Tick
  BY <1>2, <1>4 DEF sessionVars, Unblock, Tick
<1>5. ASSUME NEW c \in Callers, ReadsOnly(c) PROVE row' = row
  BY <1>5 DEF ReadsOnly, BeginStart, TimeStart, FindByKey, BeginHeartbeat, ReadForHeartbeat,
     BeginEnd, ReadForEnd, CallFails
<1>6. ASSUME NEW c \in Callers, Touch(c) \/ Refresh(c) PROVE row'[s].ended
  BY <1>1, <1>6 DEF Touch, Refresh, TouchedRow, RowRecords
<1>7. ASSUME NEW x, NEW seen, NEW span, NEW readOpen, Close(x, seen, span, readOpen) PROVE row'[s].ended
  BY <1>1, <1>7 DEF Close, RowRecords
<1>8. ASSUME NEW c \in Callers, Bar(c) \/ CloseAtEnd(c) PROVE row'[s].ended
  BY <1>7, <1>8 DEF Bar, CloseAtEnd
<1>9. ASSUME NEW w \in Sweepers, SweepOne(w) PROVE row'[s].ended
  BY <1>7, <1>9 DEF SweepOne
<1>10. ASSUME NEW c \in Callers, Create(c) PROVE row'[s].ended
  <2>1. row[s].exists
    BY DEF SessionsInv, OpenRowsAreNew
  <2>2. row'[s] = row[s]
    BY <1>1, <1>10, <2>1 DEF Create
  <2> QED
    BY <2>2
<1>11. ASSUME NEW w \in Sweepers, BeginSweep(w) \/ SweepFails(w) PROVE row' = row
  BY <1>11 DEF BeginSweep, SweepFails
<1>12. CASE Block
  <2>1. s \notin ClosedByBlock
    BY DEF ClosedByBlock, OpenRow
  <2>2. row'[s] = row[s]
    BY <1>12, <2>1 DEF Block
  <2> QED
    BY <1>3, <2>2
<1> QED
  BY <1>2, <1>3, <1>4, <1>5, <1>6, <1>8, <1>9, <1>10, <1>11, <1>12 DEF SessionNext, ReadsOnly

-----------------------------------------------------------------------------
(* All of it.                                                              *)

\* While one part runs the others rest: each takes steps of its own specification only.
LEMMA AccessParts == AccessSpec => ChallengeSpec /\ SessionSpec /\ BalancesSpec
<1> DEFINE all == <<part, challengeVars, sessionVars, balanceVars>>
<1>1. AccessInit => ChallengeInit /\ SessionInit /\ BalancesInit
  BY DEF AccessInit
<1>2. [ChallengePart \/ SessionPart \/ BalancesPart]_all => [ChallengeNext]_challengeVars
  BY DEF ChallengePart, SessionPart, BalancesPart
<1>3. [ChallengePart \/ SessionPart \/ BalancesPart]_all => [SessionNext]_sessionVars
  BY DEF ChallengePart, SessionPart, BalancesPart
<1>4. [ChallengePart \/ SessionPart \/ BalancesPart]_all => [BalancesNext]_balanceVars
  BY DEF ChallengePart, SessionPart, BalancesPart
<1> QED
  BY <1>1, <1>2, <1>3, <1>4, PTL DEF AccessSpec, ChallengeSpec, SessionSpec, BalancesSpec

\* What presence shows and counts is so, for any number of sessions, requests and sweeps: the
\* total of a wallet is the sum of what its sessions lasted unless two handlers closed one that
\* both had read open, a blocked wallet is online through late starts only, and an ended session
\* stays ended (finalizeSession, finalizeStaleSessions and updateWalletUserBlock of users.service.ts).
THEOREM PresenceHolds == AccessSpec => PresenceIsTrue
<1>1. SessionsInv => TotalIsTheSum /\ BlockedIsOffline
  BY DEF SessionsInv, OpenIsLate, BlockedIsOffline, Online
<1>2. SessionsInv /\ [SessionNext]_sessionVars =>
        [\A s \in Sessions : row[s].ended => row'[s].ended /\ ~Online(s)']_sessionVars
  BY EndStays
<1>3. SessionSpec => EndedForGood
  BY <1>2, SessionsInvariance, PTL DEF SessionSpec, EndedForGood
<1>4. SessionSpec => [](TotalIsTheSum /\ BlockedIsOffline)
  BY <1>1, SessionsInvariance, PTL
<1> QED
  BY <1>3, <1>4, AccessParts, PTL DEF PresenceIsTrue

\* Every variable keeps its shape and no span, total or balance is negative, whatever requests
\* of both services, browsers, sweeps and changes of the chain interleave.
THEOREM AccessTyped == AccessSpec => []AccessTypeOK
<1>1. SessionsInv => SessionTypeOK
  BY DEF SessionsInv
<1>2. BalancesTyped => BalancesTypeOK
  BY DEF BalancesTyped
<1> QED
  BY <1>1, <1>2, AccessParts, ChallengeTypeCorrect, SessionsInvariance, BalancesStayTyped, PTL DEF AccessTypeOK
================================================================================
