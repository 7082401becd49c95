--------------------------- MODULE OperationsProofs ---------------------------
(***************************************************************************)
(* Proofs about stakes and the calls of a wallet (MCStakeFlow): why the    *)
(* rows and the mirror of StakeFlow never run ahead of the chain, for any  *)
(* number of stakes, tabs and blockhashes, and why the calls of            *)
(* WalletCalls keep their ground, for any number of calls and of acts of   *)
(* administrators.  And about what surrounds them and has to come right in *)
(* the end (MCSettling): the rate-limit store, the rules of RA as three    *)
(* readers take them, the pools of the audit log, and the settings on      *)
(* their way to tabs and operations.  Each part has an invariant of its    *)
(* own; the last section puts those of MCSettling together, since a        *)
(* behaviour of that run is one of every part of it.                       *)
(***************************************************************************)
EXTENDS MCStakeFlow, MCSettling, FiniteSetTheorems, TLAPS

RunStates == {"idle", "prepared", "sending", "confirmed", "mirroring", "logging", "recorded",
    "failed"}
ClaimStates == {"idle", "prepared", "sending", "confirmed", "loaded", "settling", "mirroring",
    "logging"}
Mirrored == {"none", "ACTIVE", "CLAIMED"}

ClaimRecords == [pc: ClaimStates, stake: Stakes, hash: Blockhashes \cup {0},
                 found: {"ACTIVE", "CLAIMED"}, count: Nat]

\* The part of the shape that the argument needs; histories play no role.
FlowShape ==
    /\ run \in [Stakes -> RunStates]
    /\ chain \in [Stakes -> {"none", "pending", "open", "dropped", "mature", "paid"}]
    /\ row \in [Stakes -> Mirrored] /\ mirror \in [Stakes -> Mirrored]
    /\ claimHash \in [Stakes -> Blockhashes \cup {0}] /\ paidBy \in [Stakes -> Blockhashes
        \cup {0}]
    /\ now \in Blockhashes
    /\ claim \in [Tabs -> ClaimRecords] /\ active \in Nat

\* What the client run of a stake knows: nothing is on the chain before it asked for the
\* broadcast, no row is written before it asked for one, and it asks for the row only
\* when its execute request has seen the position on the chain.
RunKnows(s) ==
    /\ run[s] \in {"idle", "prepared"} => chain[s] = "none" /\ s \notin awaiting /\ s \notin
        executed
    /\ run[s] \in {"idle", "prepared", "sending", "confirmed"} => row[s] = "none"
    /\ run[s] = "confirmed" => Confirmed(chain[s])
    /\ run[s] \in {"mirroring", "logging"} => row[s] # "none"
    /\ run[s] = "logging" => mirror[s] # "none"

\* A position is paid by a claim that had a blockhash, and is claimed at the earliest when
\* the run that opened it is over.
ChainKnows(s) ==
    /\ chain[s] \in {"mature", "paid"} => run[s] \in {"recorded", "failed"}
    /\ paidBy[s] # 0 => chain[s] = "paid"

\* A claim has a row to settle; from the answer to its execute request on, its position is
\* paid; once it has settled the row it only speaks of a CLAIMED one.
ClaimKnows(t) ==
    LET c == claim[t] IN
    /\ c.pc # "idle" => row[c.stake] # "none" /\ c.hash # 0
    /\ c.pc \in {"confirmed", "loaded", "settling", "mirroring", "logging"} => chain[c.stake]
        = "paid"
    /\ c.pc \in {"mirroring", "logging"} => row[c.stake] = "CLAIMED"
    /\ c.pc = "logging" => mirror[c.stake] = "CLAIMED"

FlowInv ==
    /\ FlowShape
    /\ \A s \in Stakes : RunKnows(s) /\ ChainKnows(s)
    /\ \A t \in Tabs : ClaimKnows(t)
    /\ RowsBackedByChain /\ MirrorFollowsRow

LEMMA NoClaimRests == NoClaim.pc = "idle" /\ NoClaim \in ClaimRecords
<1>1. (CHOOSE s \in Stakes : TRUE) \in Stakes
  BY FlowAssumption
<1> QED
  BY <1>1 DEF NoClaim, ClaimRecords, ClaimStates

LEMMA HashesAreNotZero == 0 \notin Blockhashes /\ \A h \in Blockhashes : h + 1 # 0
  BY FlowAssumption

\* NextActive of a count is a count again: the floor at zero.
LEMMA CountsStayNatural ==
  ASSUME NEW n \in Nat
  PROVE  NextActive(n) \in Nat
<1>1. \E x \in {0, n - 1} : \A y \in {0, n - 1} : x >= y
  OBVIOUS
<1> QED
  BY <1>1 DEF NextActive, Max

LEMMA InitFlowInv == FlowInit => FlowInv
  BY NoClaimRests, FlowAssumption, FS_CardinalityType, FS_Subset
  DEF FlowInit, FlowInv, FlowShape, ClaimRecords, RunStates, Mirrored, RunKnows, ChainKnows,
      ClaimKnows,
      Confirmed, RowsBackedByChain, MirrorFollowsRow

LEMMA FlowShapeStep == FlowShape /\ [FlowNext]_flowVars => FlowShape'
<1> SUFFICES ASSUME FlowShape, [FlowNext]_flowVars PROVE FlowShape'
  OBVIOUS
<1> USE NoClaimRests, HashesAreNotZero DEF FlowShape, RunStates, Mirrored, chainVars, rowVars,
    mirrorVars, sessionVars, stakeVars
<1>1. CASE UNCHANGED flowVars
  BY <1>1 DEF flowVars
<1>2. ASSUME NEW s \in Stakes, PrepareStake(s) PROVE FlowShape'
  BY <1>2 DEF PrepareStake, Advance
<1>3. ASSUME NEW s \in Stakes, ExecuteStake(s) PROVE FlowShape'
  BY <1>3 DEF ExecuteStake, Advance
<1>4. ASSUME NEW s \in Stakes, ConfirmStake(s) PROVE FlowShape'
  BY <1>4 DEF ConfirmStake, Confirmed
<1>5. ASSUME NEW s \in Stakes, GiveUpConfirming(s) PROVE FlowShape'
  BY <1>5 DEF GiveUpConfirming
<1>6. ASSUME NEW s \in Stakes, PersistStake(s) PROVE FlowShape'
  BY <1>6 DEF PersistStake, Advance
<1>7. ASSUME NEW s \in Stakes, StakeFails(s) PROVE FlowShape'
  BY <1>7 DEF StakeFails
<1>8. ASSUME NEW s \in Stakes, MirrorStake(s) PROVE FlowShape'
  BY <1>8 DEF MirrorStake, Advance
<1>9. ASSUME NEW s \in Stakes, LogStake(s) PROVE FlowShape'
  BY <1>9 DEF LogStake, Advance
<1>10. ASSUME NEW s \in Stakes, StakeMirrorFails(s) PROVE FlowShape'
  BY <1>10 DEF StakeMirrorFails
<1>11. ASSUME NEW s \in Stakes, LandStake(s) PROVE FlowShape'
  BY <1>11 DEF LandStake
<1>12. ASSUME NEW s \in Stakes, Mature(s) PROVE FlowShape'
  BY <1>12 DEF Mature
<1>13. ASSUME NEW s \in Stakes, SessionExpires(s) PROVE FlowShape'
  BY <1>13 DEF SessionExpires
<1>14. ASSUME NEW s \in Stakes, NEW h \in Blockhashes, LandClaim(s, h) PROVE FlowShape'
  BY <1>14 DEF LandClaim
<1>15. ASSUME NEW t \in Tabs, NEW s \in Stakes, PrepareClaim(t, s) PROVE FlowShape'
  <2>1. [NoClaim EXCEPT !.pc = "prepared", !.stake = s, !.hash = now] \in ClaimRecords
    BY DEF ClaimRecords, ClaimStates
  <2> QED
    BY <1>15, <2>1 DEF PrepareClaim
<1>16. ASSUME NEW t \in Tabs, ExecuteClaim(t) PROVE FlowShape'
  <2>1. [claim[t] EXCEPT !.pc = "sending"] \in ClaimRecords
    BY DEF ClaimRecords, ClaimStates
  <2> QED
    BY <1>16, <2>1 DEF ExecuteClaim, Turn
<1>17. ASSUME NEW t \in Tabs, ConfirmClaim(t) PROVE FlowShape'
  <2>1. [claim[t] EXCEPT !.pc = "confirmed"] \in ClaimRecords
    BY DEF ClaimRecords, ClaimStates
  <2> QED
    BY <1>17, <2>1 DEF ConfirmClaim, Turn
<1>18. ASSUME NEW t \in Tabs, ClaimFails(t) PROVE FlowShape'
  BY <1>18 DEF ClaimFails
<1>19. ASSUME NEW t \in Tabs, LoadRow(t) PROVE FlowShape'
  <2>1. row[claim[t].stake] = "ACTIVE" =>
           [claim[t] EXCEPT !.pc = "loaded", !.found = row[claim[t].stake]] \in ClaimRecords
    BY DEF ClaimRecords, ClaimStates
  <2> QED
    BY <1>19, <2>1 DEF LoadRow, Settleable
<1>20. ASSUME NEW t \in Tabs, ReadCount(t) PROVE FlowShape'
  <2>1. claim[t] \in ClaimRecords /\ active \in Nat
    OBVIOUS
  <2>2. [claim[t] EXCEPT !.pc = "settling", !.count = active] \in ClaimRecords
    BY <2>1 DEF ClaimRecords, ClaimStates
  <2>3. claim' = [claim EXCEPT ![t] = [claim[t] EXCEPT !.pc = "settling", !.count = active]]
    BY <1>20 DEF ReadCount
  <2> QED
    BY <1>20, <2>2, <2>3 DEF ReadCount
<1>21. ASSUME NEW t \in Tabs, CommitClaim(t) PROVE FlowShape'
  <2>1. [claim[t] EXCEPT !.pc = "mirroring"] \in ClaimRecords /\ claim[t].count \in Nat
    BY DEF ClaimRecords, ClaimStates
  <2> QED
    BY <1>21, <2>1, CountsStayNatural DEF CommitClaim, Turn
<1>22. ASSUME NEW t \in Tabs, MirrorClaim(t) PROVE FlowShape'
  <2>1. [claim[t] EXCEPT !.pc = "logging"] \in ClaimRecords
    BY DEF ClaimRecords, ClaimStates
  <2> QED
    BY <1>22, <2>1 DEF MirrorClaim, Turn, Projected, ClaimRecords
<1>23. ASSUME NEW t \in Tabs, LogClaim(t) PROVE FlowShape'
  BY <1>23 DEF LogClaim
<1>24. ASSUME NEW t \in Tabs, ClaimMirrorFails(t) PROVE FlowShape'
  BY <1>24 DEF ClaimMirrorFails
<1>25. CASE NewBlockhash \/ SetBlocked
  BY <1>25 DEF NewBlockhash, SetBlocked
<1> QED
  BY <1>1, <1>2, <1>3, <1>4, <1>5, <1>6, <1>7, <1>8, <1>9, <1>10, <1>11, <1>12, <1>13, <1>14,
      <1>15, <1>16, <1>17, <1>18, <1>19, <1>20, <1>21, <1>22, <1>23, <1>24, <1>25 DEF
      FlowNext, StakeRequest, StakeSync, ClaimRequest, ClaimSync

LEMMA FlowInvStep == FlowInv /\ [FlowNext]_flowVars => FlowInv'
<1> SUFFICES ASSUME FlowInv, [FlowNext]_flowVars, FlowShape' PROVE FlowInv'
  BY FlowShapeStep DEF FlowInv
<1> USE NoClaimRests, HashesAreNotZero DEF FlowInv, FlowShape, RunStates, ClaimRecords,
    ClaimStates, Mirrored, RunKnows, ChainKnows, ClaimKnows, Confirmed, RowsBackedByChain,
    MirrorFollowsRow, chainVars, rowVars, mirrorVars, sessionVars, stakeVars
<1>1. CASE UNCHANGED flowVars
  BY <1>1 DEF flowVars
<1>2. ASSUME NEW s \in Stakes, PrepareStake(s) PROVE FlowInv'
  BY <1>2 DEF PrepareStake, Advance
<1>3. ASSUME NEW s \in Stakes, ExecuteStake(s) PROVE FlowInv'
  BY <1>3 DEF ExecuteStake, Advance
<1>4. ASSUME NEW s \in Stakes, ConfirmStake(s) PROVE FlowInv'
  BY <1>4 DEF ConfirmStake, Confirmed
<1>5. ASSUME NEW s \in Stakes, GiveUpConfirming(s) PROVE FlowInv'
  BY <1>5 DEF GiveUpConfirming
<1>6. ASSUME NEW s \in Stakes, PersistStake(s) PROVE FlowInv'
  BY <1>6 DEF PersistStake, Advance
<1>7. ASSUME NEW s \in Stakes, StakeFails(s) PROVE FlowInv'
  BY <1>7 DEF StakeFails
<1>8. ASSUME NEW s \in Stakes, MirrorStake(s) PROVE FlowInv'
  BY <1>8 DEF MirrorStake, Advance
<1>9. ASSUME NEW s \in Stakes, LogStake(s) PROVE FlowInv'
  BY <1>9 DEF LogStake, Advance
<1>10. ASSUME NEW s \in Stakes, StakeMirrorFails(s) PROVE FlowInv'
  BY <1>10 DEF StakeMirrorFails
<1>11. ASSUME NEW s \in Stakes, LandStake(s) PROVE FlowInv'
  BY <1>11 DEF LandStake
<1>12. ASSUME NEW s \in Stakes, Mature(s) PROVE FlowInv'
  BY <1>12 DEF Mature
<1>13. ASSUME NEW s \in Stakes, SessionExpires(s) PROVE FlowInv'
  BY <1>13 DEF SessionExpires
<1>14. ASSUME NEW s \in Stakes, NEW h \in Blockhashes, LandClaim(s, h) PROVE FlowInv'
  BY <1>14 DEF LandClaim
<1>15. ASSUME NEW t \in Tabs, NEW s \in Stakes, PrepareClaim(t, s) PROVE FlowInv'
  BY <1>15 DEF PrepareClaim
<1>16. ASSUME NEW t \in Tabs, ExecuteClaim(t) PROVE FlowInv'
  BY <1>16 DEF ExecuteClaim, Turn
<1>17. ASSUME NEW t \in Tabs, ConfirmClaim(t) PROVE FlowInv'
  BY <1>17 DEF ConfirmClaim, Turn, Paid
<1>18. ASSUME NEW t \in Tabs, ClaimFails(t) PROVE FlowInv'
  BY <1>18 DEF ClaimFails
<1>19. ASSUME NEW t \in Tabs, LoadRow(t) PROVE FlowInv'
  BY <1>19 DEF LoadRow, Settleable
<1>20. ASSUME NEW t \in Tabs, ReadCount(t) PROVE FlowInv'
  BY <1>20 DEF ReadCount
<1>21. ASSUME NEW t \in Tabs, CommitClaim(t) PROVE FlowInv'
  BY <1>21 DEF CommitClaim, Turn
<1>22. ASSUME NEW t \in Tabs, MirrorClaim(t) PROVE FlowInv'
  BY <1>22 DEF MirrorClaim, Turn, Projected
<1>23. ASSUME NEW t \in Tabs, LogClaim(t) PROVE FlowInv'
  BY <1>23 DEF LogClaim
<1>24. ASSUME NEW t \in Tabs, ClaimMirrorFails(t) PROVE FlowInv'
  BY <1>24 DEF ClaimMirrorFails
<1>25. CASE NewBlockhash \/ SetBlocked
  BY <1>25 DEF NewBlockhash, SetBlocked
<1> QED
  BY <1>1, <1>2, <1>3, <1>4, <1>5, <1>6, <1>7, <1>8, <1>9, <1>10, <1>11, <1>12, <1>13, <1>14,
      <1>15, <1>16, <1>17, <1>18, <1>19, <1>20, <1>21, <1>22, <1>23, <1>24, <1>25 DEF
      FlowNext, StakeRequest, StakeSync, ClaimRequest, ClaimSync

LEMMA FlowInvariant == FlowSpec => []FlowInv
<1>1. FlowInit => FlowInv
  BY InitFlowInv
<1>2. FlowInv /\ [FlowNext]_flowVars => FlowInv'
  BY FlowInvStep
<1> QED
  BY <1>1, <1>2, PTL DEF FlowSpec

\* Whatever fails, expires, is retried in another tab or is closed half-way, an ACTIVE row
\* has its position open on the chain, a CLAIMED one has been paid there, and an event of
\* an execution speaks of a position that landed. The server checks none of this when it
\* records; the order of the client's requests and the session's claim hash carry it.
THEOREM RowsBacked == FlowSpec => []RowsBackedByChain
<1>1. FlowInv => RowsBackedByChain
  BY DEF FlowInv
<1> QED
  BY <1>1, FlowInvariant, PTL

\* The devnet mirror never shows what the row has not reached, nor an event what the
\* projection does not carry, although both are written by best-effort calls outside the
\* row's transaction.
THEOREM MirrorFollows == FlowSpec => []MirrorFollowsRow
<1>1. FlowInv => MirrorFollowsRow
  BY DEF FlowInv
<1> QED
  BY <1>1, FlowInvariant, PTL

\* The rest of the shape.
FlowRest ==
    /\ blocked \in BOOLEAN /\ live \subseteq Stakes /\ raced \in BOOLEAN
    /\ awaiting \cup executed \subseteq Stakes /\ created \cup freed \subseteq Stakes
    /\ sent \subseteq Stakes \X Blockhashes
    /\ settled \in [Stakes -> Nat]

LEMMA FlowRestStep == FlowInv /\ FlowRest /\ [FlowNext]_flowVars => FlowRest'
<1> SUFFICES ASSUME FlowInv, FlowShape, FlowRest, [FlowNext]_flowVars PROVE FlowRest'
  BY DEF FlowInv
<1> USE DEF FlowRest, chainVars, rowVars, mirrorVars, sessionVars, stakeVars
<1>1. CASE UNCHANGED flowVars
  BY <1>1 DEF flowVars
<1>2. ASSUME NEW s \in Stakes, PrepareStake(s) PROVE FlowRest'
  BY <1>2 DEF PrepareStake
<1>3. ASSUME NEW s \in Stakes, StakeRequest(s) PROVE FlowRest'
  BY <1>3 DEF StakeRequest, ExecuteStake, ConfirmStake, GiveUpConfirming, PersistStake,
     StakeFails
<1>4. ASSUME NEW s \in Stakes, StakeSync(s) PROVE FlowRest'
  BY <1>4 DEF StakeSync, MirrorStake, LogStake, StakeMirrorFails
<1>5. ASSUME NEW s \in Stakes, LandStake(s) \/ Mature(s) \/ SessionExpires(s)
      PROVE  FlowRest'
  BY <1>5 DEF LandStake, Mature, SessionExpires
<1>6. ASSUME NEW s \in Stakes, NEW h \in Blockhashes, LandClaim(s, h) PROVE FlowRest'
  BY <1>6 DEF LandClaim
<1>7. ASSUME NEW t \in Tabs, NEW s \in Stakes, PrepareClaim(t, s) PROVE FlowRest'
  BY <1>7 DEF PrepareClaim
<1>8. ASSUME NEW t \in Tabs, ExecuteClaim(t) PROVE FlowRest'
  <2>1. claim[t] \in ClaimRecords
    BY DEF FlowShape
  <2>2. claim[t].stake \in Stakes /\ claim[t].hash = claimHash[claim[t].stake]
        /\ claim[t].hash \in Blockhashes \cup {0}
    BY <1>8, <2>1 DEF ExecuteClaim, Turn, ClaimRecords
  <2>3. claim[t].hash # 0
    BY <1>8 DEF ExecuteClaim, Turn, FlowInv, ClaimKnows
  <2> QED
    BY <1>8, <2>2, <2>3 DEF ExecuteClaim
<1>9. ASSUME NEW t \in Tabs, ConfirmClaim(t) \/ ClaimFails(t) \/ LoadRow(t) \/ ReadCount(t)
      PROVE  FlowRest'
  BY <1>9 DEF ConfirmClaim, ClaimFails, LoadRow, ReadCount
<1>10. ASSUME NEW t \in Tabs, CommitClaim(t) PROVE FlowRest'
  <2>1. claim[t].stake \in Stakes
    BY DEF FlowShape, ClaimRecords
  <2>2. settled' = [settled EXCEPT ![claim[t].stake] = @ + 1]
    BY <1>10 DEF CommitClaim
  <2>3. settled' \in [Stakes -> Nat]
    BY <2>1, <2>2
  <2>4. raced' \in BOOLEAN
    BY <1>10 DEF CommitClaim
  <2> QED
    BY <1>10, <2>3, <2>4 DEF CommitClaim
<1>11. ASSUME NEW t \in Tabs, ClaimSync(t) PROVE FlowRest'
  BY <1>11 DEF ClaimSync, MirrorClaim, LogClaim, ClaimMirrorFails, FlowShape, ClaimRecords
<1>12. CASE NewBlockhash \/ SetBlocked
  BY <1>12 DEF NewBlockhash, SetBlocked
<1> QED
  BY <1>1, <1>2, <1>3, <1>4, <1>5, <1>6, <1>7, <1>8, <1>9, <1>10, <1>11, <1>12
  DEF FlowNext, ClaimRequest

-----------------------------------------------------------------------------
(* The wallet's counter.                                                    *)

RowsWritten == {s \in Stakes : row[s] # "none"}
ActiveRows == {s \in Stakes : row[s] = "ACTIVE"}

\* No count, in the row of the user or in the hands of a tab, exceeds the rows written.
CountsBounded ==
    /\ active <= Cardinality(RowsWritten)
    /\ \A t \in Tabs : claim[t].count <= Cardinality(RowsWritten)

\* As long as no claim has committed over what moved, each row is settled as often as its
\* status says and the counter is exact; a claim about to settle has found an ACTIVE row.
CountsExact ==
    /\ \A t \in Tabs : claim[t].pc \in {"loaded", "settling"} => claim[t].found = "ACTIVE"
    /\ raced \/ /\ active = Cardinality(ActiveRows)
                /\ \A s \in Stakes : settled[s] = IF row[s] = "CLAIMED" THEN 1 ELSE 0

CountInv == FlowRest /\ CountsBounded /\ CountsExact

\* There are finitely many rows, and no more than stakes.
LEMMA RowsAreFinite ==
  /\ IsFiniteSet(RowsWritten) /\ IsFiniteSet(ActiveRows)
  /\ Cardinality(RowsWritten) \in Nat /\ Cardinality(ActiveRows) \in Nat
  /\ Cardinality(RowsWritten) <= Cardinality(Stakes) /\ Cardinality(Stakes) \in Nat
<1>1. IsFiniteSet(RowsWritten) /\ Cardinality(RowsWritten) <= Cardinality(Stakes)
  BY FlowAssumption, FS_Subset DEF RowsWritten
<1>2. IsFiniteSet(ActiveRows)
  BY FlowAssumption, FS_Subset DEF ActiveRows
<1> QED
  BY <1>1, <1>2, FS_CardinalityType, FlowAssumption

\* Max({0, n - 1}), spelt out.
LEMMA NextActiveIs ==
  ASSUME NEW n \in Nat
  PROVE  NextActive(n) = IF n = 0 THEN 0 ELSE n - 1
<1>1. CASE n = 0
  <2>1. \A x \in {0, n - 1} : (\A y \in {0, n - 1} : x >= y) <=> x = 0
    BY <1>1
  <2>2. (CHOOSE x \in {0, n - 1} : \A y \in {0, n - 1} : x >= y) = 0
    BY <2>1
  <2> QED
    BY <1>1, <2>2 DEF NextActive, Max
<1>2. CASE n # 0
  <2>1. \A x \in {0, n - 1} : (\A y \in {0, n - 1} : x >= y) <=> x = n - 1
    BY <1>2
  <2>2. (CHOOSE x \in {0, n - 1} : \A y \in {0, n - 1} : x >= y) = n - 1
    BY <2>1
  <2> QED
    BY <1>2, <2>2 DEF NextActive, Max
<1> QED
  BY <1>1, <1>2

LEMMA InitCountInv == FlowInit => CountInv
<1> SUFFICES ASSUME FlowInit PROVE CountInv
  OBVIOUS
<1>1. RowsWritten = Opened /\ ActiveRows = Opened
  BY FlowAssumption DEF FlowInit, RowsWritten, ActiveRows
<1>2. Cardinality(Opened) \in Nat
  BY FlowAssumption, FS_Subset, FS_CardinalityType
<1>3. FlowRest
  BY FlowAssumption DEF FlowInit, FlowRest
<1>4. CountsBounded
  BY <1>1, <1>2 DEF FlowInit, CountsBounded, NoClaim
<1>5. CountsExact
  BY <1>1 DEF FlowInit, CountsExact, NoClaim
<1> QED
  BY <1>3, <1>4, <1>5 DEF CountInv

\* A step that moves no row keeps the counts, as long as each claim keeps its count or takes
\* over the counter or none, and is loaded with an ACTIVE row only.
LEMMA RowsAtRest ==
  ASSUME CountsBounded, CountsExact, FlowShape, UNCHANGED rowVars,
         \A t \in Tabs :
            /\ claim'[t].count \in {0, active, claim[t].count}
            /\ claim'[t].pc \in {"loaded", "settling"} =>
                  \/ claim'[t].found = "ACTIVE"
                  \/ claim'[t].found = claim[t].found /\ claim[t].pc \in {"loaded", "settling"}
  PROVE  CountsBounded' /\ CountsExact'
<1>1. RowsWritten' = RowsWritten /\ ActiveRows' = ActiveRows
  BY DEF RowsWritten, ActiveRows, rowVars
<1>2. Cardinality(RowsWritten) \in Nat
  BY RowsAreFinite
<1> QED
  BY <1>1, <1>2 DEF CountsBounded, CountsExact, rowVars

\* Only PersistStake and CommitClaim move a row.
LEMMA CountsStep ==
  FlowInv /\ CountInv /\ [FlowNext]_flowVars => CountsBounded' /\ CountsExact'
<1> SUFFICES ASSUME FlowInv, CountInv, [FlowNext]_flowVars
             PROVE  CountsBounded' /\ CountsExact'
  OBVIOUS
<1> USE DEF FlowInv, CountInv, chainVars, mirrorVars, sessionVars, stakeVars
<1>r. \A t \in Tabs : claim[t] \in ClaimRecords
  BY DEF FlowShape
<1>u. ASSUME UNCHANGED <<rowVars, claim>> PROVE CountsBounded' /\ CountsExact'
  BY <1>u, RowsAtRest DEF CountsExact
<1>n. ASSUME NEW t \in Tabs, UNCHANGED rowVars, claim' = [claim EXCEPT ![t] = NoClaim]
      PROVE  CountsBounded' /\ CountsExact'
  <2>1. NoClaim.count = 0 /\ NoClaim.pc = "idle"
    BY DEF NoClaim
  <2>2. \A v \in Tabs : claim'[v] = IF v = t THEN NoClaim ELSE claim[v]
    BY <1>n DEF FlowShape
  <2> QED
    BY <1>n, <2>1, <2>2, RowsAtRest DEF CountsExact
<1>p. ASSUME NEW t \in Tabs, NEW to \in ClaimStates \ {"loaded", "settling"}, UNCHANGED rowVars,
             claim' = [claim EXCEPT ![t].pc = to]
      PROVE  CountsBounded' /\ CountsExact'
  <2>1. \A v \in Tabs : claim'[v].count = claim[v].count
        /\ (claim'[v].pc \in {"loaded", "settling"} => claim'[v] = claim[v])
    BY <1>p, <1>r DEF FlowShape, ClaimRecords, ClaimStates
  <2> QED
    BY <1>p, <2>1, RowsAtRest DEF CountsExact
<1>1. CASE UNCHANGED flowVars
  BY <1>1, <1>u DEF flowVars, rowVars
<1>2. ASSUME NEW s \in Stakes, PrepareStake(s) PROVE CountsBounded' /\ CountsExact'
  BY <1>2, <1>u DEF PrepareStake
<1>3. ASSUME NEW s \in Stakes,
             ExecuteStake(s) \/ ConfirmStake(s) \/ GiveUpConfirming(s) \/ StakeFails(s)
      PROVE  CountsBounded' /\ CountsExact'
  BY <1>3, <1>u DEF ExecuteStake, ConfirmStake, GiveUpConfirming, StakeFails
<1>4. ASSUME NEW s \in Stakes, PersistStake(s) PROVE CountsBounded' /\ CountsExact'
  <2>1. row[s] = "none"
    BY <1>4 DEF PersistStake, Advance, RunKnows
  <2>2. /\ row' = [row EXCEPT ![s] = "ACTIVE"] /\ active' = active + 1
        /\ UNCHANGED <<settled, raced, claim>>
    BY <1>4 DEF PersistStake
  <2>3. /\ RowsWritten' = RowsWritten \cup {s} /\ ActiveRows' = ActiveRows \cup {s}
        /\ s \notin RowsWritten /\ s \notin ActiveRows
    BY <2>1, <2>2 DEF RowsWritten, ActiveRows, FlowShape
  <2>4. /\ Cardinality(RowsWritten') = Cardinality(RowsWritten) + 1
        /\ Cardinality(ActiveRows') = Cardinality(ActiveRows) + 1
    BY <2>3, RowsAreFinite, FS_AddElement
  <2>5. CountsBounded'
    <3>1. \A t \in Tabs : claim[t].count \in Nat
      BY <1>r DEF ClaimRecords
    <3>2. active \in Nat
      BY DEF FlowShape
    <3> QED
      BY <2>2, <2>4, <3>1, <3>2, RowsAreFinite DEF CountsBounded
  <2>6. \A q \in Stakes : (row'[q] = "CLAIMED") <=> (row[q] = "CLAIMED")
    BY <2>1, <2>2 DEF FlowShape
  <2>7. CountsExact'
    BY <2>2, <2>4, <2>6 DEF CountsExact
  <2> QED
    BY <2>5, <2>7
<1>5. ASSUME NEW s \in Stakes, StakeSync(s) PROVE CountsBounded' /\ CountsExact'
  BY <1>5, <1>u DEF StakeSync, MirrorStake, LogStake, StakeMirrorFails
<1>6. ASSUME NEW s \in Stakes, LandStake(s) \/ Mature(s) \/ SessionExpires(s)
      PROVE  CountsBounded' /\ CountsExact'
  BY <1>6, <1>u DEF LandStake, Mature, SessionExpires
<1>7. ASSUME NEW s \in Stakes, NEW h \in Blockhashes, LandClaim(s, h)
      PROVE  CountsBounded' /\ CountsExact'
  BY <1>7, <1>u DEF LandClaim
<1>8. ASSUME NEW t \in Tabs, NEW s \in Stakes, PrepareClaim(t, s)
      PROVE  CountsBounded' /\ CountsExact'
  <2>1. [NoClaim EXCEPT !.pc = "prepared", !.stake = s, !.hash = now].count = 0
        /\ [NoClaim EXCEPT !.pc = "prepared", !.stake = s, !.hash = now].pc = "prepared"
    BY DEF NoClaim
  <2>2. \A v \in Tabs : claim'[v] = IF v = t
           THEN [NoClaim EXCEPT !.pc = "prepared", !.stake = s, !.hash = now] ELSE claim[v]
    BY <1>8 DEF PrepareClaim, FlowShape
  <2>3. \A v \in Tabs : v # t => claim'[v] = claim[v]
    BY <2>2
  <2>4. claim'[t].count = 0 /\ claim'[t].pc = "prepared"
    BY <2>1, <2>2
  <2>5. \A v \in Tabs : /\ claim'[v].count \in {0, claim[v].count}
                        /\ claim'[v].pc \in {"loaded", "settling"} => claim'[v] = claim[v]
    BY <2>3, <2>4
  <2>6. UNCHANGED rowVars
    BY <1>8 DEF PrepareClaim
  <2> QED
    BY <2>5, <2>6, RowsAtRest DEF CountsExact
<1>9. ASSUME NEW t \in Tabs, ExecuteClaim(t) PROVE CountsBounded' /\ CountsExact'
  BY <1>9, <1>p DEF ExecuteClaim, Turn, ClaimStates
<1>10. ASSUME NEW t \in Tabs, ConfirmClaim(t) PROVE CountsBounded' /\ CountsExact'
  BY <1>10, <1>p DEF ConfirmClaim, Turn, ClaimStates
<1>11. ASSUME NEW t \in Tabs, ClaimFails(t) \/ LogClaim(t) \/ ClaimMirrorFails(t)
       PROVE  CountsBounded' /\ CountsExact'
  BY <1>11, <1>n DEF ClaimFails, LogClaim, ClaimMirrorFails
<1>12. ASSUME NEW t \in Tabs, LoadRow(t) PROVE CountsBounded' /\ CountsExact'
  <2>1. CASE ~Settleable(row[claim[t].stake])
    BY <1>12, <2>1, <1>n DEF LoadRow
  <2>2. CASE Settleable(row[claim[t].stake])
    <3>1. claim' = [claim EXCEPT ![t].pc = "loaded", ![t].found = row[claim[t].stake]]
      BY <1>12, <2>2 DEF LoadRow
    <3>2. claim'[t].count = claim[t].count /\ claim'[t].found = "ACTIVE"
      BY <3>1, <1>r, <2>2 DEF Settleable, FlowShape, ClaimRecords
    <3>3. \A v \in Tabs : v # t => claim'[v] = claim[v]
      BY <3>1 DEF FlowShape
    <3>4. UNCHANGED rowVars
      BY <1>12 DEF LoadRow
    <3>5. \A v \in Tabs : /\ claim'[v].count = claim[v].count
                          /\ claim'[v].found = "ACTIVE" \/ claim'[v] = claim[v]
      BY <3>2, <3>3
    <3> QED
      BY <3>4, <3>5, RowsAtRest DEF CountsExact
  <2> QED
    BY <2>1, <2>2
<1>13. ASSUME NEW t \in Tabs, ReadCount(t) PROVE CountsBounded' /\ CountsExact'
  <2>1. claim' = [claim EXCEPT ![t].pc = "settling", ![t].count = active] /\ claim[t].pc = "loaded"
    BY <1>13 DEF ReadCount
  <2>2. claim'[t].count = active /\ claim'[t].found = claim[t].found
    BY <2>1, <1>r DEF FlowShape, ClaimRecords
  <2>3. \A v \in Tabs : v # t => claim'[v] = claim[v]
    BY <2>1 DEF FlowShape
  <2>4. UNCHANGED rowVars
    BY <1>13 DEF ReadCount
  <2>5. \A v \in Tabs : /\ claim'[v].count \in {active, claim[v].count}
                        /\ \/ claim'[v] = claim[v]
                           \/ claim'[v].found = claim[v].found /\ claim[v].pc = "loaded"
    BY <2>1, <2>2, <2>3
  <2> QED
    BY <2>4, <2>5, RowsAtRest DEF CountsExact
<1>14. ASSUME NEW t \in Tabs, CommitClaim(t) PROVE CountsBounded' /\ CountsExact'
  <2> DEFINE s == claim[t].stake
  <2>1. /\ claim[t].pc = "settling" /\ claim' = [claim EXCEPT ![t].pc = "mirroring"]
        /\ row' = [row EXCEPT ![s] = "CLAIMED"]
        /\ settled' = [settled EXCEPT ![s] = @ + 1]
        /\ active' = NextActive(claim[t].count)
        /\ raced' = (raced \/ row[s] # claim[t].found \/ active # claim[t].count)
    BY <1>14 DEF CommitClaim, Turn
  <2>2. s \in Stakes /\ row[s] # "none" /\ claim[t].found = "ACTIVE" /\ claim[t].count \in Nat
    BY <2>1, <1>r DEF ClaimRecords, ClaimKnows, CountsExact
  <2>3. \A v \in Tabs : claim'[v].count = claim[v].count
        /\ (claim'[v].pc \in {"loaded", "settling"} => claim'[v] = claim[v])
    BY <2>1, <1>r DEF FlowShape, ClaimRecords
  <2> HIDE DEF s
  <2>4. RowsWritten' = RowsWritten /\ ActiveRows' = ActiveRows \ {s}
    BY <2>1, <2>2 DEF RowsWritten, ActiveRows, FlowShape
  <2>5. active' = IF claim[t].count = 0 THEN 0 ELSE claim[t].count - 1
    BY <2>1, <2>2, NextActiveIs
  <2>6. CountsBounded'
    BY <2>2, <2>3, <2>4, <2>5, RowsAreFinite DEF CountsBounded
  <2>7. ASSUME ~raced'
        PROVE  /\ active' = Cardinality(ActiveRows')
               /\ \A q \in Stakes : settled'[q] = IF row'[q] = "CLAIMED" THEN 1 ELSE 0
    <3>1. ~raced /\ row[s] = "ACTIVE" /\ active = claim[t].count
      BY <2>1, <2>2, <2>7
    <3>2. s \in ActiveRows /\ active = Cardinality(ActiveRows)
      BY <2>2, <3>1 DEF ActiveRows, CountsExact
    <3>3. Cardinality(ActiveRows \ {s}) = Cardinality(ActiveRows) - 1
      BY <3>2, RowsAreFinite, FS_RemoveElement
    <3>4. ActiveRows # {}
      BY <3>2
    <3>5. Cardinality(ActiveRows) # 0
      BY <3>4, RowsAreFinite, FS_EmptySet
    <3>6. active' = Cardinality(ActiveRows')
      BY <2>4, <2>5, <3>1, <3>2, <3>3, <3>5
    <3>7. settled[s] = 0
      BY <2>2, <3>1 DEF CountsExact
    <3>8. \A q \in Stakes : settled'[q] = IF row'[q] = "CLAIMED" THEN 1 ELSE 0
      BY <2>1, <2>2, <3>1, <3>7 DEF CountsExact, FlowShape, FlowRest
    <3> QED
      BY <3>6, <3>8
  <2>8. CountsExact'
    BY <2>3, <2>7 DEF CountsExact
  <2> QED
    BY <2>6, <2>8
<1>15. ASSUME NEW t \in Tabs, MirrorClaim(t) PROVE CountsBounded' /\ CountsExact'
  BY <1>15, <1>p DEF MirrorClaim, Turn, ClaimStates
<1>16. CASE NewBlockhash \/ SetBlocked
  BY <1>16, <1>u DEF NewBlockhash, SetBlocked
<1> QED
  BY <1>1, <1>2, <1>3, <1>4, <1>5, <1>6, <1>7, <1>8, <1>9, <1>10, <1>11, <1>12, <1>13, <1>14,
     <1>15, <1>16
  DEF FlowNext, StakeRequest, ClaimRequest, ClaimSync

LEMMA CountInvariance == FlowSpec => []CountInv
<1>1. FlowInit => CountInv
  BY InitCountInv
<1>2. FlowInv /\ CountInv /\ [FlowNext]_flowVars => CountInv'
  BY CountsStep, FlowRestStep DEF CountInv, FlowInv
<1> QED
  BY <1>1, <1>2, FlowInvariant, PTL DEF FlowSpec

\* What the invariant says of the properties.
LEMMA CountsAreCounted == FlowInv /\ CountInv => SettledOnce /\ CountIsExact /\ FlowTypeOK
<1> SUFFICES ASSUME FlowInv, CountInv PROVE SettledOnce /\ CountIsExact /\ FlowTypeOK
  OBVIOUS
<1> USE DEF FlowInv, CountInv
<1>1. SettledOnce
  BY DEF SettledOnce, CountsExact, FlowRest
<1>2. CountIsExact
  BY DEF CountIsExact, CountsExact, ActiveRows
<1>3. FlowTypeOK
  <2>1. active \in 0 .. Cardinality(Stakes)
    BY RowsAreFinite DEF CountsBounded, FlowShape
  <2>2. \A t \in Tabs : claim[t].count \in 0 .. Cardinality(Stakes) /\ claim[t] \in ClaimRecords
    BY RowsAreFinite DEF CountsBounded, FlowShape, ClaimRecords
  <2>3. claim \in [Tabs -> [pc: ClaimStates, stake: Stakes, hash: Blockhashes \cup {0},
                            found: {"ACTIVE", "CLAIMED"}, count: 0 .. Cardinality(Stakes)]]
    <3>1. \A r \in ClaimRecords : r.count \in 0 .. Cardinality(Stakes) =>
             r \in [pc: ClaimStates, stake: Stakes, hash: Blockhashes \cup {0},
                    found: {"ACTIVE", "CLAIMED"}, count: 0 .. Cardinality(Stakes)]
      BY DEF ClaimRecords
    <3>2. claim \in [Tabs -> ClaimRecords]
      BY DEF FlowShape
    <3> QED
      BY <2>2, <3>1, <3>2
  <2> QED
    BY <2>1, <2>3 DEF FlowTypeOK, FlowShape, FlowRest, RunStates, ClaimStates, Mirrored
<1> QED
  BY <1>1, <1>2, <1>3

-----------------------------------------------------------------------------
(* The calls of a wallet.                                                   *)

AskFields == {"kind", "pc", "net", "id", "role", "blocked", "from", "barred"}

\* The part of the shape that the argument needs.
CallsShape ==
    /\ ask = [c \in Handlers |-> ask[c]]
    /\ \A c \in Handlers :
          AskFields \subseteq DOMAIN ask[c] /\ {ask[c].barred, ask[c].blocked} \subseteq BOOLEAN
    /\ prepared = [f \in Flows |-> prepared[f]]
    /\ {"id", "role", "blocked"} \subseteq DOMAIN user /\ user.id \in Nat
    /\ user.blocked \in BOOLEAN
    /\ {"net", "user", "live"} \subseteq DOMAIN position /\ isListed \in BOOLEAN
    /\ acts \in Nat

\* A call about to send is on the network of what it loaded.
SendsWhereLoaded == \A c \in Handlers : ask[c].pc = "send" => ask[c].from = ask[c].net

\* A wallet that is still barred has its row blocked and is not listed, and a call that has
\* read the row has seen it blocked and will not find an administrator.
BarredIsSeen ==
    \A c \in Handlers : ask[c].barred =>
        /\ user.id # 0 /\ user.blocked /\ ~isListed
        /\ ask[c].pc \in {"row", "role", "sync"}
        /\ ask[c].pc = "role" => ask[c].blocked
        /\ ask[c].pc = "sync" => ask[c].role = "USER"

\* There is a user wherever there is a row.
RowsHaveAUser == (rows # {} \/ position.live) => user.id # 0

CallsInv ==
    CallsShape /\ SendsWhereLoaded /\ BarredIsSeen /\ RowsHaveAUser
    /\ RanWherePrepared /\ BlockedGetNothing /\ RowsHaveTheirUser

Kinds == Upserting \cup Loading

LEMMA InitCallsInv == CallsInit => CallsInv
<1> SUFFICES ASSUME CallsInit PROVE CallsInv
  OBVIOUS
<1>1. /\ {"id", "role", "blocked"} \subseteq DOMAIN user
      /\ user.id \in {0, 1} /\ user.blocked \in BOOLEAN /\ acts = 0 /\ isListed \in BOOLEAN
  <2>1. CASE user = [id |-> 0, role |-> "USER", blocked |-> FALSE]
    BY <2>1 DEF CallsInit
  <2>2. CASE user = [id |-> 1, role |-> Resolved, blocked |-> ~isListed]
    BY <2>2 DEF CallsInit
  <2> QED
    BY <2>1, <2>2 DEF CallsInit
<1>2. /\ prepared = [f \in Flows |-> prepared[f]]
      /\ \/ position = NonePrepared
         \/ position = Kept("devnet", 1) /\ user.id # 0
            /\ sends = {[flow |-> "stake", from |-> "devnet", on |-> "devnet"]}
      /\ \/ sends = {}
         \/ sends = {[flow |-> "stake", from |-> "devnet", on |-> "devnet"]}
  BY DEF CallsInit
<1>3. {"net", "user", "live"} \subseteq DOMAIN position
  BY <1>2 DEF NonePrepared, Kept
<1>4. ask = [c \in Handlers |-> NoAsk] /\ rows = {}
  BY DEF CallsInit
<1>5. CallsShape
  <2>1. /\ AskFields \subseteq DOMAIN NoAsk
        /\ NoAsk.barred = FALSE /\ NoAsk.blocked = FALSE
    BY DEF AskFields, NoAsk
  <2>2. ask = [c \in Handlers |-> ask[c]] /\ \A c \in Handlers : ask[c] = NoAsk
    BY <1>4
  <2>3. /\ ask = [c \in Handlers |-> ask[c]]
        /\ \A c \in Handlers : /\ AskFields \subseteq DOMAIN ask[c]
                               /\ {ask[c].barred, ask[c].blocked} \subseteq BOOLEAN
    BY <2>1, <2>2
  <2>4. user.id \in Nat /\ acts \in Nat
    BY <1>1
  <2> QED
    BY <1>1, <1>2, <1>3, <2>3, <2>4 DEF CallsShape
<1>6. SendsWhereLoaded /\ BarredIsSeen /\ BlockedGetNothing
  BY <1>4 DEF NoAsk, SendsWhereLoaded, BarredIsSeen, BlockedGetNothing
<1>7. RanWherePrepared
  <2>1. \A t \in sends : t.from = t.on
    BY <1>2
  <2>2. ASSUME position.live PROVE \E t \in sends : t.flow = "stake" /\ t.on = position.net
    <3>1. position # NonePrepared
      BY <2>2 DEF NonePrepared
    <3>2. /\ sends = {[flow |-> "stake", from |-> "devnet", on |-> "devnet"]}
          /\ position.net = "devnet"
      BY <1>2, <3>1 DEF Kept
    <3> QED
      BY <3>2
  <2> QED
    BY <2>1, <2>2 DEF RanWherePrepared
<1>8. RowsHaveAUser /\ RowsHaveTheirUser
  <2>1. position.live => user.id = 1 /\ position.user = 1
    BY <1>1, <1>2 DEF Kept, NonePrepared
  <2> QED
    BY <1>4, <2>1 DEF RowsHaveAUser, RowsHaveTheirUser
<1> QED
  BY <1>5, <1>6, <1>7, <1>8 DEF CallsInv

LEMMA CallsShapeStep == CallsShape /\ [CallsNext]_callsVars => CallsShape'
<1> SUFFICES ASSUME CallsShape, [CallsNext]_callsVars PROVE CallsShape'
  OBVIOUS
<1> USE DEF CallsShape, AskFields, NoAsk, NonePrepared, adminVars, recordVars
<1>1. CASE UNCHANGED callsVars
  BY <1>1 DEF callsVars
<1>2. ASSUME NEW c \in Handlers, NEW k \in Kinds, Comes(c, k) PROVE CallsShape'
  BY <1>2 DEF Comes, BarredNow
<1>3. ASSUME NEW c \in Handlers, HandlerFails(c) PROVE CallsShape'
  BY <1>3 DEF HandlerFails
<1>4. ASSUME NEW c \in Handlers, ReadRow(c) PROVE CallsShape'
  BY <1>4 DEF ReadRow, Passed
<1>5. ASSUME NEW c \in Handlers, ReadRole(c) PROVE CallsShape'
  <2>1. Agrees(c) => ~Blocked(ask[c]) /\ ask' = [ask EXCEPT ![c] = Passed(ask[c])]
    BY <1>5 DEF ReadRole
  <2>2. ~Agrees(c) => ask' = [ask EXCEPT ![c] = [ask[c] EXCEPT !.pc = "sync", !.role = Resolved]]
    BY <1>5 DEF ReadRole
  <2>3. ask[c].pc = "role" /\ UNCHANGED <<headerSeen, user, geo, asked, adminVars, recordVars>>
    BY <1>5 DEF ReadRole
  <2>4. CASE Agrees(c)
    BY <2>1, <2>3, <2>4 DEF Passed
  <2>5. CASE ~Agrees(c)
    BY <2>2, <2>3, <2>5
  <2> QED
    BY <2>4, <2>5
<1>6. ASSUME NEW c \in Handlers, SyncRow(c) PROVE CallsShape'
  BY <1>6 DEF SyncRow, Passed
<1>7. ASSUME NEW c \in Handlers, KnowCountry(c) PROVE CallsShape'
  BY <1>7 DEF KnowCountry, To
<1>8. ASSUME NEW c \in Handlers, FindUser(c) PROVE CallsShape'
  BY <1>8 DEF FindUser
<1>9. ASSUME NEW c \in Handlers, PutUser(c) PROVE CallsShape'
  <2>1. \/ user' = [id |-> acts + 1, role |-> ask[c].role, blocked |-> FALSE]
        \/ user' = [user EXCEPT !.role = ask[c].role]
    BY <1>9 DEF PutUser
  <2>2. {"id", "role", "blocked"} \subseteq DOMAIN user' /\ user'.id \in Nat
    BY <2>1
  <2>3. user'.blocked \in BOOLEAN
    <3>1. CASE user' = [id |-> acts + 1, role |-> ask[c].role, blocked |-> FALSE]
      BY <3>1
    <3>2. CASE user' = [user EXCEPT !.role = ask[c].role]
      BY <3>2
    <3> QED
      BY <2>1, <3>1, <3>2
  <2> QED
    BY <1>9, <2>2, <2>3 DEF PutUser
<1>10. ASSUME NEW c \in Handlers, Answer(c) PROVE CallsShape'
  BY <1>10 DEF Answer
<1>11. ASSUME NEW c \in Handlers, SaveConvert(c) PROVE CallsShape'
  BY <1>11 DEF SaveConvert, HasUser, Kept
<1>12. ASSUME NEW c \in Handlers, NEW f \in Flows, SaveAside(c, f) PROVE CallsShape'
  BY <1>12 DEF SaveAside, Kept
<1>13. ASSUME NEW c \in Handlers, LoadPosition(c) PROVE CallsShape'
  BY <1>13 DEF LoadPosition, Loads, Fits
<1>14. ASSUME NEW c \in Handlers, LoadConvert(c) PROVE CallsShape'
  BY <1>14 DEF LoadConvert, Loads, Fits
<1>15. ASSUME NEW c \in Handlers, LoadStake(c) PROVE CallsShape'
  BY <1>15 DEF LoadStake, Loads, Fits
<1>16. ASSUME NEW c \in Handlers, LoadClaim(c) PROVE CallsShape'
  BY <1>16 DEF LoadClaim, Loads, Fits
<1>17. ASSUME NEW c \in Handlers, SendConvert(c) PROVE CallsShape'
  BY <1>17 DEF SendConvert, Send, To
<1>18. ASSUME NEW c \in Handlers, SendStake(c) PROVE CallsShape'
  BY <1>18 DEF SendStake, Send, To
<1>19. ASSUME NEW c \in Handlers, SendClaim(c) PROVE CallsShape'
  BY <1>19 DEF SendClaim, Send, To
<1>20. ASSUME NEW c \in Handlers, RecordConvert(c) PROVE CallsShape'
  BY <1>20 DEF RecordConvert, Records, Row, HasUser
<1>21. ASSUME NEW c \in Handlers, RecordStake(c) PROVE CallsShape'
  BY <1>21 DEF RecordStake, Records, Row, HasUser, Kept, Fits
<1>22. ASSUME NEW c \in Handlers, RecordClaim(c) PROVE CallsShape'
  BY <1>22 DEF RecordClaim, Records, Row, HasUser
<1>23. ASSUME NEW c \in Handlers, RecordActivity(c) PROVE CallsShape'
  BY <1>23 DEF RecordActivity, Records, Row, HasUser
<1>24. CASE HeaderExpires
  BY <1>24 DEF HeaderExpires
<1>25. CASE CountryAnswers
  BY <1>25 DEF CountryAnswers
<1>26. CASE CountryExpires
  BY <1>26 DEF CountryExpires
<1>27. ASSUME NEW f \in Flows, PreparedExpires(f) PROVE CallsShape'
  BY <1>27 DEF PreparedExpires
<1>28. CASE SwitchNetwork
  BY <1>28 DEF SwitchNetwork, Act
<1>29. CASE SwitchConnections
  BY <1>29 DEF SwitchConnections, Act
<1>30. CASE BlockUser
  BY <1>30 DEF BlockUser, Act
<1>31. CASE UnblockUser
  <2>1. /\ ask' = [c \in Handlers |-> ask'[c]]
        /\ \A c \in Handlers : /\ AskFields \subseteq DOMAIN ask'[c]
                               /\ {ask'[c].barred, ask'[c].blocked} \subseteq BOOLEAN
    BY <1>31 DEF UnblockUser, Unbarred
  <2> QED
    BY <1>31, <2>1 DEF UnblockUser, Act
<1>32. CASE DeleteUser
  <2>1. /\ ask' = [c \in Handlers |-> ask'[c]]
        /\ \A c \in Handlers : /\ AskFields \subseteq DOMAIN ask'[c]
                               /\ {ask'[c].barred, ask'[c].blocked} \subseteq BOOLEAN
    BY <1>32 DEF DeleteUser, Unbarred
  <2>2. user' = [id |-> 0, role |-> "USER", blocked |-> FALSE] /\ position' = NonePrepared
    BY <1>32 DEF DeleteUser
  <2>3. /\ {"id", "role", "blocked"} \subseteq DOMAIN user' /\ user'.id \in Nat
        /\ user'.blocked \in BOOLEAN /\ {"net", "user", "live"} \subseteq DOMAIN position'
    BY <2>2
  <2>4. prepared' = [prepared EXCEPT !["convert"] = NonePrepared]
    BY <1>32 DEF DeleteUser
  <2>5. acts' = acts + 1 /\ isListed' = isListed
    BY <1>32 DEF DeleteUser, Act
  <2>6. prepared' = [f \in Flows |-> prepared'[f]]
    BY <2>4
  <2> QED
    BY <2>1, <2>3, <2>5, <2>6
<1>33. CASE ListAdministrator
  <2>1. /\ ask' = [c \in Handlers |-> ask'[c]]
        /\ \A c \in Handlers : /\ AskFields \subseteq DOMAIN ask'[c]
                               /\ {ask'[c].barred, ask'[c].blocked} \subseteq BOOLEAN
    BY <1>33 DEF ListAdministrator, Unbarred
  <2> QED
    BY <1>33, <2>1 DEF ListAdministrator, Act
<1> QED
  BY <1>1, <1>2, <1>3, <1>4, <1>5, <1>6, <1>7, <1>8, <1>9, <1>10, <1>11, <1>12, <1>13,
     <1>14, <1>15, <1>16, <1>17, <1>18, <1>19, <1>20, <1>21, <1>22, <1>23, <1>24, <1>25,
     <1>26, <1>27, <1>28, <1>29, <1>30, <1>31, <1>32, <1>33
  DEF CallsNext, Enters, Passes, Works, SaveStake, SaveClaim, CallPreviewConvert,
        CallPrepareConvert, CallExecuteConvert, CallPreviewStake, CallPrepareStake,
        CallExecuteStake, CallCreateStake, CallPrepareClaim, CallExecuteClaim, CallClaim,
        CallCreateActivity, Kinds, Upserting, Previews, Loading, Flows

LEMMA SendStep ==
  ASSUME CallsShape, SendsWhereLoaded, RanWherePrepared, [CallsNext]_callsVars
  PROVE  SendsWhereLoaded' /\ RanWherePrepared'
<1> USE DEF CallsShape, AskFields, NoAsk, NonePrepared, SendsWhereLoaded, RanWherePrepared,
      Next1, Next2, adminVars, recordVars
<1>1. CASE UNCHANGED callsVars
  BY <1>1 DEF callsVars
<1>2. ASSUME NEW c \in Handlers, NEW k \in Kinds, Comes(c, k)
      PROVE  SendsWhereLoaded' /\ RanWherePrepared'
  BY <1>2 DEF Comes, BarredNow
<1>3. ASSUME NEW c \in Handlers, HandlerFails(c) PROVE SendsWhereLoaded' /\ RanWherePrepared'
  BY <1>3 DEF HandlerFails
<1>4. ASSUME NEW c \in Handlers, ReadRow(c) PROVE SendsWhereLoaded' /\ RanWherePrepared'
  BY <1>4 DEF ReadRow, Passed
<1>5. ASSUME NEW c \in Handlers, ReadRole(c) PROVE SendsWhereLoaded' /\ RanWherePrepared'
  <2>1. Agrees(c) => ~Blocked(ask[c]) /\ ask' = [ask EXCEPT ![c] = Passed(ask[c])]
    BY <1>5 DEF ReadRole
  <2>2. ~Agrees(c) => ask' = [ask EXCEPT ![c] = [ask[c] EXCEPT !.pc = "sync", !.role = Resolved]]
    BY <1>5 DEF ReadRole
  <2>3. ask[c].pc = "role" /\ UNCHANGED <<headerSeen, user, geo, asked, adminVars, recordVars>>
    BY <1>5 DEF ReadRole
  <2>4. CASE Agrees(c)
    <3>1. ask'[c] = Passed(ask[c]) /\ \A d \in Handlers \ {c} : ask'[d] = ask[d]
      BY <2>1, <2>4
    <3>2. Passed(ask[c]).pc # "send"
      BY DEF Passed
    <3> QED
      BY <2>3, <3>1, <3>2
  <2>5. CASE ~Agrees(c)
    BY <2>2, <2>3, <2>5
  <2> QED
    BY <2>4, <2>5
<1>6. ASSUME NEW c \in Handlers, SyncRow(c) PROVE SendsWhereLoaded' /\ RanWherePrepared'
  BY <1>6 DEF SyncRow, Passed
<1>7. ASSUME NEW c \in Handlers, KnowCountry(c) PROVE SendsWhereLoaded' /\ RanWherePrepared'
  BY <1>7 DEF KnowCountry, To
<1>8. ASSUME NEW c \in Handlers, FindUser(c) PROVE SendsWhereLoaded' /\ RanWherePrepared'
  BY <1>8 DEF FindUser
<1>9. ASSUME NEW c \in Handlers, PutUser(c) PROVE SendsWhereLoaded' /\ RanWherePrepared'
  BY <1>9 DEF PutUser
<1>10. ASSUME NEW c \in Handlers, Answer(c) PROVE SendsWhereLoaded' /\ RanWherePrepared'
  BY <1>10 DEF Answer
<1>11. ASSUME NEW c \in Handlers, SaveConvert(c) PROVE SendsWhereLoaded' /\ RanWherePrepared'
  BY <1>11 DEF SaveConvert, HasUser, Kept
<1>12. ASSUME NEW c \in Handlers, NEW f \in Flows, SaveAside(c, f)
      PROVE  SendsWhereLoaded' /\ RanWherePrepared'
  BY <1>12 DEF SaveAside, Kept
<1>13. ASSUME NEW c \in Handlers, LoadPosition(c) PROVE SendsWhereLoaded' /\ RanWherePrepared'
  BY <1>13 DEF LoadPosition, Loads, Fits
<1>14. ASSUME NEW c \in Handlers, LoadConvert(c) PROVE SendsWhereLoaded' /\ RanWherePrepared'
  BY <1>14 DEF LoadConvert, Loads, Fits
<1>15. ASSUME NEW c \in Handlers, LoadStake(c) PROVE SendsWhereLoaded' /\ RanWherePrepared'
  BY <1>15 DEF LoadStake, Loads, Fits
<1>16. ASSUME NEW c \in Handlers, LoadClaim(c) PROVE SendsWhereLoaded' /\ RanWherePrepared'
  BY <1>16 DEF LoadClaim, Loads, Fits
<1>17. ASSUME NEW c \in Handlers, SendConvert(c) PROVE SendsWhereLoaded' /\ RanWherePrepared'
  BY <1>17 DEF SendConvert, Send, To
<1>18. ASSUME NEW c \in Handlers, SendStake(c) PROVE SendsWhereLoaded' /\ RanWherePrepared'
  BY <1>18 DEF SendStake, Send, To
<1>19. ASSUME NEW c \in Handlers, SendClaim(c) PROVE SendsWhereLoaded' /\ RanWherePrepared'
  BY <1>19 DEF SendClaim, Send, To
<1>20. ASSUME NEW c \in Handlers, RecordConvert(c) PROVE SendsWhereLoaded' /\ RanWherePrepared'
  BY <1>20 DEF RecordConvert, Records, Row, HasUser
<1>21. ASSUME NEW c \in Handlers, RecordStake(c) PROVE SendsWhereLoaded' /\ RanWherePrepared'
  BY <1>21 DEF RecordStake, Records, Row, HasUser, Kept, Fits
<1>22. ASSUME NEW c \in Handlers, RecordClaim(c) PROVE SendsWhereLoaded' /\ RanWherePrepared'
  BY <1>22 DEF RecordClaim, Records, Row, HasUser
<1>23. ASSUME NEW c \in Handlers, RecordActivity(c) PROVE SendsWhereLoaded' /\ RanWherePrepared'
  BY <1>23 DEF RecordActivity, Records, Row, HasUser
<1>24. CASE HeaderExpires
  BY <1>24 DEF HeaderExpires
<1>25. CASE CountryAnswers
  BY <1>25 DEF CountryAnswers
<1>26. CASE CountryExpires
  BY <1>26 DEF CountryExpires
<1>27. ASSUME NEW f \in Flows, PreparedExpires(f) PROVE SendsWhereLoaded' /\ RanWherePrepared'
  BY <1>27 DEF PreparedExpires
<1>28. CASE SwitchNetwork
  BY <1>28 DEF SwitchNetwork, Act
<1>29. CASE SwitchConnections
  BY <1>29 DEF SwitchConnections, Act
<1>30. CASE BlockUser
  BY <1>30 DEF BlockUser, Act
<1>31. CASE UnblockUser
  BY <1>31 DEF UnblockUser, Act, Unbarred
<1>32. CASE DeleteUser
  BY <1>32 DEF DeleteUser, Act, Unbarred
<1>33. CASE ListAdministrator
  BY <1>33 DEF ListAdministrator, Act, Unbarred
<1> QED
  BY <1>1, <1>2, <1>3, <1>4, <1>5, <1>6, <1>7, <1>8, <1>9, <1>10, <1>11, <1>12, <1>13,
     <1>14, <1>15, <1>16, <1>17, <1>18, <1>19, <1>20, <1>21, <1>22, <1>23, <1>24, <1>25,
     <1>26, <1>27, <1>28, <1>29, <1>30, <1>31, <1>32, <1>33
  DEF CallsNext, Enters, Passes, Works, SaveStake, SaveClaim, CallPreviewConvert,
        CallPrepareConvert, CallExecuteConvert, CallPreviewStake, CallPrepareStake,
        CallExecuteStake, CallCreateStake, CallPrepareClaim, CallExecuteClaim, CallClaim,
        CallCreateActivity, Kinds, Upserting, Previews, Loading, Flows

LEMMA BarredStep ==
  ASSUME CallsShape, BarredIsSeen, [CallsNext]_callsVars
  PROVE  BarredIsSeen'
<1> USE DEF CallsShape, AskFields, NoAsk, BarredIsSeen, Checked, Resolved, Blocked, adminVars,
      recordVars
<1>1. CASE UNCHANGED callsVars
  BY <1>1 DEF callsVars
<1>2. ASSUME NEW c \in Handlers, NEW k \in Kinds, Comes(c, k) PROVE BarredIsSeen'
  BY <1>2 DEF Comes, BarredNow
<1>3. ASSUME NEW c \in Handlers, HandlerFails(c) PROVE BarredIsSeen'
  BY <1>3 DEF HandlerFails
<1>4. ASSUME NEW c \in Handlers, ReadRow(c) PROVE BarredIsSeen'
  BY <1>4 DEF ReadRow, Passed
<1>5. ASSUME NEW c \in Handlers, ReadRole(c) PROVE BarredIsSeen'
  <2>1. Agrees(c) => ~Blocked(ask[c]) /\ ask' = [ask EXCEPT ![c] = Passed(ask[c])]
    BY <1>5 DEF ReadRole
  <2>2. ~Agrees(c) => ask' = [ask EXCEPT ![c] = [ask[c] EXCEPT !.pc = "sync", !.role = Resolved]]
    BY <1>5 DEF ReadRole
  <2>3. ask[c].pc = "role" /\ UNCHANGED <<headerSeen, user, geo, asked, adminVars, recordVars>>
    BY <1>5 DEF ReadRole
  <2>4. CASE Agrees(c)
    <3>1. ~ask[c].barred
      BY <2>1, <2>3, <2>4 DEF Agrees
    <3>2. ask'[c].barred = ask[c].barred /\ \A d \in Handlers \ {c} : ask'[d] = ask[d]
      BY <2>1, <2>4 DEF Passed
    <3> QED
      BY <2>3, <3>1, <3>2
  <2>5. CASE ~Agrees(c)
    <3>1. /\ ask'[c].barred = ask[c].barred /\ ask'[c].pc = "sync" /\ ask'[c].role = Resolved
          /\ \A d \in Handlers \ {c} : ask'[d] = ask[d]
      BY <2>2, <2>5
    <3> QED
      BY <2>3, <3>1
  <2> QED
    BY <2>4, <2>5
<1>6. ASSUME NEW c \in Handlers, SyncRow(c) PROVE BarredIsSeen'
  BY <1>6 DEF SyncRow, Passed
<1>7. ASSUME NEW c \in Handlers, KnowCountry(c) PROVE BarredIsSeen'
  BY <1>7 DEF KnowCountry, To
<1>8. ASSUME NEW c \in Handlers, FindUser(c) PROVE BarredIsSeen'
  BY <1>8 DEF FindUser
<1>9. ASSUME NEW c \in Handlers, PutUser(c) PROVE BarredIsSeen'
  BY <1>9 DEF PutUser
<1>10. ASSUME NEW c \in Handlers, Answer(c) PROVE BarredIsSeen'
  BY <1>10 DEF Answer
<1>11. ASSUME NEW c \in Handlers, SaveConvert(c) PROVE BarredIsSeen'
  BY <1>11 DEF SaveConvert, HasUser, Kept
<1>12. ASSUME NEW c \in Handlers, NEW f \in Flows, SaveAside(c, f) PROVE BarredIsSeen'
  BY <1>12 DEF SaveAside, Kept
<1>13. ASSUME NEW c \in Handlers, LoadPosition(c) PROVE BarredIsSeen'
  BY <1>13 DEF LoadPosition, Loads, Fits
<1>14. ASSUME NEW c \in Handlers, LoadConvert(c) PROVE BarredIsSeen'
  BY <1>14 DEF LoadConvert, Loads, Fits
<1>15. ASSUME NEW c \in Handlers, LoadStake(c) PROVE BarredIsSeen'
  BY <1>15 DEF LoadStake, Loads, Fits
<1>16. ASSUME NEW c \in Handlers, LoadClaim(c) PROVE BarredIsSeen'
  BY <1>16 DEF LoadClaim, Loads, Fits
<1>17. ASSUME NEW c \in Handlers, SendConvert(c) PROVE BarredIsSeen'
  BY <1>17 DEF SendConvert, Send, To
<1>18. ASSUME NEW c \in Handlers, SendStake(c) PROVE BarredIsSeen'
  BY <1>18 DEF SendStake, Send, To
<1>19. ASSUME NEW c \in Handlers, SendClaim(c) PROVE BarredIsSeen'
  BY <1>19 DEF SendClaim, Send, To
<1>20. ASSUME NEW c \in Handlers, RecordConvert(c) PROVE BarredIsSeen'
  BY <1>20 DEF RecordConvert, Records, Row, HasUser
<1>21. ASSUME NEW c \in Handlers, RecordStake(c) PROVE BarredIsSeen'
  BY <1>21 DEF RecordStake, Records, Row, HasUser, Kept, Fits
<1>22. ASSUME NEW c \in Handlers, RecordClaim(c) PROVE BarredIsSeen'
  BY <1>22 DEF RecordClaim, Records, Row, HasUser
<1>23. ASSUME NEW c \in Handlers, RecordActivity(c) PROVE BarredIsSeen'
  BY <1>23 DEF RecordActivity, Records, Row, HasUser
<1>24. CASE HeaderExpires
  BY <1>24 DEF HeaderExpires
<1>25. CASE CountryAnswers
  BY <1>25 DEF CountryAnswers
<1>26. CASE CountryExpires
  BY <1>26 DEF CountryExpires
<1>27. ASSUME NEW f \in Flows, PreparedExpires(f) PROVE BarredIsSeen'
  BY <1>27 DEF PreparedExpires
<1>28. CASE SwitchNetwork
  BY <1>28 DEF SwitchNetwork, Act
<1>29. CASE SwitchConnections
  BY <1>29 DEF SwitchConnections, Act
<1>30. CASE BlockUser
  BY <1>30 DEF BlockUser, Act
<1>31. CASE UnblockUser
  BY <1>31 DEF UnblockUser, Act, Unbarred
<1>32. CASE DeleteUser
  BY <1>32 DEF DeleteUser, Act, Unbarred
<1>33. CASE ListAdministrator
  BY <1>33 DEF ListAdministrator, Act, Unbarred
<1> QED
  BY <1>1, <1>2, <1>3, <1>4, <1>5, <1>6, <1>7, <1>8, <1>9, <1>10, <1>11, <1>12, <1>13,
     <1>14, <1>15, <1>16, <1>17, <1>18, <1>19, <1>20, <1>21, <1>22, <1>23, <1>24, <1>25,
     <1>26, <1>27, <1>28, <1>29, <1>30, <1>31, <1>32, <1>33
  DEF CallsNext, Enters, Passes, Works, SaveStake, SaveClaim, CallPreviewConvert,
        CallPrepareConvert, CallExecuteConvert, CallPreviewStake, CallPrepareStake,
        CallExecuteStake, CallCreateStake, CallPrepareClaim, CallExecuteClaim, CallClaim,
        CallCreateActivity, Kinds, Upserting, Previews, Loading, Flows

LEMMA UserStep ==
  ASSUME CallsShape, RowsHaveAUser, RowsHaveTheirUser, [CallsNext]_callsVars
  PROVE  RowsHaveAUser' /\ RowsHaveTheirUser'
<1> USE DEF CallsShape, AskFields, NoAsk, NonePrepared, RowsHaveAUser, RowsHaveTheirUser,
      adminVars, recordVars
<1>1. CASE UNCHANGED callsVars
  BY <1>1 DEF callsVars
<1>2. ASSUME NEW c \in Handlers, NEW k \in Kinds, Comes(c, k)
      PROVE  RowsHaveAUser' /\ RowsHaveTheirUser'
  BY <1>2 DEF Comes, BarredNow
<1>3. ASSUME NEW c \in Handlers, HandlerFails(c) PROVE RowsHaveAUser' /\ RowsHaveTheirUser'
  BY <1>3 DEF HandlerFails
<1>4. ASSUME NEW c \in Handlers, ReadRow(c) PROVE RowsHaveAUser' /\ RowsHaveTheirUser'
  BY <1>4 DEF ReadRow, Passed
<1>5. ASSUME NEW c \in Handlers, ReadRole(c) PROVE RowsHaveAUser' /\ RowsHaveTheirUser'
  BY <1>5 DEF ReadRole, Passed, Agrees
<1>6. ASSUME NEW c \in Handlers, SyncRow(c) PROVE RowsHaveAUser' /\ RowsHaveTheirUser'
  BY <1>6 DEF SyncRow, Passed
<1>7. ASSUME NEW c \in Handlers, KnowCountry(c) PROVE RowsHaveAUser' /\ RowsHaveTheirUser'
  BY <1>7 DEF KnowCountry, To
<1>8. ASSUME NEW c \in Handlers, FindUser(c) PROVE RowsHaveAUser' /\ RowsHaveTheirUser'
  BY <1>8 DEF FindUser
<1>9. ASSUME NEW c \in Handlers, PutUser(c) PROVE RowsHaveAUser' /\ RowsHaveTheirUser'
  BY <1>9 DEF PutUser
<1>10. ASSUME NEW c \in Handlers, Answer(c) PROVE RowsHaveAUser' /\ RowsHaveTheirUser'
  BY <1>10 DEF Answer
<1>11. ASSUME NEW c \in Handlers, SaveConvert(c) PROVE RowsHaveAUser' /\ RowsHaveTheirUser'
  BY <1>11 DEF SaveConvert, HasUser, Kept
<1>12. ASSUME NEW c \in Handlers, NEW f \in Flows, SaveAside(c, f)
      PROVE  RowsHaveAUser' /\ RowsHaveTheirUser'
  BY <1>12 DEF SaveAside, Kept
<1>13. ASSUME NEW c \in Handlers, LoadPosition(c) PROVE RowsHaveAUser' /\ RowsHaveTheirUser'
  BY <1>13 DEF LoadPosition, Loads, Fits
<1>14. ASSUME NEW c \in Handlers, LoadConvert(c) PROVE RowsHaveAUser' /\ RowsHaveTheirUser'
  BY <1>14 DEF LoadConvert, Loads, Fits
<1>15. ASSUME NEW c \in Handlers, LoadStake(c) PROVE RowsHaveAUser' /\ RowsHaveTheirUser'
  BY <1>15 DEF LoadStake, Loads, Fits
<1>16. ASSUME NEW c \in Handlers, LoadClaim(c) PROVE RowsHaveAUser' /\ RowsHaveTheirUser'
  BY <1>16 DEF LoadClaim, Loads, Fits
<1>17. ASSUME NEW c \in Handlers, SendConvert(c) PROVE RowsHaveAUser' /\ RowsHaveTheirUser'
  BY <1>17 DEF SendConvert, Send, To
<1>18. ASSUME NEW c \in Handlers, SendStake(c) PROVE RowsHaveAUser' /\ RowsHaveTheirUser'
  BY <1>18 DEF SendStake, Send, To
<1>19. ASSUME NEW c \in Handlers, SendClaim(c) PROVE RowsHaveAUser' /\ RowsHaveTheirUser'
  BY <1>19 DEF SendClaim, Send, To
<1>20. ASSUME NEW c \in Handlers, RecordConvert(c) PROVE RowsHaveAUser' /\ RowsHaveTheirUser'
  BY <1>20 DEF RecordConvert, Records, Row, HasUser
<1>21. ASSUME NEW c \in Handlers, RecordStake(c) PROVE RowsHaveAUser' /\ RowsHaveTheirUser'
  BY <1>21 DEF RecordStake, Records, Row, HasUser, Kept, Fits
<1>22. ASSUME NEW c \in Handlers, RecordClaim(c) PROVE RowsHaveAUser' /\ RowsHaveTheirUser'
  BY <1>22 DEF RecordClaim, Records, Row, HasUser
<1>23. ASSUME NEW c \in Handlers, RecordActivity(c) PROVE RowsHaveAUser' /\ RowsHaveTheirUser'
  BY <1>23 DEF RecordActivity, Records, Row, HasUser
<1>24. CASE HeaderExpires
  BY <1>24 DEF HeaderExpires
<1>25. CASE CountryAnswers
  BY <1>25 DEF CountryAnswers
<1>26. CASE CountryExpires
  BY <1>26 DEF CountryExpires
<1>27. ASSUME NEW f \in Flows, PreparedExpires(f) PROVE RowsHaveAUser' /\ RowsHaveTheirUser'
  BY <1>27 DEF PreparedExpires
<1>28. CASE SwitchNetwork
  BY <1>28 DEF SwitchNetwork, Act
<1>29. CASE SwitchConnections
  BY <1>29 DEF SwitchConnections, Act
<1>30. CASE BlockUser
  BY <1>30 DEF BlockUser, Act
<1>31. CASE UnblockUser
  BY <1>31 DEF UnblockUser, Act, Unbarred
<1>32. CASE DeleteUser
  BY <1>32 DEF DeleteUser, Act, Unbarred
<1>33. CASE ListAdministrator
  BY <1>33 DEF ListAdministrator, Act, Unbarred
<1> QED
  BY <1>1, <1>2, <1>3, <1>4, <1>5, <1>6, <1>7, <1>8, <1>9, <1>10, <1>11, <1>12, <1>13,
     <1>14, <1>15, <1>16, <1>17, <1>18, <1>19, <1>20, <1>21, <1>22, <1>23, <1>24, <1>25,
     <1>26, <1>27, <1>28, <1>29, <1>30, <1>31, <1>32, <1>33
  DEF CallsNext, Enters, Passes, Works, SaveStake, SaveClaim, CallPreviewConvert,
        CallPrepareConvert, CallExecuteConvert, CallPreviewStake, CallPrepareStake,
        CallExecuteStake, CallCreateStake, CallPrepareClaim, CallExecuteClaim, CallClaim,
        CallCreateActivity, Kinds, Upserting, Previews, Loading, Flows

LEMMA CallsInvariant == CallsSpec => []CallsInv
<1>1. CallsInit => CallsInv
  BY InitCallsInv
<1>2. CallsInv /\ [CallsNext]_callsVars => CallsInv'
  <2>1. BarredIsSeen => BlockedGetNothing
    BY DEF BarredIsSeen, BlockedGetNothing
  <2>2. BarredIsSeen' => BlockedGetNothing'
    BY DEF BarredIsSeen, BlockedGetNothing
  <2> QED
    BY <2>2, CallsShapeStep, SendStep, BarredStep, UserStep DEF CallsInv
<1> QED
  BY <1>1, <1>2, PTL DEF CallsSpec

\* Whatever administrators do while the eleven calls run and overlap: a transaction goes to
\* the network it was prepared for, a wallet blocked before its call gets past the check in
\* none, and no row is left of a user who was deleted.
THEOREM GroundIsKept == CallsSpec => []CallsKeepTheirGround
<1>1. CallsInv => CallsKeepTheirGround
  BY DEF CallsInv, CallsKeepTheirGround
<1> QED
  BY <1>1, CallsInvariant, PTL

-----------------------------------------------------------------------------
(* The shape of the calls.                                                 *)

HeaderRecords == [on : BOOLEAN, net : CallNets]
UserRecords == [id : 0 .. MaxActs + 1, role : {"ADMIN", "USER"}, blocked : BOOLEAN]
\* The settings and counts; the calls; what is kept for later calls.
SettingsTyped ==
    /\ header \in HeaderRecords /\ headerSeen \in HeaderRecords \cup {Unread}
    /\ isListed \in BOOLEAN /\ geo \in {"none", "looking", "cached"}
    /\ asked \in 0 .. MaxAsked /\ acts \in 0 .. MaxActs
AsksTyped == \A c \in Handlers : ask[c].net \in CallNets /\ ask[c].role \in {"ADMIN", "USER"}
KeptTyped ==
    /\ \A f \in Flows : prepared[f].net \in CallNets \cup {"none"}
    /\ position.net \in CallNets \cup {"none"}
CallsTyped == SettingsTyped /\ AsksTyped /\ KeptTyped /\ user \in UserRecords

LEMMA InitCallsTyped == CallsInit => CallsTyped
<1> SUFFICES ASSUME CallsInit PROVE CallsTyped
  OBVIOUS
<1> USE WalletCallsAssumption
<1>1. user \in UserRecords
  <2>1. CASE user = [id |-> 0, role |-> "USER", blocked |-> FALSE]
    BY <2>1 DEF UserRecords
  <2>2. CASE user = [id |-> 1, role |-> Resolved, blocked |-> ~isListed]
    BY <2>2 DEF UserRecords, Resolved
  <2> QED
    BY <2>1, <2>2 DEF CallsInit
<1>2. SettingsTyped
  <2>1. header \in HeaderRecords
    <3>1. header \in [on : {TRUE}, net : {"devnet"}]
      BY DEF CallsInit
    <3>2. header = [on |-> TRUE, net |-> "devnet"]
      BY <3>1
    <3> QED
      BY <3>2 DEF HeaderRecords, CallNets
  <2> QED
    BY <2>1 DEF CallsInit, SettingsTyped
<1>3. AsksTyped
  BY DEF CallsInit, AsksTyped, NoAsk, CallNets
<1>4. \A f \in Flows : prepared[f].net \in CallNets \cup {"none"}
  BY DEF CallsInit, Kept, NonePrepared, CallNets
<1>5. position.net \in CallNets \cup {"none"}
  <2>1. position = NonePrepared \/ position = Kept("devnet", 1)
    BY DEF CallsInit
  <2>2. NonePrepared.net = "none" /\ Kept("devnet", 1).net = "devnet"
    BY DEF NonePrepared, Kept
  <2> QED
    BY <2>1, <2>2 DEF CallNets
<1> QED
  BY <1>1, <1>2, <1>3, <1>4, <1>5 DEF CallsTyped, KeptTyped

LEMMA SettingsTypedStep ==
  ASSUME SettingsTyped, [CallsNext]_callsVars
  PROVE  SettingsTyped'
<1> USE WalletCallsAssumption DEF SettingsTyped, adminVars, recordVars
<1>1. CASE UNCHANGED callsVars
  BY <1>1 DEF callsVars
<1>2. ASSUME NEW c \in Handlers, NEW k \in Kinds, Comes(c, k) PROVE SettingsTyped'
  BY <1>2 DEF Comes
<1>3. ASSUME NEW c \in Handlers, HandlerFails(c) PROVE SettingsTyped'
  BY <1>3 DEF HandlerFails
<1>4. ASSUME NEW c \in Handlers, ReadRow(c) PROVE SettingsTyped'
  BY <1>4 DEF ReadRow
<1>5. ASSUME NEW c \in Handlers, ReadRole(c) PROVE SettingsTyped'
  BY <1>5 DEF ReadRole
<1>6. ASSUME NEW c \in Handlers, SyncRow(c) PROVE SettingsTyped'
  BY <1>6 DEF SyncRow
<1>7. ASSUME NEW c \in Handlers, KnowCountry(c) PROVE SettingsTyped'
  BY <1>7 DEF KnowCountry, To
<1>8. ASSUME NEW c \in Handlers, FindUser(c) PROVE SettingsTyped'
  BY <1>8 DEF FindUser
<1>9. ASSUME NEW c \in Handlers, PutUser(c) PROVE SettingsTyped'
  BY <1>9 DEF PutUser
<1>10. ASSUME NEW c \in Handlers, Answer(c) PROVE SettingsTyped'
  BY <1>10 DEF Answer
<1>11. ASSUME NEW c \in Handlers, SaveConvert(c) PROVE SettingsTyped'
  BY <1>11 DEF SaveConvert
<1>12. ASSUME NEW c \in Handlers, NEW f \in Flows, SaveAside(c, f) PROVE SettingsTyped'
  BY <1>12 DEF SaveAside
<1>13. ASSUME NEW c \in Handlers, LoadPosition(c) PROVE SettingsTyped'
  BY <1>13 DEF LoadPosition, Loads
<1>14. ASSUME NEW c \in Handlers, LoadConvert(c) PROVE SettingsTyped'
  BY <1>14 DEF LoadConvert, Loads
<1>15. ASSUME NEW c \in Handlers, LoadStake(c) PROVE SettingsTyped'
  BY <1>15 DEF LoadStake, Loads
<1>16. ASSUME NEW c \in Handlers, LoadClaim(c) PROVE SettingsTyped'
  BY <1>16 DEF LoadClaim, Loads
<1>17. ASSUME NEW c \in Handlers, SendConvert(c) PROVE SettingsTyped'
  BY <1>17 DEF SendConvert, Send
<1>18. ASSUME NEW c \in Handlers, SendStake(c) PROVE SettingsTyped'
  BY <1>18 DEF SendStake, Send
<1>19. ASSUME NEW c \in Handlers, SendClaim(c) PROVE SettingsTyped'
  BY <1>19 DEF SendClaim, Send
<1>20. ASSUME NEW c \in Handlers, RecordConvert(c) PROVE SettingsTyped'
  BY <1>20 DEF RecordConvert, Records
<1>21. ASSUME NEW c \in Handlers, RecordStake(c) PROVE SettingsTyped'
  BY <1>21 DEF RecordStake, Records
<1>22. ASSUME NEW c \in Handlers, RecordClaim(c) PROVE SettingsTyped'
  BY <1>22 DEF RecordClaim, Records
<1>23. ASSUME NEW c \in Handlers, RecordActivity(c) PROVE SettingsTyped'
  BY <1>23 DEF RecordActivity, Records
<1>24. CASE HeaderExpires
  BY <1>24 DEF HeaderExpires
<1>25. CASE CountryAnswers
  BY <1>25 DEF CountryAnswers
<1>26. CASE CountryExpires
  BY <1>26 DEF CountryExpires
<1>27. ASSUME NEW f \in Flows, PreparedExpires(f) PROVE SettingsTyped'
  BY <1>27 DEF PreparedExpires
<1>28. CASE SwitchNetwork
  BY <1>28 DEF SwitchNetwork, Act, HeaderRecords, CallNets
<1>29. CASE SwitchConnections
  <2>1. header' = [header EXCEPT !.on = ~header.on]
    BY <1>29 DEF SwitchConnections
  <2>2. header' \in HeaderRecords
    BY <2>1 DEF HeaderRecords
  <2> QED
    BY <1>29, <2>2 DEF SwitchConnections, Act
<1>30. CASE BlockUser
  BY <1>30 DEF BlockUser, Act
<1>31. CASE UnblockUser
  BY <1>31 DEF UnblockUser, Act
<1>32. CASE DeleteUser
  BY <1>32 DEF DeleteUser, Act
<1>33. CASE ListAdministrator
  BY <1>33 DEF ListAdministrator, Act
<1> QED
  BY <1>1, <1>2, <1>3, <1>4, <1>5, <1>6, <1>7, <1>8, <1>9, <1>10, <1>11, <1>12,
     <1>13, <1>14, <1>15, <1>16, <1>17, <1>18, <1>19, <1>20, <1>21, <1>22, <1>23, <1>24,
     <1>25, <1>26, <1>27, <1>28, <1>29, <1>30, <1>31, <1>32, <1>33
  DEF CallsNext, Enters, Passes, Works, SaveStake, SaveClaim, CallPreviewConvert,
        CallPrepareConvert, CallExecuteConvert, CallPreviewStake, CallPrepareStake,
        CallExecuteStake, CallCreateStake, CallPrepareClaim, CallExecuteClaim, CallClaim,
        CallCreateActivity, Kinds, Upserting, Previews, Loading, Flows

LEMMA UserTypedStep ==
  ASSUME SettingsTyped, AsksTyped, user \in UserRecords, [CallsNext]_callsVars
  PROVE  user' \in UserRecords
<1> USE WalletCallsAssumption DEF adminVars, recordVars
<1>1. CASE UNCHANGED callsVars
  BY <1>1 DEF callsVars
<1>2. ASSUME NEW c \in Handlers, NEW k \in Kinds, Comes(c, k) PROVE user' \in UserRecords
  BY <1>2 DEF Comes
<1>3. ASSUME NEW c \in Handlers, HandlerFails(c) PROVE user' \in UserRecords
  BY <1>3 DEF HandlerFails
<1>4. ASSUME NEW c \in Handlers, ReadRow(c) PROVE user' \in UserRecords
  BY <1>4 DEF ReadRow
<1>5. ASSUME NEW c \in Handlers, ReadRole(c) PROVE user' \in UserRecords
  BY <1>5 DEF ReadRole
<1>6. ASSUME NEW c \in Handlers, SyncRow(c) PROVE user' \in UserRecords
  <2>1. ask[c].role \in {"ADMIN", "USER"}
    BY DEF AsksTyped
  <2>2. user' = [user EXCEPT !.role = ask[c].role,
                             !.blocked = user.blocked /\ ask[c].role # "ADMIN"]
    BY <1>6 DEF SyncRow
  <2> QED
    BY <2>1, <2>2 DEF UserRecords
<1>7. ASSUME NEW c \in Handlers, KnowCountry(c) PROVE user' \in UserRecords
  BY <1>7 DEF KnowCountry
<1>8. ASSUME NEW c \in Handlers, FindUser(c) PROVE user' \in UserRecords
  BY <1>8 DEF FindUser
<1>9. ASSUME NEW c \in Handlers, PutUser(c) PROVE user' \in UserRecords
  <2>1. ask[c].role \in {"ADMIN", "USER"} /\ acts \in 0 .. MaxActs
    BY DEF AsksTyped, SettingsTyped
  <2>2. \/ user' = [id |-> acts + 1, role |-> ask[c].role, blocked |-> FALSE]
        \/ user' = [user EXCEPT !.role = ask[c].role]
    BY <1>9 DEF PutUser
  <2>3. [id |-> acts + 1, role |-> ask[c].role, blocked |-> FALSE] \in UserRecords
    BY <2>1 DEF UserRecords
  <2>4. [user EXCEPT !.role = ask[c].role] \in UserRecords
    BY <2>1 DEF UserRecords
  <2> QED
    BY <2>2, <2>3, <2>4
<1>10. ASSUME NEW c \in Handlers, Answer(c) PROVE user' \in UserRecords
  BY <1>10 DEF Answer
<1>11. ASSUME NEW c \in Handlers, SaveConvert(c) PROVE user' \in UserRecords
  BY <1>11 DEF SaveConvert
<1>12. ASSUME NEW c \in Handlers, NEW f \in Flows, SaveAside(c, f) PROVE user' \in UserRecords
  BY <1>12 DEF SaveAside
<1>13. ASSUME NEW c \in Handlers, LoadPosition(c) PROVE user' \in UserRecords
  BY <1>13 DEF LoadPosition, Loads
<1>14. ASSUME NEW c \in Handlers, LoadConvert(c) PROVE user' \in UserRecords
  BY <1>14 DEF LoadConvert, Loads
<1>15. ASSUME NEW c \in Handlers, LoadStake(c) PROVE user' \in UserRecords
  BY <1>15 DEF LoadStake, Loads
<1>16. ASSUME NEW c \in Handlers, LoadClaim(c) PROVE user' \in UserRecords
  BY <1>16 DEF LoadClaim, Loads
<1>17. ASSUME NEW c \in Handlers, SendConvert(c) PROVE user' \in UserRecords
  BY <1>17 DEF SendConvert, Send
<1>18. ASSUME NEW c \in Handlers, SendStake(c) PROVE user' \in UserRecords
  BY <1>18 DEF SendStake, Send
<1>19. ASSUME NEW c \in Handlers, SendClaim(c) PROVE user' \in UserRecords
  BY <1>19 DEF SendClaim, Send
<1>20. ASSUME NEW c \in Handlers, RecordConvert(c) PROVE user' \in UserRecords
  BY <1>20 DEF RecordConvert, Records
<1>21. ASSUME NEW c \in Handlers, RecordStake(c) PROVE user' \in UserRecords
  BY <1>21 DEF RecordStake, Records
<1>22. ASSUME NEW c \in Handlers, RecordClaim(c) PROVE user' \in UserRecords
  BY <1>22 DEF RecordClaim, Records
<1>23. ASSUME NEW c \in Handlers, RecordActivity(c) PROVE user' \in UserRecords
  BY <1>23 DEF RecordActivity, Records
<1>24. CASE HeaderExpires
  BY <1>24 DEF HeaderExpires
<1>25. CASE CountryAnswers
  BY <1>25 DEF CountryAnswers
<1>26. CASE CountryExpires
  BY <1>26 DEF CountryExpires
<1>27. ASSUME NEW f \in Flows, PreparedExpires(f) PROVE user' \in UserRecords
  BY <1>27 DEF PreparedExpires
<1>28. CASE SwitchNetwork
  BY <1>28 DEF SwitchNetwork
<1>29. CASE SwitchConnections
  BY <1>29 DEF SwitchConnections
<1>30. CASE BlockUser
  BY <1>30 DEF BlockUser, UserRecords
<1>31. CASE UnblockUser
  BY <1>31 DEF UnblockUser, UserRecords, Resolved
<1>32. CASE DeleteUser
  BY <1>32 DEF DeleteUser, UserRecords
<1>33. CASE ListAdministrator
  BY <1>33 DEF ListAdministrator
<1> QED
  BY <1>1, <1>2, <1>3, <1>4, <1>5, <1>6, <1>7, <1>8, <1>9, <1>10, <1>11, <1>12,
     <1>13, <1>14, <1>15, <1>16, <1>17, <1>18, <1>19, <1>20, <1>21, <1>22, <1>23, <1>24,
     <1>25, <1>26, <1>27, <1>28, <1>29, <1>30, <1>31, <1>32, <1>33
  DEF CallsNext, Enters, Passes, Works, SaveStake, SaveClaim, CallPreviewConvert,
        CallPrepareConvert, CallExecuteConvert, CallPreviewStake, CallPrepareStake,
        CallExecuteStake, CallCreateStake, CallPrepareClaim, CallExecuteClaim, CallClaim,
        CallCreateActivity, Kinds, Upserting, Previews, Loading, Flows

LEMMA AsksTypedStep ==
  ASSUME CallsShape, SettingsTyped, AsksTyped, user \in UserRecords, [CallsNext]_callsVars
  PROVE  AsksTyped'
<1> USE WalletCallsAssumption DEF CallsShape, AskFields, AsksTyped, NoAsk, adminVars, recordVars
<1>1. CASE UNCHANGED callsVars
  BY <1>1 DEF callsVars
<1>2. ASSUME NEW c \in Handlers, NEW k \in Kinds, Comes(c, k) PROVE AsksTyped'
  <2>1. PICK seen : /\ seen = IF headerSeen = Unread THEN header ELSE headerSeen
                    /\ \/ ask' = ask
                       \/ ask' = [ask EXCEPT ![c] = [NoAsk EXCEPT !.kind = k, !.pc = "row",
                                                       !.net = seen.net, !.barred = BarredNow]]
    BY <1>2 DEF Comes
  <2>2. seen.net \in CallNets
    BY <2>1 DEF SettingsTyped, HeaderRecords
  <2>3. CASE ask' = ask
    BY <2>3
  <2>4. CASE ask' = [ask EXCEPT ![c] = [NoAsk EXCEPT !.kind = k, !.pc = "row",
                                                     !.net = seen.net, !.barred = BarredNow]]
    BY <2>2, <2>4
  <2> QED
    BY <2>1, <2>3, <2>4
<1>3. ASSUME NEW c \in Handlers, HandlerFails(c) PROVE AsksTyped'
  BY <1>3 DEF HandlerFails, CallNets
<1>4. ASSUME NEW c \in Handlers, ReadRow(c) PROVE AsksTyped'
  <2>1. user.role \in {"ADMIN", "USER"}
    BY DEF UserRecords
  <2>2. \/ ask' = [ask EXCEPT ![c] = Passed(ask[c])]
        \/ ask' = [ask EXCEPT ![c] = [ask[c] EXCEPT !.pc = "role", !.id = user.id,
                                                  !.role = user.role, !.blocked = user.blocked]]
    BY <1>4 DEF ReadRow
  <2>3. CASE ask' = [ask EXCEPT ![c] = Passed(ask[c])]
    BY <2>3 DEF Passed
  <2>4. CASE ask' = [ask EXCEPT ![c] = [ask[c] EXCEPT !.pc = "role", !.id = user.id,
                                                  !.role = user.role, !.blocked = user.blocked]]
    BY <2>1, <2>4
  <2> QED
    BY <2>2, <2>3, <2>4
<1>5. ASSUME NEW c \in Handlers, ReadRole(c) PROVE AsksTyped'
  <2>1. \/ ask' = [ask EXCEPT ![c] = Passed(ask[c])]
        \/ ask' = [ask EXCEPT ![c] = [ask[c] EXCEPT !.pc = "sync", !.role = Resolved]]
    BY <1>5 DEF ReadRole
  <2>2. CASE ask' = [ask EXCEPT ![c] = Passed(ask[c])]
    BY <2>2 DEF Passed
  <2>3. CASE ask' = [ask EXCEPT ![c] = [ask[c] EXCEPT !.pc = "sync", !.role = Resolved]]
    BY <2>3 DEF Resolved
  <2> QED
    BY <2>1, <2>2, <2>3
<1>6. ASSUME NEW c \in Handlers, SyncRow(c) PROVE AsksTyped'
  <2>1. PICK n : n = [user EXCEPT !.role = ask[c].role,
                                 !.blocked = user.blocked /\ ask[c].role # "ADMIN"]
    OBVIOUS
  <2>2. ask' = [d \in Handlers |->
                  IF d # c THEN [ask[d] EXCEPT !.barred = ask[d].barred /\ n.blocked]
                  ELSE IF Blocked(n) THEN NoAsk
                  ELSE [Passed(ask[c]) EXCEPT !.barred = Passed(ask[c]).barred /\ n.blocked]]
    BY <1>6, <2>1 DEF SyncRow
  <2>3. ASSUME NEW d \in Handlers, d # c
        PROVE  ask'[d].net = ask[d].net /\ ask'[d].role = ask[d].role
    BY <2>2, <2>3
  <2>4. ask'[c].net \in CallNets /\ ask'[c].role \in {"ADMIN", "USER"}
    BY <2>2 DEF Passed, CallNets
  <2> QED
    BY <2>3, <2>4
<1>7. ASSUME NEW c \in Handlers, KnowCountry(c) PROVE AsksTyped'
  BY <1>7 DEF KnowCountry, To
<1>8. ASSUME NEW c \in Handlers, FindUser(c) PROVE AsksTyped'
  BY <1>8 DEF FindUser, Resolved
<1>9. ASSUME NEW c \in Handlers, PutUser(c) PROVE AsksTyped'
  BY <1>9 DEF PutUser
<1>10. ASSUME NEW c \in Handlers, Answer(c) PROVE AsksTyped'
  BY <1>10 DEF Answer, CallNets
<1>11. ASSUME NEW c \in Handlers, SaveConvert(c) PROVE AsksTyped'
  BY <1>11 DEF SaveConvert, CallNets
<1>12. ASSUME NEW c \in Handlers, NEW f \in Flows, SaveAside(c, f) PROVE AsksTyped'
  BY <1>12 DEF SaveAside, CallNets
<1>13. ASSUME NEW c \in Handlers, LoadPosition(c) PROVE AsksTyped'
  BY <1>13 DEF LoadPosition, Loads
<1>14. ASSUME NEW c \in Handlers, LoadConvert(c) PROVE AsksTyped'
  BY <1>14 DEF LoadConvert, Loads
<1>15. ASSUME NEW c \in Handlers, LoadStake(c) PROVE AsksTyped'
  BY <1>15 DEF LoadStake, Loads
<1>16. ASSUME NEW c \in Handlers, LoadClaim(c) PROVE AsksTyped'
  BY <1>16 DEF LoadClaim, Loads
<1>17. ASSUME NEW c \in Handlers, SendConvert(c) PROVE AsksTyped'
  BY <1>17 DEF SendConvert, Send, To
<1>18. ASSUME NEW c \in Handlers, SendStake(c) PROVE AsksTyped'
  BY <1>18 DEF SendStake, Send, To
<1>19. ASSUME NEW c \in Handlers, SendClaim(c) PROVE AsksTyped'
  BY <1>19 DEF SendClaim, Send, To
<1>20. ASSUME NEW c \in Handlers, RecordConvert(c) PROVE AsksTyped'
  BY <1>20 DEF RecordConvert, Records, CallNets
<1>21. ASSUME NEW c \in Handlers, RecordStake(c) PROVE AsksTyped'
  BY <1>21 DEF RecordStake, Records, CallNets
<1>22. ASSUME NEW c \in Handlers, RecordClaim(c) PROVE AsksTyped'
  BY <1>22 DEF RecordClaim, Records, CallNets
<1>23. ASSUME NEW c \in Handlers, RecordActivity(c) PROVE AsksTyped'
  BY <1>23 DEF RecordActivity, Records, CallNets
<1>24. CASE HeaderExpires
  BY <1>24 DEF HeaderExpires
<1>25. CASE CountryAnswers
  BY <1>25 DEF CountryAnswers
<1>26. CASE CountryExpires
  BY <1>26 DEF CountryExpires
<1>27. ASSUME NEW f \in Flows, PreparedExpires(f) PROVE AsksTyped'
  BY <1>27 DEF PreparedExpires
<1>28. CASE SwitchNetwork
  BY <1>28 DEF SwitchNetwork
<1>29. CASE SwitchConnections
  BY <1>29 DEF SwitchConnections
<1>30. CASE BlockUser
  BY <1>30 DEF BlockUser
<1>31. CASE UnblockUser
  BY <1>31 DEF UnblockUser, Unbarred
<1>32. CASE DeleteUser
  BY <1>32 DEF DeleteUser, Unbarred
<1>33. CASE ListAdministrator
  BY <1>33 DEF ListAdministrator, Unbarred
<1> QED
  BY <1>1, <1>2, <1>3, <1>4, <1>5, <1>6, <1>7, <1>8, <1>9, <1>10, <1>11, <1>12,
     <1>13, <1>14, <1>15, <1>16, <1>17, <1>18, <1>19, <1>20, <1>21, <1>22, <1>23, <1>24,
     <1>25, <1>26, <1>27, <1>28, <1>29, <1>30, <1>31, <1>32, <1>33
  DEF CallsNext, Enters, Passes, Works, SaveStake, SaveClaim, CallPreviewConvert,
        CallPrepareConvert, CallExecuteConvert, CallPreviewStake, CallPrepareStake,
        CallExecuteStake, CallCreateStake, CallPrepareClaim, CallExecuteClaim, CallClaim,
        CallCreateActivity, Kinds, Upserting, Previews, Loading, Flows

LEMMA KeptTypedStep ==
  ASSUME CallsShape, AsksTyped, KeptTyped, [CallsNext]_callsVars
  PROVE  KeptTyped'
<1> USE WalletCallsAssumption DEF CallsShape, AsksTyped, KeptTyped, NonePrepared, adminVars, recordVars
<1>1. CASE UNCHANGED callsVars
  BY <1>1 DEF callsVars
<1>2. ASSUME NEW c \in Handlers, NEW k \in Kinds, Comes(c, k) PROVE KeptTyped'
  BY <1>2 DEF Comes
<1>3. ASSUME NEW c \in Handlers, HandlerFails(c) PROVE KeptTyped'
  BY <1>3 DEF HandlerFails
<1>4. ASSUME NEW c \in Handlers, ReadRow(c) PROVE KeptTyped'
  BY <1>4 DEF ReadRow
<1>5. ASSUME NEW c \in Handlers, ReadRole(c) PROVE KeptTyped'
  BY <1>5 DEF ReadRole
<1>6. ASSUME NEW c \in Handlers, SyncRow(c) PROVE KeptTyped'
  BY <1>6 DEF SyncRow
<1>7. ASSUME NEW c \in Handlers, KnowCountry(c) PROVE KeptTyped'
  BY <1>7 DEF KnowCountry
<1>8. ASSUME NEW c \in Handlers, FindUser(c) PROVE KeptTyped'
  BY <1>8 DEF FindUser
<1>9. ASSUME NEW c \in Handlers, PutUser(c) PROVE KeptTyped'
  BY <1>9 DEF PutUser
<1>10. ASSUME NEW c \in Handlers, Answer(c) PROVE KeptTyped'
  BY <1>10 DEF Answer
<1>11. ASSUME NEW c \in Handlers, SaveConvert(c) PROVE KeptTyped'
  BY <1>11 DEF SaveConvert, Kept
<1>12. ASSUME NEW c \in Handlers, NEW f \in Flows, SaveAside(c, f) PROVE KeptTyped'
  BY <1>12 DEF SaveAside, Kept
<1>13. ASSUME NEW c \in Handlers, LoadPosition(c) PROVE KeptTyped'
  BY <1>13 DEF LoadPosition, Loads
<1>14. ASSUME NEW c \in Handlers, LoadConvert(c) PROVE KeptTyped'
  BY <1>14 DEF LoadConvert, Loads
<1>15. ASSUME NEW c \in Handlers, LoadStake(c) PROVE KeptTyped'
  BY <1>15 DEF LoadStake, Loads
<1>16. ASSUME NEW c \in Handlers, LoadClaim(c) PROVE KeptTyped'
  BY <1>16 DEF LoadClaim, Loads
<1>17. ASSUME NEW c \in Handlers, SendConvert(c) PROVE KeptTyped'
  BY <1>17 DEF SendConvert, Send
<1>18. ASSUME NEW c \in Handlers, SendStake(c) PROVE KeptTyped'
  BY <1>18 DEF SendStake, Send
<1>19. ASSUME NEW c \in Handlers, SendClaim(c) PROVE KeptTyped'
  BY <1>19 DEF SendClaim, Send
<1>20. ASSUME NEW c \in Handlers, RecordConvert(c) PROVE KeptTyped'
  BY <1>20 DEF RecordConvert, Records
<1>21. ASSUME NEW c \in Handlers, RecordStake(c) PROVE KeptTyped'
  BY <1>21 DEF RecordStake, Records, Kept
<1>22. ASSUME NEW c \in Handlers, RecordClaim(c) PROVE KeptTyped'
  BY <1>22 DEF RecordClaim, Records
<1>23. ASSUME NEW c \in Handlers, RecordActivity(c) PROVE KeptTyped'
  BY <1>23 DEF RecordActivity, Records
<1>24. CASE HeaderExpires
  BY <1>24 DEF HeaderExpires
<1>25. CASE CountryAnswers
  BY <1>25 DEF CountryAnswers
<1>26. CASE CountryExpires
  BY <1>26 DEF CountryExpires
<1>27. ASSUME NEW f \in Flows, PreparedExpires(f) PROVE KeptTyped'
  BY <1>27 DEF PreparedExpires
<1>28. CASE SwitchNetwork
  BY <1>28 DEF SwitchNetwork
<1>29. CASE SwitchConnections
  BY <1>29 DEF SwitchConnections
<1>30. CASE BlockUser
  BY <1>30 DEF BlockUser
<1>31. CASE UnblockUser
  BY <1>31 DEF UnblockUser
<1>32. CASE DeleteUser
  BY <1>32 DEF DeleteUser
<1>33. CASE ListAdministrator
  BY <1>33 DEF ListAdministrator
<1> QED
  BY <1>1, <1>2, <1>3, <1>4, <1>5, <1>6, <1>7, <1>8, <1>9, <1>10, <1>11, <1>12,
     <1>13, <1>14, <1>15, <1>16, <1>17, <1>18, <1>19, <1>20, <1>21, <1>22, <1>23, <1>24,
     <1>25, <1>26, <1>27, <1>28, <1>29, <1>30, <1>31, <1>32, <1>33
  DEF CallsNext, Enters, Passes, Works, SaveStake, SaveClaim, CallPreviewConvert,
        CallPrepareConvert, CallExecuteConvert, CallPreviewStake, CallPrepareStake,
        CallExecuteStake, CallCreateStake, CallPrepareClaim, CallExecuteClaim, CallClaim,
        CallCreateActivity, Kinds, Upserting, Previews, Loading, Flows

LEMMA CallsTypedInvariance == CallsSpec => []CallsTypeOK
<1>1. CallsInit => CallsShape /\ CallsTyped
  BY InitCallsInv, InitCallsTyped DEF CallsInv
<1>2. CallsInv /\ CallsTyped /\ [CallsNext]_callsVars => CallsTyped'
  BY SettingsTypedStep, UserTypedStep, AsksTypedStep, KeptTypedStep DEF CallsTyped, CallsInv
<1>3. CallsTyped => CallsTypeOK
  BY DEF CallsTyped, SettingsTyped, KeptTyped, CallsTypeOK, HeaderRecords, UserRecords
<1> QED
  BY <1>1, <1>2, <1>3, CallsInvariant, PTL DEF CallsSpec

-----------------------------------------------------------------------------
(* Both parts.                                                             *)

\* While one part runs the other rests: each takes steps of its own specification only.
LEMMA StakingParts == StakingSpec => FlowSpec /\ CallsSpec
<1>1. StakingInit => FlowInit /\ CallsInit
  BY DEF StakingInit
<1>2. [FlowPart \/ CallsPart]_<<part, flowVars, callsVars>> => [FlowNext]_flowVars
  BY DEF FlowPart, CallsPart
<1>3. [FlowPart \/ CallsPart]_<<part, flowVars, callsVars>> => [CallsNext]_callsVars
  BY DEF FlowPart, CallsPart
<1> QED
  BY <1>1, <1>2, <1>3, PTL DEF StakingSpec, FlowSpec, CallsSpec

\* One payment gives one CLAIM activity and the counter is the number of active rows, however
\* many tabs claim, unless one commits over a row or a count that moved since it read it:
\* the row's status is the only guard (claimStakePosition).
THEOREM StakesCountOnce == StakingSpec => []EachStakeCountsOnce
  BY StakingParts, FlowInvariant, CountInvariance, CountsAreCounted, PTL DEF EachStakeCountsOnce

\* Every variable of the flow and of the calls keeps its shape, and the counter never
\* exceeds the number of stakes, although a claim writes it from an earlier reading.
THEOREM StakingTyped == StakingSpec => []StakingTypeOK
  BY StakingParts, FlowInvariant, CountInvariance, CountsAreCounted, CallsTypedInvariance, PTL
  DEF StakingTypeOK

-----------------------------------------------------------------------------
(* WithinLimit for any number of requests in flight.                        *)

\* Requests that Redis has counted within the limit and not answered yet.
Promised == {r \in Requests : /\ request[r].pc # "idle" /\ request[r].current
                              /\ Allowed(request[r].count)}

RequestRecords == [pc: {"idle", "expire", "ttl"}, count: Nat, current: BOOLEAN]

\* What was granted and what is promised was counted, and is no more than the limit.
RateInv ==
    /\ count \in Nat /\ granted \in Nat /\ memory \in Nat /\ spared \in Nat
    /\ request \in [Requests -> RequestRecords]
    /\ IsFiniteSet(Promised)
    /\ granted + Cardinality(Promised) <= count
    /\ granted + Cardinality(Promised) <= Limit
    /\ spared <= memory /\ spared <= Limit

LEMMA InitRateInv == RateInit => RateInv
<1> SUFFICES ASSUME RateInit PROVE RateInv
  OBVIOUS
<1>1. Promised = {}
  BY DEF RateInit, Promised, Idle
<1>2. IsFiniteSet({}) /\ Cardinality({}) = 0
  BY FS_EmptySet
<1>3. QED
  BY <1>1, <1>2, RateAssumption DEF RateInit, RateInv, Idle, RequestRecords

\* A request that ends is promised nothing any more.
LEMMA EndsOne ==
  ASSUME RateInv, NEW r \in Requests, request' = [request EXCEPT ![r] = Idle]
  PROVE  /\ request' \in [Requests -> RequestRecords]
         /\ Promised' = Promised \ {r} /\ IsFiniteSet(Promised')
         /\ Cardinality(Promised') = IF r \in Promised THEN Cardinality(Promised) - 1
                                     ELSE Cardinality(Promised)
<1> USE DEF RequestRecords
<1>1. Promised' = Promised \ {r}
  BY DEF RateInv, Promised, Idle
<1>2. QED
  BY <1>1, FS_RemoveElement DEF RateInv, Idle

LEMMA RateStep == RateInv /\ [RateNext]_rateVars => RateInv'
<1> SUFFICES ASSUME RateInv, [RateNext]_rateVars PROVE RateInv'
  OBVIOUS
<1> USE RateAssumption DEF RequestRecords
<1>0. Cardinality(Promised) \in Nat
  BY FS_CardinalityType DEF RateInv
<1>1. CASE UNCHANGED rateVars
  <2>1. Promised' = Promised
    BY <1>1 DEF rateVars, Promised, Allowed
  <2>2. QED
    BY <1>1, <2>1 DEF rateVars, RateInv
<1>2. ASSUME NEW r \in Requests, ConsumeScript(r) PROVE RateInv'
  <2>1. r \notin Promised
    BY <1>2 DEF ConsumeScript, Promised
  <2>2. /\ count' = count + 1 /\ UNCHANGED <<memory, spared>>
        /\ granted' = IF Allowed(count + 1) THEN granted + 1 ELSE granted
        /\ request' = [request EXCEPT ![r] = Idle]
    BY <1>2 DEF ConsumeScript, Respond
  <2>3. /\ request' \in [Requests -> RequestRecords] /\ IsFiniteSet(Promised')
        /\ Cardinality(Promised') = Cardinality(Promised)
    BY <2>1, <2>2, EndsOne
  <2>4. QED
    BY <1>0, <2>2, <2>3 DEF RateInv, Allowed
<1>3. ASSUME NEW r \in Requests, Incr(r) PROVE RateInv'
  <2>1. Promised' = IF Allowed(count + 1) THEN Promised \cup {r} ELSE Promised
    BY <1>3 DEF Incr, Promised, RateInv, Allowed
  <2>2. r \notin Promised
    BY <1>3 DEF Incr, Promised
  <2>3. IsFiniteSet(Promised \cup {r}) /\ Cardinality(Promised \cup {r}) = Cardinality(Promised) + 1
    BY <2>2, FS_AddElement DEF RateInv
  <2>4. request' \in [Requests -> RequestRecords]
    BY <1>3 DEF Incr, RateInv
  <2>5. QED
    BY <1>0, <1>3, <2>1, <2>3, <2>4 DEF Incr, RateInv, Allowed
<1>4. ASSUME NEW r \in Requests, Pexpire(r) PROVE RateInv'
  <2>1. Promised' = Promised
    BY <1>4 DEF Pexpire, Promised, RateInv, Allowed
  <2>2. QED
    BY <1>4, <2>1 DEF Pexpire, RateInv
<1>5. ASSUME NEW r \in Requests, Pttl(r) PROVE RateInv'
  <2>1. r \in Promised <=> Allowed(request[r].count) /\ request[r].current
    BY <1>5 DEF Pttl, Promised
  <2>2. granted' = IF r \in Promised THEN granted + 1 ELSE granted
    BY <1>5, <2>1 DEF Pttl, Respond
  <2>3. UNCHANGED <<count, memory, spared>> /\ request' = [request EXCEPT ![r] = Idle]
    BY <1>5 DEF Pttl, Respond
  <2>4. /\ request' \in [Requests -> RequestRecords] /\ IsFiniteSet(Promised')
        /\ Cardinality(Promised') = IF r \in Promised THEN Cardinality(Promised) - 1
                                    ELSE Cardinality(Promised)
    BY <2>3, EndsOne
  <2>5. QED
    BY <1>0, <2>2, <2>3, <2>4 DEF RateInv
<1>6. ASSUME NEW r \in Requests, Fallback(r),
             count' \in {count, count + 1}, granted' = granted
      PROVE  RateInv'
  <2>1. /\ request' = [request EXCEPT ![r] = Idle] /\ memory' = memory + 1
        /\ spared' = IF Allowed(memory + 1) THEN spared + 1 ELSE spared
    BY <1>6 DEF Fallback
  <2>2. /\ request' \in [Requests -> RequestRecords] /\ IsFiniteSet(Promised')
        /\ Cardinality(Promised') \in Nat /\ Cardinality(Promised') <= Cardinality(Promised)
    <3>1. /\ request' \in [Requests -> RequestRecords] /\ IsFiniteSet(Promised')
          /\ Cardinality(Promised') = IF r \in Promised THEN Cardinality(Promised) - 1
                                      ELSE Cardinality(Promised)
      BY <2>1, EndsOne
    <3>2. Cardinality(Promised') \in Nat
      BY <3>1, FS_CardinalityType
    <3>3. QED
      BY <1>0, <3>1, <3>2
  <2>3. QED
    BY <1>0, <1>6, <2>1, <2>2 DEF RateInv, Allowed
<1>7. ASSUME NEW r \in Requests, ConsumeFails(r) \/ LaterCallFails(r) PROVE RateInv'
  BY <1>6, <1>7 DEF ConsumeFails, LaterCallFails
<1>8. CASE KeyExpires
  <2>1. Promised' = {}
    BY <1>8 DEF KeyExpires, Promised, RateInv
  <2>2. request' \in [Requests -> RequestRecords]
    BY <1>8 DEF KeyExpires, RateInv
  <2>3. IsFiniteSet({}) /\ Cardinality({}) = 0
    BY FS_EmptySet
  <2>4. QED
    BY <1>8, <2>1, <2>2, <2>3 DEF KeyExpires, RateInv
<1>9. CASE MemoryWindowEnds
  <2>1. Promised' = Promised
    BY <1>9 DEF MemoryWindowEnds, Promised, Allowed
  <2>2. QED
    BY <1>9, <2>1 DEF MemoryWindowEnds, RateInv
<1> QED
  BY <1>1, <1>2, <1>3, <1>4, <1>5, <1>7, <1>8, <1>9 DEF RateNext

LEMMA RateInvKeeps == RateInv => WithinLimit
<1>1. RateInv => Cardinality(Promised) \in Nat
  BY FS_CardinalityType DEF RateInv
<1>2. QED
  BY <1>1, RateAssumption DEF RateInv, WithinLimit

\* For any number of requests, Redis grants no more than the limit while a key lives, and
\* the fallback no more in its window (consume of both stores in rate-limit-store.ts).
THEOREM LimitIsKept == RateSpec => []WithinLimit
  BY InitRateInv, RateStep, RateInvKeeps, PTL DEF RateSpec

CountedRecords == [pc: {"idle", "expire", "ttl"}, count: 0 .. CountBound, current: BOOLEAN]

\* The shape of the key, of the fallback and of the requests; the histories are in RateInv.
KeyInv ==
    /\ backend \in Backends /\ count \in 0 .. CountBound /\ expiring \in BOOLEAN
    /\ memory \in 0 .. CountBound /\ failed \in 0 .. Failures
    /\ request \in [Requests -> CountedRecords]
    /\ expiring => count > 0
    /\ backend = "socket" /\ count > 0 => expiring

LEMMA KeyStep == KeyInv /\ [RateNext]_rateVars => KeyInv'
<1> SUFFICES ASSUME KeyInv, [RateNext]_rateVars PROVE KeyInv'
  OBVIOUS
<1> USE RateAssumption
<1>0. Idle \in CountedRecords
  BY DEF Idle, CountedRecords
<1>a. ASSUME NEW r \in Requests, request' = [request EXCEPT ![r] = Idle]
      PROVE  request' \in [Requests -> CountedRecords]
  BY <1>0, <1>a DEF KeyInv
<1>1. CASE UNCHANGED rateVars
  BY <1>1 DEF rateVars, KeyInv
<1>2. ASSUME NEW r \in Requests, ConsumeScript(r) PROVE KeyInv'
  <2>1. /\ backend = "socket" /\ count < CountBound /\ count' = count + 1
        /\ expiring' = (expiring \/ ExpireOn(count + 1))
        /\ request' = [request EXCEPT ![r] = Idle] /\ UNCHANGED <<backend, failed, memory>>
    BY <1>2 DEF ConsumeScript, Respond
  <2>2. expiring' = TRUE
    <3>1. CASE count = 0
      <4>1. ExpireOn(count + 1)
        BY <3>1 DEF ExpireOn
      <4> QED
        BY <2>1, <4>1, Zenon
    <3>2. CASE count # 0
      <4>1. count > 0
        BY <3>2 DEF KeyInv
      <4>2. expiring
        BY <2>1, <4>1 DEF KeyInv
      <4> QED
        BY <2>1, <4>2, Zenon
    <3> QED
      BY <3>1, <3>2
  <2>3. count' \in 0 .. CountBound /\ count' > 0
    BY <2>1 DEF KeyInv
  <2>4. request' \in [Requests -> CountedRecords]
    BY <1>a, <2>1
  <2> QED
    BY <2>1, <2>2, <2>3, <2>4 DEF KeyInv
<1>3. ASSUME NEW r \in Requests, Incr(r) PROVE KeyInv'
  <2>1. /\ backend = "rest" /\ count < CountBound /\ count' = count + 1
        /\ UNCHANGED <<backend, failed, expiring, memory>>
    BY <1>3 DEF Incr
  <2>2. PICK q : q = [pc |-> IF count + 1 = 1 THEN "expire" ELSE "ttl", count |-> count + 1, current |-> TRUE]
    OBVIOUS
  <2>3. q \in CountedRecords
    BY <2>1, <2>2 DEF CountedRecords, KeyInv
  <2>4. request' = [request EXCEPT ![r] = q]
    BY <1>3, <2>2 DEF Incr
  <2>5. request' \in [Requests -> CountedRecords]
    BY <2>3, <2>4 DEF KeyInv
  <2> QED
    BY <2>1, <2>5 DEF KeyInv
<1>4. ASSUME NEW r \in Requests, Pexpire(r) PROVE KeyInv'
  <2>1. PICK q \in CountedRecords : q = request[r]
    BY DEF KeyInv
  <2>2. PICK n : n = [q EXCEPT !.pc = "ttl"]
    OBVIOUS
  <2>3. n \in CountedRecords
    BY <2>2 DEF CountedRecords
  <2>4. request' = [request EXCEPT ![r] = n]
    BY <1>4, <2>1, <2>2 DEF Pexpire
  <2>5. request' \in [Requests -> CountedRecords]
    BY <2>3, <2>4 DEF KeyInv
  <2>6. /\ expiring' = (count > 0) /\ UNCHANGED <<backend, failed, count, memory>>
    BY <1>4 DEF Pexpire
  <2> QED
    BY <2>5, <2>6 DEF KeyInv
<1>5. ASSUME NEW r \in Requests, Pttl(r) PROVE KeyInv'
  <2>1. /\ request' = [request EXCEPT ![r] = Idle] /\ UNCHANGED <<backend, failed, count, expiring, memory>>
    BY <1>5 DEF Pttl, Respond
  <2> QED
    BY <1>a, <2>1 DEF KeyInv
<1>6. ASSUME NEW r \in Requests, Fallback(r), UNCHANGED backend
      PROVE  request' \in [Requests -> CountedRecords] /\ memory' \in 0 .. CountBound /\ failed' \in 0 .. Failures
  <2>1. request' \in [Requests -> CountedRecords]
    BY <1>a, <1>6 DEF Fallback
  <2>2. memory < CountBound /\ failed < Failures /\ memory' = memory + 1 /\ failed' = failed + 1
    BY <1>6 DEF Fallback
  <2>3. memory \in 0 .. CountBound /\ failed \in 0 .. Failures
    BY DEF KeyInv
  <2> QED
    BY <2>1, <2>2, <2>3
<1>7. ASSUME NEW r \in Requests, ConsumeFails(r) PROVE KeyInv'
  <2>1. Fallback(r) /\ UNCHANGED backend
    BY <1>7 DEF ConsumeFails
  <2>2. CASE UNCHANGED <<count, expiring>>
    BY <1>6, <2>1, <2>2 DEF KeyInv
  <2>3. CASE /\ count < CountBound /\ count' = count + 1
             /\ expiring' = (expiring \/ (backend = "socket" /\ ExpireOn(count + 1)))
    <3>1. expiring' \in BOOLEAN /\ (backend = "socket" => expiring')
      <4>1. CASE backend # "socket"
        BY <2>3, <4>1, Zenon DEF KeyInv
      <4>2. CASE backend = "socket" /\ count = 0
        <5>1. ExpireOn(count + 1)
          BY <4>2 DEF ExpireOn
        <5>2. expiring' = TRUE
          BY <2>3, <4>2, <5>1, Zenon
        <5> QED
          BY <5>2
      <4>3. CASE backend = "socket" /\ count # 0
        <5>1. count > 0
          BY <4>3 DEF KeyInv
        <5>2. expiring
          BY <4>3, <5>1 DEF KeyInv
        <5>3. expiring' = TRUE
          BY <2>3, <5>2, Zenon
        <5> QED
          BY <5>3
      <4> QED
        BY <4>1, <4>2, <4>3
    <3>2. count' \in 0 .. CountBound /\ count' > 0
      BY <2>3 DEF KeyInv
    <3> QED
      BY <1>6, <2>1, <3>1, <3>2 DEF KeyInv
  <2> QED
    BY <1>7, <2>2, <2>3 DEF ConsumeFails
<1>8. ASSUME NEW r \in Requests, LaterCallFails(r) PROVE KeyInv'
  <2>1. /\ Fallback(r) /\ UNCHANGED <<backend, count>>
        /\ \/ expiring' = expiring
           \/ expiring' = (expiring \/ (request[r].pc = "expire" /\ count > 0))
    BY <1>8 DEF LaterCallFails
  <2>2. expiring \in BOOLEAN /\ (expiring => count > 0)
    BY DEF KeyInv
  <2>3. expiring' \in BOOLEAN /\ (expiring' => count > 0) /\ (expiring => expiring')
    <3>1. CASE expiring
      <4>1. expiring' = TRUE
        BY <2>1, <2>2, <3>1, Zenon
      <4> QED
        BY <2>2, <3>1, <4>1
    <3>2. CASE ~expiring /\ request[r].pc = "expire" /\ count > 0
      <4>1. expiring' = TRUE \/ expiring' = FALSE
        BY <2>1, <2>2, <3>2, Zenon
      <4> QED
        BY <3>2, <4>1
    <3>3. CASE ~expiring /\ ~(request[r].pc = "expire" /\ count > 0)
      <4>1. expiring' = FALSE
        BY <2>1, <2>2, <3>3, Zenon
      <4> QED
        BY <3>3, <4>1
    <3> QED
      BY <3>1, <3>2, <3>3
  <2> QED
    BY <1>6, <2>1, <2>3 DEF KeyInv
<1>9. CASE KeyExpires
  <2>1. request' \in [Requests -> CountedRecords]
    <3>1. ASSUME NEW r \in Requests PROVE [request[r] EXCEPT !.current = FALSE] \in CountedRecords
      <4>1. PICK q \in CountedRecords : q = request[r]
        BY DEF KeyInv
      <4>2. [q EXCEPT !.current = FALSE] \in CountedRecords
        BY DEF CountedRecords
      <4> QED
        BY <4>1, <4>2
    <3> QED
      BY <1>9, <3>1 DEF KeyExpires
  <2>2. count' = 0 /\ expiring' = FALSE /\ UNCHANGED <<backend, failed, memory>>
    BY <1>9 DEF KeyExpires
  <2>3. count' \in 0 .. CountBound /\ ~(count' > 0)
    <3>1. count' = 0
      BY <2>2
    <3> QED
      BY <3>1, RateAssumption
  <2>a. expiring' \in BOOLEAN /\ ~expiring'
    <3>1. expiring' = FALSE
      BY <2>2
    <3> QED
      BY <3>1
  <2> QED
    BY <2>1, <2>2, <2>3, <2>a DEF KeyInv
<1>10. CASE MemoryWindowEnds
  BY <1>10 DEF MemoryWindowEnds, KeyInv
<1> QED
  BY <1>1, <1>2, <1>3, <1>4, <1>5, <1>7, <1>8, <1>9, <1>10 DEF RateNext

LEMMA RateInvariance == RateSpec => [](RateInv /\ KeyInv)
<1>1. RateInit => KeyInv
  <2> SUFFICES ASSUME RateInit PROVE KeyInv
    OBVIOUS
  <2>1. Idle \in CountedRecords
    BY RateAssumption DEF Idle, CountedRecords
  <2>2. /\ backend \in Backends /\ count = 0 /\ expiring = FALSE /\ memory = 0 /\ failed = 0
        /\ request = [r \in Requests |-> Idle]
    BY DEF RateInit
  <2>3. count \in 0 .. CountBound /\ ~(count > 0)
    <3>1. count = 0
      BY <2>2
    <3> QED
      BY <3>1, RateAssumption
  <2>a. expiring \in BOOLEAN /\ ~expiring
    <3>1. expiring = FALSE
      BY <2>2
    <3> QED
      BY <3>1
  <2>4. memory \in 0 .. CountBound /\ failed \in 0 .. Failures
    BY <2>2, RateAssumption
  <2> QED
    BY <2>1, <2>2, <2>3, <2>a, <2>4 DEF KeyInv
<1> QED
  BY <1>1, InitRateInv, RateStep, KeyStep, PTL DEF RateSpec

\* What RateInv and KeyInv say of the shape.
LEMMA RateShape == RateInv /\ KeyInv => RateTypeOK
  BY DEF RateInv, KeyInv, RateTypeOK, CountedRecords

-----------------------------------------------------------------------------
(* The rules of RA.                                                        *)

\* A stored field is one that was given and accepted.
RulesInv ==
    /\ ruleRow = [f \in Fields |-> ruleRow[f]]
    /\ \A f \in Fields : ruleRow[f] = Null \/ (ruleRow[f] \in Given(f) /\ Acceptable(f, ruleRow[f]))

LEMMA RulesInvariance == RulesSpec => []RulesInv
<1>1. RulesInit => RulesInv
  BY DEF RulesInit, RulesInv
<1>2. RulesInv /\ [RulesNext]_ruleRow => RulesInv'
  <2> SUFFICES ASSUME RulesInv, [RulesNext]_ruleRow PROVE RulesInv'
    OBVIOUS
  <2>1. CASE UNCHANGED ruleRow
    BY <2>1 DEF RulesInv
  <2>2. ASSUME NEW f \in Fields, NEW v \in Given(f), SaveRules(f, v) PROVE RulesInv'
    <3>1. ruleRow' = [ruleRow EXCEPT ![f] = v] /\ Acceptable(f, v)
      BY <2>2 DEF SaveRules
    <3>2. ruleRow' = [g \in Fields |-> ruleRow'[g]]
      BY <3>1 DEF RulesInv
    <3>3. \A g \in Fields : ruleRow'[g] = IF g = f THEN v ELSE ruleRow[g]
      BY <3>1 DEF RulesInv
    <3>4. ASSUME NEW g \in Fields
          PROVE  ruleRow'[g] = Null \/ (ruleRow'[g] \in Given(g) /\ Acceptable(g, ruleRow'[g]))
      <4>1. CASE g = f
        BY <2>2, <3>1, <3>3, <4>1
      <4>2. CASE g # f
        BY <3>3, <4>2 DEF RulesInv
      <4> QED
        BY <4>1, <4>2
    <3> QED
      BY <3>2, <3>4 DEF RulesInv
  <2> QED
    BY <2>1, <2>2 DEF RulesNext
<1> QED
  BY <1>1, <1>2, PTL DEF RulesSpec

BasisPoints == 0 .. 10000

\* What the readers take a stored field for is in its range.
LEMMA FieldsInRange ==
  ASSUME RulesInv
  PROVE  /\ Or(ruleRow["minUsd"], "minUsd") \in Nat /\ Or(ruleRow["maxUsd"], "maxUsd") \in Nat
         /\ Or(ruleRow["feeBps"], "feeBps") \in BasisPoints /\ Or(ruleRow["tokens"], "tokens") \in 1 .. 5
<1>2. Given("minUsd") = Dollars
  BY DEF Given
<1>3. Given("maxUsd") = Dollars
  BY DEF Given
<1>4. Dollars \subseteq Int
  BY RulesAssumption
<1>5. /\ DefaultRules["minUsd"] \in Nat /\ DefaultRules["maxUsd"] \in Nat
      /\ DefaultRules["feeBps"] \in 0 .. 10000 /\ DefaultRules["tokens"] \in 1 .. 5
  BY RulesAssumption
<1>6. Or(ruleRow["minUsd"], "minUsd") \in Nat
  <2>1. PICK v : v = ruleRow["minUsd"]
    OBVIOUS
  <2>2. v = Null \/ (v \in Given("minUsd") /\ Acceptable("minUsd", v))
    BY <2>1 DEF RulesInv, Fields
  <2>3. ASSUME v \in Given("minUsd"), Acceptable("minUsd", v) PROVE v \in Nat
    <3>1. v \in Int
      BY <1>2, <1>3, <1>4, <2>3
    <3>2. v >= 0
      BY <2>3, <3>1 DEF Acceptable
    <3> QED
      BY <3>1, <3>2
  <2>4. v = Null \/ v \in Nat
    BY <2>2, <2>3
  <2>5. PICK w \in Nat : w = DefaultRules["minUsd"]
    BY <1>5
  <2> QED
    BY <2>1, <2>4, <2>5, Zenon DEF Or
<1>7. Or(ruleRow["maxUsd"], "maxUsd") \in Nat
  <2>1. PICK v : v = ruleRow["maxUsd"]
    OBVIOUS
  <2>2. v = Null \/ (v \in Given("maxUsd") /\ Acceptable("maxUsd", v))
    BY <2>1 DEF RulesInv, Fields
  <2>3. ASSUME v \in Given("maxUsd"), Acceptable("maxUsd", v) PROVE v \in Nat
    <3>1. v \in Int
      BY <1>2, <1>3, <1>4, <2>3
    <3>2. v >= 0
      BY <2>3, <3>1 DEF Acceptable
    <3> QED
      BY <3>1, <3>2
  <2>4. v = Null \/ v \in Nat
    BY <2>2, <2>3
  <2>5. PICK w \in Nat : w = DefaultRules["maxUsd"]
    BY <1>5
  <2> QED
    BY <2>1, <2>4, <2>5, Zenon DEF Or
<1>8. Or(ruleRow["feeBps"], "feeBps") \in BasisPoints
  <2>1. PICK v : v = ruleRow["feeBps"]
    OBVIOUS
  <2>2. v = Null \/ (v \in Given("feeBps") /\ Acceptable("feeBps", v))
    BY <2>1 DEF RulesInv, Fields
  <2>3. ASSUME Acceptable("feeBps", v) PROVE v \in BasisPoints
    BY <2>3 DEF Acceptable, BasisPoints
  <2>4. v = Null \/ v \in BasisPoints
    BY <2>2, <2>3
  <2>5. PICK w \in BasisPoints : w = DefaultRules["feeBps"]
    <3>1. PICK w : w = DefaultRules["feeBps"]
      OBVIOUS
    <3>2. w \in BasisPoints
      BY <1>5, <3>1 DEF BasisPoints
    <3> QED
      BY <3>1, <3>2
  <2> QED
    BY <2>1, <2>4, <2>5, Zenon DEF Or
<1>9. Or(ruleRow["tokens"], "tokens") \in 1 .. 5
  <2>1. PICK v : v = ruleRow["tokens"]
    OBVIOUS
  <2>2. v = Null \/ (v \in Given("tokens") /\ Acceptable("tokens", v))
    BY <2>1 DEF RulesInv, Fields
  <2>3. ASSUME Acceptable("tokens", v) PROVE v \in 1 .. 5
    BY <2>3 DEF Acceptable
  <2>4. v = Null \/ v \in 1 .. 5
    BY <2>2, <2>3
  <2>5. PICK w \in 1 .. 5 : w = DefaultRules["tokens"]
    BY <1>5
  <2> QED
    BY <2>1, <2>4, <2>5, Zenon DEF Or
<1> QED
  BY <1>6, <1>7, <1>8, <1>9

\* Each reader normalises in its own way, and all come to the same.
LEMMA RulesAgree == RulesInv => EnforcesWhatItShows
<1> SUFFICES ASSUME RulesInv PROVE EnforcesWhatItShows
  OBVIOUS
<1>a. PICK min \in Nat : min = Or(ruleRow["minUsd"], "minUsd")
  BY FieldsInRange
<1>b. PICK max \in Nat : max = Or(ruleRow["maxUsd"], "maxUsd")
  BY FieldsInRange
<1>c. PICK fee \in BasisPoints : fee = Or(ruleRow["feeBps"], "feeBps")
  BY FieldsInRange
<1>1. PICK tokens \in 1 .. 5 : tokens = Or(ruleRow["tokens"], "tokens")
  BY FieldsInRange
<1>2. PICK first, enabled : first = Or(ruleRow.primary, "primary") /\ enabled = Or(ruleRow.enabled, "enabled")
  OBVIOUS
<1>3. PICK told : told = Published(ruleRow)
  OBVIOUS
<1>4. PICK shown : shown = Understood(told)
  OBVIOUS
<1>5. PICK due : due = Enforced(ruleRow)
  OBVIOUS
<1>n. /\ Higher(0, min) = min /\ Higher(1, Lower(5, tokens)) = tokens
  BY DEF Higher, Lower
<1>6. /\ due.minUsd = min /\ due.maxUsd = Higher(min, max) /\ due.feeBps = fee /\ due.tokens = tokens
      /\ due.primary = first /\ due.enabled = enabled
  <2>1. due = Enforced(ruleRow) /\ Higher(1, Lower(5, tokens)) = tokens
    BY <1>5, <1>n
  <2>2. /\ due.minUsd = Or(ruleRow.minUsd, "minUsd")
        /\ due.maxUsd = UpperLimit(Or(ruleRow.minUsd, "minUsd"), Or(ruleRow.maxUsd, "maxUsd"))
        /\ due.feeBps = Or(ruleRow.feeBps, "feeBps")
        /\ due.tokens = Higher(1, Lower(5, Or(ruleRow.tokens, "tokens")))
        /\ due.primary = Or(ruleRow.primary, "primary")
        /\ due.enabled = Or(ruleRow.enabled, "enabled")
    BY <2>1 DEF Enforced
  <2> QED
    BY <1>a, <1>b, <1>c, <1>1, <1>2, <2>1, <2>2, Zenon DEF UpperLimit
<1>7. /\ told.minUsd = min /\ told.maxUsd = Higher(min, max) /\ told.feeBps = fee /\ told.tokens = tokens
      /\ told.primary = first /\ told.enabled = enabled
      /\ DOMAIN told = Fields
  <2>1. told = Published(ruleRow) /\ Higher(0, min) = min /\ Higher(1, Lower(5, tokens)) = tokens
    BY <1>3, <1>n
  <2>2. /\ told.minUsd = Higher(0, Or(ruleRow.minUsd, "minUsd"))
        /\ told.maxUsd = Higher(Higher(0, Or(ruleRow.minUsd, "minUsd")), Or(ruleRow.maxUsd, "maxUsd"))
        /\ told.feeBps = Or(ruleRow.feeBps, "feeBps")
        /\ told.tokens = Higher(1, Lower(5, Or(ruleRow.tokens, "tokens")))
        /\ told.primary = Or(ruleRow.primary, "primary")
        /\ told.enabled = Or(ruleRow.enabled, "enabled")
        /\ DOMAIN told = Fields
    BY <2>1 DEF Published, Fields
  <2> QED
    BY <1>a, <1>b, <1>c, <1>1, <1>2, <2>1, <2>2, Zenon
<1>8. /\ shown.minUsd = Higher(0, told.minUsd)
      /\ shown.maxUsd = Higher(Higher(0, told.minUsd), told.maxUsd)
      /\ shown.feeBps = Higher(0, Lower(10000, told.feeBps))
      /\ shown.tokens = Higher(1, Lower(5, told.tokens))
      /\ shown.primary = told.primary /\ shown.enabled = told.enabled
  BY <1>4, <1>7 DEF Understood, Fields
<1>9. /\ shown.minUsd = min /\ shown.maxUsd = Higher(min, max) /\ shown.feeBps = fee
      /\ shown.tokens = tokens /\ shown.primary = first /\ shown.enabled = enabled
  <2>1. shown.minUsd = min
    BY <1>7, <1>8 DEF Higher
  <2>2. shown.maxUsd = Higher(min, max)
    BY <1>7, <1>8 DEF Higher
  <2>3. shown.feeBps = fee
    <3>1. Lower(10000, fee) = fee /\ Higher(0, fee) = fee
      BY DEF Higher, Lower, BasisPoints
    <3> QED
      BY <1>7, <1>8, <3>1
  <2>4. shown.tokens = tokens
    BY <1>7, <1>8 DEF Higher, Lower
  <2> QED
    BY <1>7, <1>8, <2>1, <2>2, <2>3, <2>4
<1>10. \A f \in Fields \ {"secondary"} : due[f] = shown[f]
  BY <1>6, <1>9 DEF Fields
<1>11. due.minUsd <= due.maxUsd
  BY <1>6 DEF Higher
<1> QED
  BY <1>3, <1>4, <1>5, <1>10, <1>11 DEF EnforcesWhatItShows

-----------------------------------------------------------------------------
(* The pools of the audit log.                                             *)

\* A run that is none has no pool, and the pool of a run or of an ending is one there is.
PoolsAreNamed ==
    /\ \A t \in Tries : IF Trying(t) THEN try[t].of \in LogPools ELSE try[t] = NoTry
    /\ \A o \in Officers : Ending(o) => act[o].to \in LogPools

\* Unless they overlap, one run or one ending is under way; what a run has probed and what is
\* being ended is the pool in use, and a run that failed has closed its own.
OneAtATime ==
    ~poolsCrossed =>
      /\ \A t, u \in Tries : Trying(t) /\ Trying(u) => t = u
      /\ \A o, q \in Officers : Ending(o) /\ Ending(q) => o = q
      /\ \A t \in Tries, o \in Officers : ~(Trying(t) /\ Ending(o))
      /\ \A o \in Officers : Ending(o) => logPool = act[o].to
      /\ \A t \in Tries :
            /\ try[t].stage = "probe" => logPool = NoLogPool
            /\ try[t].stage \in {"schema", "sweep"} => logPool = try[t].of
            /\ try[t].stage = "failed" =>
                  logPool \in {NoLogPool, try[t].of} /\ try[t].of \notin openPools

AuditInv == AuditTypeOK /\ PoolsAreNamed /\ OneAtATime /\ PoolsAreAccountedFor

\* The stages of runs and reports, and the records of both.
TryRecords ==
    [stage : {"none", "probe", "schema", "sweep", "failed"}, of : LogPools \cup {NoLogPool}, boot : BOOLEAN]
ActRecords == [stage : {"none", "handled", "writing", "ending"}, to : LogPools \cup {NoLogPool}]

LEMMA AuditBasics ==
  ASSUME AuditInv
  PROVE  /\ try \in [Tries -> TryRecords] /\ act \in [Officers -> ActRecords]
         /\ logPool \in LogPools \cup {NoLogPool} /\ openPools \subseteq LogPools
         /\ NoTry \in TryRecords /\ NoAct \in ActRecords /\ NoLogPool \notin LogPools
  BY AuditAssumption DEF AuditInv, AuditTypeOK, TryRecords, ActRecords, NoTry, NoAct

\* A run changes its stage only.
LEMMA RunAdvances ==
  ASSUME AuditInv, NEW t \in Tries, Trying(t), NEW stage \in {"probe", "schema", "sweep", "failed"},
         Advances(t, stage)
  PROVE  /\ try' \in [Tries -> TryRecords]
         /\ try'[t].stage = stage /\ try'[t].of = try[t].of
         /\ \A u \in Tries \ {t} : try'[u] = try[u]
         /\ \A u \in Tries : Trying(u)' <=> Trying(u)
         /\ \A u \in Tries : try'[u].of = try[u].of
<1>1. try \in [Tries -> TryRecords]
  BY AuditBasics
<1>2. try'[t] = [try[t] EXCEPT !.stage = stage] /\ \A u \in Tries \ {t} : try'[u] = try[u]
  BY <1>1 DEF Advances
<1>3. try'[t] \in TryRecords /\ try'[t].stage = stage /\ try'[t].of = try[t].of
  BY <1>1, <1>2 DEF TryRecords
<1>4. try' \in [Tries -> TryRecords]
  BY <1>1, <1>2, <1>3 DEF Advances
<1> QED
  BY <1>2, <1>3, <1>4 DEF Trying

\* A run ends, or another begins.
LEMMA RunSet ==
  ASSUME AuditInv, NEW t \in Tries, NEW r \in TryRecords, try' = [try EXCEPT ![t] = r]
  PROVE  try' \in [Tries -> TryRecords] /\ try'[t] = r /\ \A u \in Tries \ {t} : try'[u] = try[u]
  BY AuditBasics

\* A report goes on to another stage.
LEMMA ReportSet ==
  ASSUME AuditInv, NEW o \in Officers, NEW r \in ActRecords, act' = [act EXCEPT ![o] = r]
  PROVE  act' \in [Officers -> ActRecords] /\ act'[o] = r /\ \A q \in Officers \ {o} : act'[q] = act[q]
  BY AuditBasics

\* Steps that leave runs, endings, and pools alone.
LEMMA PoolsLeftAlone ==
  ASSUME AuditInv, UNCHANGED <<logPool, openPools, try, poolsCrossed>>,
         \A o \in Officers : Ending(o)' <=> Ending(o),
         \A o \in Officers : Ending(o) => act'[o].to = act[o].to
  PROVE  PoolsAreNamed' /\ OneAtATime' /\ PoolsAreAccountedFor'
<1>1. PoolsAreNamed'
  BY DEF AuditInv, PoolsAreNamed, Trying
<1>2. OneAtATime'
  BY DEF AuditInv, OneAtATime, Trying
<1>3. PoolsAreAccountedFor'
  BY DEF AuditInv, PoolsAreAccountedFor
<1> QED
  BY <1>1, <1>2, <1>3

LEMMA AuditStep == AuditInv /\ [AuditNext]_auditVars => AuditInv'
<1> SUFFICES ASSUME AuditInv, [AuditNext]_auditVars PROVE AuditInv'
  OBVIOUS
<1>0. /\ try \in [Tries -> TryRecords] /\ act \in [Officers -> ActRecords]
      /\ logPool \in LogPools \cup {NoLogPool} /\ openPools \subseteq LogPools
      /\ NoTry \in TryRecords /\ NoAct \in ActRecords /\ NoLogPool \notin LogPools
  BY AuditBasics
<1>a. /\ migrated \in 0 .. Changes /\ listing \in {"idle", "counted", "broke"}
      /\ logDb \in BOOLEAN /\ retryTimer \in BOOLEAN /\ sweepTimer \in BOOLEAN /\ poolsCrossed \in BOOLEAN
  BY DEF AuditInv, AuditTypeOK
<1>b. ASSUME migrated' \in 0 .. Changes, listing' \in {"idle", "counted", "broke"},
             logDb' \in BOOLEAN, retryTimer' \in BOOLEAN, sweepTimer' \in BOOLEAN, poolsCrossed' \in BOOLEAN,
             logPool' \in LogPools \cup {NoLogPool}, openPools' \subseteq LogPools,
             try' \in [Tries -> TryRecords], act' \in [Officers -> ActRecords],
             PoolsAreNamed', OneAtATime', PoolsAreAccountedFor'
      PROVE  AuditInv'
  BY <1>b DEF AuditInv, AuditTypeOK, TryRecords, ActRecords
<1>1. CASE UNCHANGED auditVars
  <2>1. UNCHANGED <<logDb, migrated, poolVars, try, act, listing, poolsCrossed, flips>>
    BY <1>1 DEF auditVars, poolVars
  <2>2. PoolsAreNamed' /\ OneAtATime' /\ PoolsAreAccountedFor'
    BY <2>1, PoolsLeftAlone DEF poolVars, Ending
  <2> QED
    BY <1>0, <1>a, <1>b, <2>1, <2>2 DEF poolVars
<1>2. CASE DbFlips \/ ListCount \/ ListRows
  <2>1. UNCHANGED <<migrated, poolVars, try, act, poolsCrossed>>
    BY <1>2 DEF DbFlips, ListCount, ListRows
  <2>2. logDb' \in BOOLEAN /\ listing' \in {"idle", "counted", "broke"}
    <3>1. CASE DbFlips
      BY <1>a, <3>1 DEF DbFlips
    <3>2. CASE ListCount
      BY <1>a, <3>2 DEF ListCount
    <3>3. CASE ListRows
      BY <1>a, <3>3 DEF ListRows
    <3> QED
      BY <1>2, <3>1, <3>2, <3>3
  <2>3. PoolsAreNamed' /\ OneAtATime' /\ PoolsAreAccountedFor'
    BY <2>1, PoolsLeftAlone DEF poolVars, Ending
  <2> QED
    BY <1>0, <1>a, <1>b, <2>1, <2>2, <2>3 DEF poolVars
<1>3. ASSUME NEW t \in Tries, NEW p \in LogPools, Retry(t, p) PROVE AuditInv'
  <2>1. PICK r \in TryRecords : r = [stage |-> "probe", of |-> p, boot |-> FALSE]
    BY DEF TryRecords
  <2>2. try' = [try EXCEPT ![t] = r]
    BY <1>3, <2>1 DEF Retry
  <2>3. try' \in [Tries -> TryRecords] /\ try'[t] = r /\ \A u \in Tries \ {t} : try'[u] = try[u]
    BY <2>2, RunSet
  <2>4. /\ openPools' = openPools \cup {p} /\ logPool = NoLogPool
        /\ UNCHANGED <<logDb, migrated, logPool, retryTimer, sweepTimer, act, listing, flips>>
        /\ poolsCrossed' = (poolsCrossed \/ \E u \in Tries : Trying(u))
        /\ ~Trying(t)
    BY <1>3 DEF Retry
  <2>5. r.stage = "probe" /\ r.of = p
    BY <2>1
  <2>6. PoolsAreNamed'
    BY <2>3, <2>4, <2>5 DEF AuditInv, PoolsAreNamed, Trying, Ending
  <2>7. OneAtATime'
    <3> SUFFICES ASSUME ~poolsCrossed' PROVE OneAtATime'
      BY DEF OneAtATime
    <3>1. ~poolsCrossed /\ \A u \in Tries : ~Trying(u)
      BY <2>4
    <3>2. \A o \in Officers : ~Ending(o)
      BY <1>0, <2>4, <3>1 DEF AuditInv, OneAtATime, PoolsAreNamed
    <3>3. \A o \in Officers : ~Ending(o)'
      BY <2>4, <3>2 DEF Ending
    <3>4. \A u \in Tries \ {t} : ~Trying(u)' /\ try'[u].stage = "none"
      BY <2>3, <3>1 DEF Trying
    <3> QED
      BY <2>3, <2>4, <2>5, <3>3, <3>4 DEF OneAtATime
  <2>8. PoolsAreAccountedFor'
    <3> SUFFICES ASSUME ~poolsCrossed', NEW x \in openPools'
                 PROVE  x = logPool' \/ (\E u \in Tries : try'[u].of = x)
                          \/ \E o \in Officers : Ending(o)' /\ act'[o].to = x
      BY DEF PoolsAreAccountedFor
    <3>1. CASE x = p
      BY <2>3, <2>5, <3>1
    <3>2. CASE x # p
      <4>1. x \in openPools /\ ~poolsCrossed
        BY <2>4, <3>2
      <4>2. x = logPool \/ (\E u \in Tries : try[u].of = x) \/ \E o \in Officers : Ending(o) /\ act[o].to = x
        BY <4>1 DEF AuditInv, PoolsAreAccountedFor
      <4>3. try[t].of = NoLogPool
        BY <2>4 DEF AuditInv, PoolsAreNamed, NoTry
      <4>4. x # NoLogPool
        BY <1>0, <4>1
      <4>5. (\E u \in Tries : try[u].of = x) => \E u \in Tries : try'[u].of = x
        BY <2>3, <4>3, <4>4
      <4> QED
        BY <2>4, <4>2, <4>5 DEF Ending
    <3> QED
      BY <3>1, <3>2
  <2>9. poolsCrossed' \in BOOLEAN
    BY <1>a, <2>4
  <2>10. openPools' \subseteq LogPools
    BY <1>0, <2>4
  <2> QED
    BY <1>0, <1>a, <1>b, <2>3, <2>4, <2>6, <2>7, <2>8, <2>9, <2>10
<1>4. ASSUME NEW t \in Tries, Probed(t) PROVE AuditInv'
  <2>1. /\ try[t].stage = "probe" /\ logPool' = try[t].of /\ Advances(t, "schema")
        /\ UNCHANGED <<logDb, migrated, openPools, retryTimer, sweepTimer, act, listing, poolsCrossed, flips>>
    BY <1>4 DEF Probed
  <2>2. Trying(t)
    BY <2>1 DEF Trying
  <2>3. /\ try' \in [Tries -> TryRecords]
        /\ try'[t].stage = "schema"
        /\ \A u \in Tries \ {t} : try'[u] = try[u]
        /\ \A u \in Tries : (Trying(u)' <=> Trying(u)) /\ try'[u].of = try[u].of
    BY <2>1, <2>2, RunAdvances
  <2>4. try[t].of \in LogPools
    BY <2>2 DEF AuditInv, PoolsAreNamed
  <2>5. PoolsAreNamed'
    <3>1. \A u \in Tries : IF Trying(u)' THEN try'[u].of \in LogPools ELSE try'[u] = NoTry
      BY <2>2, <2>3 DEF AuditInv, PoolsAreNamed
    <3> QED
      BY <2>1, <3>1 DEF AuditInv, PoolsAreNamed, Ending
  <2>6. OneAtATime'
    <3> SUFFICES ASSUME ~poolsCrossed' PROVE OneAtATime'
      BY DEF OneAtATime
    <3>1. /\ \A u \in Tries : Trying(u) => u = t
          /\ \A o \in Officers : ~Ending(o)
      BY <2>1, <2>2 DEF AuditInv, OneAtATime
    <3>2. \A o \in Officers : ~Ending(o)'
      BY <2>1, <3>1 DEF Ending
    <3>3. \A u \in Tries \ {t} : try'[u].stage = "none" /\ ~Trying(u)'
      BY <2>3, <3>1 DEF Trying
    <3> QED
      BY <2>1, <2>3, <3>2, <3>3 DEF OneAtATime
  <2>7. PoolsAreAccountedFor'
    <3> SUFFICES ASSUME ~poolsCrossed', NEW x \in openPools'
                 PROVE  x = logPool' \/ (\E u \in Tries : try'[u].of = x)
                          \/ \E o \in Officers : Ending(o)' /\ act'[o].to = x
      BY DEF PoolsAreAccountedFor
    <3>1. \A o \in Officers : ~Ending(o)
      BY <2>1, <2>2 DEF AuditInv, OneAtATime
    <3>2. x = logPool \/ \E u \in Tries : try[u].of = x
      BY <2>1, <3>1 DEF AuditInv, PoolsAreAccountedFor
    <3>3. x # logPool
      BY <1>0, <2>1 DEF AuditInv, OneAtATime
    <3> QED
      BY <2>1, <2>3, <3>2, <3>3
  <2> QED
    BY <1>0, <1>a, <1>b, <2>1, <2>3, <2>4, <2>5, <2>6, <2>7
<1>5. ASSUME NEW t \in Tries, ChangeMade(t) PROVE AuditInv'
  <2>1. UNCHANGED <<logDb, poolVars, try, act, listing, poolsCrossed>> /\ migrated' \in 0 .. Changes
    BY <1>a, <1>5, AuditAssumption DEF ChangeMade
  <2>2. PoolsAreNamed' /\ OneAtATime' /\ PoolsAreAccountedFor'
    BY <2>1, PoolsLeftAlone DEF poolVars, Ending
  <2> QED
    BY <1>0, <1>a, <1>b, <2>1, <2>2 DEF poolVars
<1>6. ASSUME NEW t \in Tries, SchemaReady(t) PROVE AuditInv'
  <2>1. /\ try[t].stage = "schema" /\ Advances(t, "sweep")
        /\ UNCHANGED <<logDb, migrated, poolVars, act, listing, poolsCrossed, flips>>
    BY <1>6 DEF SchemaReady
  <2>2. Trying(t)
    BY <2>1 DEF Trying
  <2>3. /\ try' \in [Tries -> TryRecords]
        /\ try'[t].stage = "sweep"
        /\ \A u \in Tries \ {t} : try'[u] = try[u]
        /\ \A u \in Tries : (Trying(u)' <=> Trying(u)) /\ try'[u].of = try[u].of
    BY <2>1, <2>2, RunAdvances
  <2>4. PoolsAreNamed'
    <3>1. \A u \in Tries : IF Trying(u)' THEN try'[u].of \in LogPools ELSE try'[u] = NoTry
      BY <2>2, <2>3 DEF AuditInv, PoolsAreNamed
    <3> QED
      BY <2>1, <3>1 DEF AuditInv, PoolsAreNamed, Ending
  <2>5. OneAtATime'
    <3> SUFFICES ASSUME ~poolsCrossed' PROVE OneAtATime'
      BY DEF OneAtATime
    <3>1. /\ \A u \in Tries : Trying(u) => u = t
          /\ \A o \in Officers : ~Ending(o)
          /\ logPool = try[t].of
      BY <2>1, <2>2 DEF AuditInv, OneAtATime
    <3>2. \A o \in Officers : ~Ending(o)'
      BY <2>1, <3>1 DEF Ending
    <3>3. \A u \in Tries \ {t} : try'[u].stage = "none" /\ ~Trying(u)'
      BY <2>3, <3>1 DEF Trying
    <3>4. logPool' = logPool
      BY <2>1 DEF poolVars
    <3> QED
      BY <2>3, <3>1, <3>2, <3>3, <3>4 DEF OneAtATime
  <2>6. PoolsAreAccountedFor'
    BY <2>1, <2>3 DEF AuditInv, PoolsAreAccountedFor, Ending, poolVars
  <2> QED
    BY <1>0, <1>a, <1>b, <2>1, <2>3, <2>4, <2>5, <2>6 DEF poolVars
<1>7. ASSUME NEW t \in Tries, Connected(t) PROVE AuditInv'
  <2>1. /\ try[t].stage = "sweep" /\ try' = [try EXCEPT ![t] = NoTry]
        /\ retryTimer' \in BOOLEAN /\ sweepTimer' \in BOOLEAN
        /\ UNCHANGED <<logDb, migrated, logPool, openPools, act, listing, poolsCrossed>>
    BY <1>7 DEF Connected
  <2>2. try' \in [Tries -> TryRecords] /\ try'[t] = NoTry /\ \A u \in Tries \ {t} : try'[u] = try[u]
    BY <1>0, <2>1, RunSet
  <2>3. Trying(t) /\ ~Trying(t)'
    BY <2>1, <2>2 DEF Trying, NoTry
  <2>4. PoolsAreNamed'
    BY <2>1, <2>2, <2>3 DEF AuditInv, PoolsAreNamed, Trying, Ending
  <2>5. OneAtATime'
    <3> SUFFICES ASSUME ~poolsCrossed' PROVE OneAtATime'
      BY DEF OneAtATime
    <3>1. /\ \A u \in Tries : Trying(u) => u = t
          /\ \A o \in Officers : ~Ending(o)
      BY <2>1, <2>3 DEF AuditInv, OneAtATime
    <3>2. \A o \in Officers : ~Ending(o)'
      BY <2>1, <3>1 DEF Ending
    <3>3. \A u \in Tries : try'[u].stage = "none" /\ ~Trying(u)'
      BY <2>2, <2>3, <3>1 DEF Trying
    <3> QED
      BY <3>2, <3>3 DEF OneAtATime
  <2>6. PoolsAreAccountedFor'
    <3> SUFFICES ASSUME ~poolsCrossed', NEW x \in openPools'
                 PROVE  x = logPool' \/ (\E u \in Tries : try'[u].of = x)
                          \/ \E o \in Officers : Ending(o)' /\ act'[o].to = x
      BY DEF PoolsAreAccountedFor
    <3>1. logPool = try[t].of
      BY <2>1 DEF AuditInv, OneAtATime
    <3>2. x = logPool \/ (\E u \in Tries : try[u].of = x) \/ \E o \in Officers : Ending(o) /\ act[o].to = x
      BY <2>1 DEF AuditInv, PoolsAreAccountedFor
    <3>3. (\E u \in Tries : try[u].of = x) => x = logPool \/ \E u \in Tries : try'[u].of = x
      BY <2>2, <3>1
    <3> QED
      BY <2>1, <3>2, <3>3 DEF Ending
  <2> QED
    BY <1>0, <1>a, <1>b, <2>1, <2>2, <2>4, <2>5, <2>6
<1>8. ASSUME NEW t \in Tries, TryFails(t) PROVE AuditInv'
  <2>1. /\ try[t].stage \in {"probe", "schema"} /\ Advances(t, "failed")
        /\ openPools' = openPools \ {try[t].of}
        /\ UNCHANGED <<logDb, migrated, logPool, retryTimer, sweepTimer, act, listing, poolsCrossed>>
    BY <1>8 DEF TryFails, GivenUp
  <2>2. Trying(t)
    BY <2>1 DEF Trying
  <2>3. /\ try' \in [Tries -> TryRecords]
        /\ try'[t].stage = "failed"
        /\ \A u \in Tries \ {t} : try'[u] = try[u]
        /\ \A u \in Tries : (Trying(u)' <=> Trying(u)) /\ try'[u].of = try[u].of
    BY <2>1, <2>2, RunAdvances
  <2>4. PoolsAreNamed'
    <3>1. \A u \in Tries : IF Trying(u)' THEN try'[u].of \in LogPools ELSE try'[u] = NoTry
      BY <2>2, <2>3 DEF AuditInv, PoolsAreNamed
    <3> QED
      BY <2>1, <3>1 DEF AuditInv, PoolsAreNamed, Ending
  <2>5. OneAtATime'
    <3> SUFFICES ASSUME ~poolsCrossed' PROVE OneAtATime'
      BY DEF OneAtATime
    <3>1. /\ \A u \in Tries : Trying(u) => u = t
          /\ \A o \in Officers : ~Ending(o)
          /\ logPool \in {NoLogPool, try[t].of}
      BY <2>1, <2>2 DEF AuditInv, OneAtATime
    <3>2. \A o \in Officers : ~Ending(o)'
      BY <2>1, <3>1 DEF Ending
    <3>3. \A u \in Tries \ {t} : try'[u].stage = "none" /\ ~Trying(u)'
      BY <2>3, <3>1 DEF Trying
    <3>4. logPool' \in {NoLogPool, try'[t].of} /\ try'[t].of \notin openPools'
      BY <2>1, <2>3, <3>1
    <3> QED
      BY <2>3, <3>2, <3>3, <3>4 DEF OneAtATime
  <2>6. PoolsAreAccountedFor'
    BY <2>1, <2>3 DEF AuditInv, PoolsAreAccountedFor, Ending
  <2>7. openPools' \subseteq LogPools
    BY <1>0, <2>1
  <2> QED
    BY <1>0, <1>a, <1>b, <2>1, <2>3, <2>4, <2>5, <2>6, <2>7
<1>9. ASSUME NEW t \in Tries, TryFailed(t) PROVE AuditInv'
  <2>1. /\ try[t].stage = "failed" /\ try' = [try EXCEPT ![t] = NoTry] /\ logPool' = NoLogPool
        /\ retryTimer' = (retryTimer \/ try[t].boot)
        /\ UNCHANGED <<logDb, migrated, openPools, sweepTimer, act, listing, poolsCrossed>>
    BY <1>9 DEF TryFailed
  <2>2. try' \in [Tries -> TryRecords] /\ try'[t] = NoTry /\ \A u \in Tries \ {t} : try'[u] = try[u]
    BY <1>0, <2>1, RunSet
  <2>3. Trying(t) /\ ~Trying(t)'
    BY <2>1, <2>2 DEF Trying, NoTry
  <2>4. PoolsAreNamed'
    BY <2>1, <2>2, <2>3 DEF AuditInv, PoolsAreNamed, Trying, Ending
  <2>5. ASSUME ~poolsCrossed
        PROVE  /\ \A u \in Tries : Trying(u) => u = t
               /\ \A o \in Officers : ~Ending(o)
               /\ logPool \in {NoLogPool, try[t].of} /\ try[t].of \notin openPools
    BY <2>1, <2>3, <2>5 DEF AuditInv, OneAtATime
  <2>6. OneAtATime'
    <3> SUFFICES ASSUME ~poolsCrossed' PROVE OneAtATime'
      BY DEF OneAtATime
    <3>1. \A o \in Officers : ~Ending(o)'
      BY <2>1, <2>5 DEF Ending
    <3>2. \A u \in Tries : try'[u].stage = "none" /\ ~Trying(u)'
      BY <2>1, <2>2, <2>3, <2>5 DEF Trying
    <3> QED
      BY <3>1, <3>2 DEF OneAtATime
  <2>7. PoolsAreAccountedFor'
    <3> SUFFICES ASSUME ~poolsCrossed', NEW x \in openPools PROVE FALSE
      BY <2>1 DEF PoolsAreAccountedFor
    <3>1. x = logPool \/ \E u \in Tries : try[u].of = x
      BY <2>1, <2>5 DEF AuditInv, PoolsAreAccountedFor
    <3>2. x # NoLogPool
      BY <1>0
    <3>3. \A u \in Tries \ {t} : try[u].of = NoLogPool
      BY <2>1, <2>5 DEF AuditInv, PoolsAreNamed, NoTry
    <3> QED
      BY <2>1, <2>5, <3>1, <3>2, <3>3
  <2>8. retryTimer' \in BOOLEAN
    BY <1>0, <1>a, <2>1 DEF TryRecords
  <2> QED
    BY <1>0, <1>a, <1>b, <2>1, <2>2, <2>4, <2>6, <2>7, <2>8
<1>10. ASSUME NEW o \in Officers, Arrive(o) \/ Report(o) \/ Written(o) PROVE AuditInv'
  <2>1. PICK r \in ActRecords : act' = [act EXCEPT ![o] = r] /\ r.stage # "ending" /\ act[o].stage # "ending"
    <3>1. CASE Arrive(o)
      <4>1. PICK r : r = [act[o] EXCEPT !.stage = "handled"]
        OBVIOUS
      <4>2. r \in ActRecords /\ r.stage = "handled"
        BY <1>0, <4>1 DEF ActRecords
      <4>3. act[o].stage = "none" /\ act' = [act EXCEPT ![o] = r]
        BY <1>0, <3>1, <4>1 DEF Arrive
      <4> QED
        BY <4>2, <4>3
    <3>2. CASE Report(o)
      <4>1. [stage |-> "writing", to |-> logPool] \in ActRecords /\ NoAct.stage = "none"
        BY <1>0 DEF ActRecords, NoAct
      <4>2. act[o].stage = "handled"
              /\ (act' = [act EXCEPT ![o] = NoAct] \/ act' = [act EXCEPT ![o] = [stage |-> "writing", to |-> logPool]])
        BY <3>2 DEF Report
      <4> QED
        BY <1>0, <4>1, <4>2
    <3>3. CASE Written(o)
      BY <1>0, <3>3 DEF Written, NoAct
    <3> QED
      BY <1>10, <3>1, <3>2, <3>3
  <2>2. UNCHANGED <<logDb, migrated, logPool, openPools, sweepTimer, try, listing, poolsCrossed>> /\ retryTimer' \in BOOLEAN
    <3>1. CASE Arrive(o)
      BY <1>a, <3>1 DEF Arrive, poolVars
    <3>2. CASE Report(o)
      BY <1>a, <3>2 DEF Report, Resumes
    <3>3. CASE Written(o)
      BY <1>a, <3>3 DEF Written, poolVars
    <3> QED
      BY <1>10, <3>1, <3>2, <3>3
  <2>3. act' \in [Officers -> ActRecords] /\ act'[o] = r /\ \A q \in Officers \ {o} : act'[q] = act[q]
    BY <2>1, ReportSet
  <2>4. PoolsAreNamed' /\ OneAtATime' /\ PoolsAreAccountedFor'
    <3>1. \A q \in Officers : (Ending(q)' <=> Ending(q)) /\ (Ending(q) => act'[q].to = act[q].to)
      BY <2>1, <2>3 DEF Ending
    <3> QED
      BY <2>2, <3>1, PoolsLeftAlone
  <2> QED
    BY <1>0, <1>a, <1>b, <2>2, <2>3, <2>4
<1>11. ASSUME NEW o \in Officers, ConnectionLost(o) PROVE AuditInv'
  <2>1. /\ act[o].stage = "writing" /\ sweepTimer' = FALSE
        /\ poolsCrossed' = (poolsCrossed \/ (logPool # NoLogPool /\ Overlapped(o)))
        /\ UNCHANGED <<logDb, migrated, logPool, openPools, try, listing>>
    BY <1>11 DEF ConnectionLost
  <2>2. ~Ending(o)
    BY <2>1 DEF Ending
  <2>3. poolsCrossed' \in BOOLEAN
    BY <1>a, <2>1
  <2>4. CASE logPool = NoLogPool
    <3>1. retryTimer' = TRUE /\ act' = [act EXCEPT ![o] = NoAct] /\ poolsCrossed' = poolsCrossed
      BY <1>11, <1>a, <2>1, <2>4 DEF ConnectionLost
    <3>2. act' \in [Officers -> ActRecords] /\ act'[o] = NoAct /\ \A q \in Officers \ {o} : act'[q] = act[q]
      BY <1>0, <3>1, ReportSet
    <3>3. \A q \in Officers : (Ending(q)' <=> Ending(q)) /\ (Ending(q) => act'[q].to = act[q].to)
      BY <2>2, <3>2 DEF Ending, NoAct
    <3>4. PoolsAreNamed' /\ OneAtATime' /\ PoolsAreAccountedFor'
      BY <2>1, <3>1, <3>3, PoolsLeftAlone
    <3> QED
      BY <1>0, <1>a, <1>b, <2>1, <2>3, <3>1, <3>2, <3>4
  <2>5. CASE logPool # NoLogPool
    <3>1. PICK r : r = [stage |-> "ending", to |-> logPool]
      OBVIOUS
    <3>2. r \in ActRecords /\ r.stage = "ending" /\ r.to = logPool /\ logPool \in LogPools
      BY <1>0, <2>5, <3>1 DEF ActRecords
    <3>3. retryTimer' = retryTimer /\ act' = [act EXCEPT ![o] = r]
      BY <1>11, <2>5, <3>1 DEF ConnectionLost
    <3>4. act' \in [Officers -> ActRecords] /\ act'[o] = r /\ \A q \in Officers \ {o} : act'[q] = act[q]
      BY <3>2, <3>3, ReportSet
    <3>5. Ending(o)' /\ act'[o].to = logPool /\ \A q \in Officers \ {o} : Ending(q)' <=> Ending(q)
      BY <3>2, <3>4 DEF Ending
    <3>6. PoolsAreNamed'
      BY <2>1, <3>2, <3>4, <3>5 DEF AuditInv, PoolsAreNamed, Trying
    <3>7. ASSUME ~poolsCrossed'
          PROVE  /\ ~poolsCrossed
                 /\ \A t \in Tries : ~Trying(t) /\ try[t].stage = "none"
                 /\ \A q \in Officers : ~Ending(q)
      BY <2>1, <2>2, <2>5, <3>7 DEF Overlapped, Trying
    <3>8. OneAtATime'
      <4> SUFFICES ASSUME ~poolsCrossed' PROVE OneAtATime'
        BY DEF OneAtATime
      <4>1. \A q \in Officers : Ending(q)' => q = o
        BY <3>5, <3>7
      <4>2. \A t \in Tries : try'[t].stage = "none" /\ ~Trying(t)'
        BY <2>1, <3>7 DEF Trying
      <4> QED
        BY <2>1, <3>5, <4>1, <4>2 DEF OneAtATime
    <3>9. PoolsAreAccountedFor'
      BY <2>1, <3>7 DEF AuditInv, PoolsAreAccountedFor
    <3> QED
      BY <1>0, <1>a, <1>b, <2>1, <2>3, <3>3, <3>4, <3>6, <3>8, <3>9
  <2> QED
    BY <2>4, <2>5
<1>12. ASSUME NEW o \in Officers, PoolEnded(o) PROVE AuditInv'
  <2>1. /\ Ending(o) /\ openPools' = openPools \ {act[o].to}
        /\ logPool' = NoLogPool /\ retryTimer' = TRUE
        /\ act' = [act EXCEPT ![o] = NoAct]
        /\ UNCHANGED <<logDb, migrated, sweepTimer, try, listing, poolsCrossed>>
    BY <1>12 DEF PoolEnded
  <2>2. act' \in [Officers -> ActRecords] /\ act'[o] = NoAct /\ \A q \in Officers \ {o} : act'[q] = act[q]
    BY <1>0, <2>1, ReportSet
  <2>3. ~Ending(o)' /\ \A q \in Officers \ {o} : (Ending(q)' <=> Ending(q)) /\ act'[q].to = act[q].to
    BY <2>2 DEF Ending, NoAct
  <2>4. PoolsAreNamed'
    BY <2>1, <2>3 DEF AuditInv, PoolsAreNamed, Trying
  <2>5. ASSUME ~poolsCrossed
        PROVE  /\ \A t \in Tries : ~Trying(t) /\ try[t].stage = "none"
               /\ \A q \in Officers : Ending(q) => q = o
               /\ logPool = act[o].to
    BY <2>1, <2>5 DEF AuditInv, OneAtATime, Trying
  <2>6. OneAtATime'
    <3> SUFFICES ASSUME ~poolsCrossed' PROVE OneAtATime'
      BY DEF OneAtATime
    <3>1. \A q \in Officers : ~Ending(q)'
      BY <2>1, <2>3, <2>5
    <3>2. \A t \in Tries : try'[t].stage = "none" /\ ~Trying(t)'
      BY <2>1, <2>5 DEF Trying
    <3> QED
      BY <3>1, <3>2 DEF OneAtATime
  <2>7. PoolsAreAccountedFor'
    <3> SUFFICES ASSUME ~poolsCrossed', NEW x \in openPools' PROVE FALSE
      BY DEF PoolsAreAccountedFor
    <3>1. x \in openPools /\ x # act[o].to /\ ~poolsCrossed
      BY <2>1
    <3>2. x = logPool \/ (\E t \in Tries : try[t].of = x) \/ \E q \in Officers : Ending(q) /\ act[q].to = x
      BY <3>1 DEF AuditInv, PoolsAreAccountedFor
    <3>3. \A t \in Tries : try[t].of = NoLogPool
      BY <2>5, <3>1 DEF AuditInv, PoolsAreNamed, NoTry
    <3> QED
      BY <1>0, <2>5, <3>1, <3>2, <3>3
  <2>8. openPools' \subseteq LogPools
    BY <1>0, <2>1
  <2> QED
    BY <1>0, <1>a, <1>b, <2>1, <2>2, <2>4, <2>6, <2>7, <2>8
<1> QED
  BY <1>1, <1>2, <1>3, <1>4, <1>5, <1>6, <1>7, <1>8, <1>9, <1>10, <1>11, <1>12
     DEF AuditNext, TryNext, ReportNext

LEMMA InitAuditInv == AuditInit => AuditInv
<1> SUFFICES ASSUME AuditInit PROVE AuditInv
  OBVIOUS
<1>1. PICK t \in Tries, p \in LogPools :
        /\ try = [u \in Tries |-> IF u = t THEN [stage |-> "probe", of |-> p, boot |-> TRUE] ELSE NoTry]
        /\ openPools = {p}
  BY DEF AuditInit
<1>2. PICK r : r = [stage |-> "probe", of |-> p, boot |-> TRUE]
  OBVIOUS
<1>3. r \in TryRecords /\ NoTry \in TryRecords /\ NoAct \in ActRecords
  BY <1>2 DEF TryRecords, ActRecords, NoTry, NoAct
<1>4. r.stage = "probe" /\ r.of = p
  BY <1>2
<1>5. try \in [Tries -> TryRecords] /\ try[t] = r /\ \A u \in Tries \ {t} : try[u] = NoTry
  BY <1>1, <1>2, <1>3
<1>6. act \in [Officers -> ActRecords] /\ \A o \in Officers : act[o] = NoAct
  BY <1>3 DEF AuditInit
<1>7. AuditTypeOK
  <2>1. /\ migrated \in 0 .. Changes /\ logPool \in LogPools \cup {NoLogPool} /\ openPools \subseteq LogPools
        /\ listing \in {"idle", "counted", "broke"}
        /\ {logDb, retryTimer, sweepTimer, poolsCrossed} \subseteq BOOLEAN
    <3>1. migrated \in 0 .. Changes
      BY AuditAssumption DEF AuditInit
    <3>2. logDb \in BOOLEAN /\ retryTimer = FALSE /\ sweepTimer = FALSE /\ poolsCrossed = FALSE
          /\ listing = "idle" /\ logPool = NoLogPool
      BY DEF AuditInit
    <3> QED
      BY <1>1, <3>1, <3>2
  <2> QED
    BY <1>5, <1>6, <2>1 DEF AuditTypeOK, TryRecords, ActRecords
<1>8. /\ \A o \in Officers : ~Ending(o)
      /\ Trying(t) /\ \A u \in Tries \ {t} : ~Trying(u) /\ try[u].stage = "none"
  BY <1>4, <1>5, <1>6 DEF Ending, Trying, NoTry, NoAct
<1>9. PoolsAreNamed
  BY <1>4, <1>5, <1>8 DEF PoolsAreNamed
<1>10. OneAtATime
  BY <1>4, <1>5, <1>8 DEF OneAtATime, AuditInit
<1>11. PoolsAreAccountedFor
  BY <1>1, <1>4, <1>5 DEF PoolsAreAccountedFor
<1> QED
  BY <1>7, <1>9, <1>10, <1>11 DEF AuditInv

LEMMA AuditInvariance == AuditInit /\ [][AuditNext]_auditVars => []AuditInv
  BY InitAuditInv, AuditStep, PTL

-----------------------------------------------------------------------------
(* Saved settings on their way.                                             *)

KeptEntries == [at : Saves, fresh : BOOLEAN]
Fetching == [busy : BOOLEAN, answer : BOOLEAN, at : Saves]

\* SpreadTypeOK with the shape of the mail spelled out.
TabsInv ==
    /\ view \in [OpenTabs -> Saves] /\ tabCache \in [OpenTabs -> KeptEntries] /\ tabMemo \in [OpenTabs -> KeptEntries]
    /\ fetching \in [OpenTabs -> Fetching]
    /\ mail \in [OpenTabs -> [Routes -> Seq(Saves)]]
    /\ fails \in 0 .. MaxFails
SavedInv ==
    /\ item \in {"network", "branding", "rules"} /\ savedRow \in Saves /\ untold \subseteq Saves
    /\ apiCache \in KeptEntries /\ apiReads \subseteq Saves

\* What the service keeps, what it is reading and the row are in the order of their saves.
InOrderOfSaves ==
    /\ apiCache.at <= savedRow
    /\ \A v \in apiReads : apiCache.at <= v /\ v <= savedRow
    /\ \A v, w \in apiReads : v = w

SpreadInv == SavedInv /\ TabsInv /\ InOrderOfSaves

LEMMA SpreadBasics ==
  /\ 0 \in Saves /\ Nothing \in KeptEntries /\ NotFetching \in Fetching
  /\ \A v \in Saves : Entry(v) \in KeptEntries /\ Entry(v).at = v /\ v \in Nat
  BY SpreadAssumption DEF Saves, Nothing, KeptEntries, NotFetching, Fetching, Entry

\* The parts of records that steps change.
LEMMA KeptSays ==
  /\ \A e \in KeptEntries : e.at \in Saves /\ [e EXCEPT !.fresh = TRUE] \in KeptEntries /\ [e EXCEPT !.fresh = FALSE] \in KeptEntries
                     /\ [e EXCEPT !.fresh = FALSE].at = e.at
  /\ \A f \in Fetching, v \in Saves : f.at \in Saves /\ [f EXCEPT !.answer = TRUE, !.at = v] \in Fetching
  BY DEF KeptEntries, Fetching

LEMMA InitSpreadInv == SpreadInit => SpreadInv
<1> SUFFICES ASSUME SpreadInit PROVE SpreadInv
  OBVIOUS
<1>1. SavedInv
  BY SpreadBasics DEF SpreadInit, SavedInv
<1>2. TabsInv
  <2>1. << >> \in Seq(Saves)
    OBVIOUS
  <2>2. mail \in [OpenTabs -> [Routes -> Seq(Saves)]]
    BY <2>1 DEF SpreadInit
  <2> QED
    BY <2>2, SpreadBasics, SpreadAssumption DEF SpreadInit, TabsInv
<1>3. InOrderOfSaves
  BY DEF SpreadInit, InOrderOfSaves, Nothing
<1> QED
  BY <1>1, <1>2, <1>3 DEF SpreadInv

\* A step of the saves or of the service leaves the tabs alone, and a step of a tab these.
LEMMA ServiceStep ==
  ASSUME SpreadInv, Save \/ ApiReads \/ ApiExpires \/ \E v \in Saves : ApiStores(v)
  PROVE  SpreadInv' /\ apiCache'.at >= apiCache.at
<1>0. /\ apiCache \in KeptEntries /\ apiCache.at \in Nat /\ savedRow \in Saves /\ savedRow \in Nat
      /\ apiReads \subseteq Saves /\ untold \subseteq Saves
      /\ item \in {"network", "branding", "rules"}
  BY KeptSays, SpreadBasics DEF SpreadInv, SavedInv
<1>1. UNCHANGED <<item, tabStateVars>>
  BY DEF Save, ApiReads, ApiExpires, ApiStores
<1>2. TabsInv'
  BY <1>1 DEF tabStateVars, SpreadInv, TabsInv
<1>3. CASE Save
  <2>1. /\ savedRow < MaxSaves /\ savedRow' = savedRow + 1 /\ untold' = untold \cup {savedRow + 1}
        /\ UNCHANGED <<apiCache, apiReads>>
    BY <1>3 DEF Save
  <2>2. savedRow + 1 \in Saves
    BY <1>0, <2>1, SpreadAssumption DEF Saves
  <2>3. InOrderOfSaves'
    <3>1. \A v \in apiReads : v \in Nat
      BY <1>0, SpreadBasics
    <3> QED
      BY <1>0, <2>1, <3>1 DEF SpreadInv, InOrderOfSaves
  <2> QED
    BY <1>0, <1>1, <1>2, <2>1, <2>2, <2>3 DEF SpreadInv, SavedInv
<1>4. CASE ApiReads
  <2>1. apiReads = {} /\ apiReads' = {savedRow} /\ UNCHANGED <<savedRow, untold, apiCache>>
    BY <1>4 DEF ApiReads, MayRead
  <2>2. InOrderOfSaves'
    BY <1>0, <2>1 DEF SpreadInv, InOrderOfSaves
  <2> QED
    BY <1>0, <1>1, <1>2, <2>1, <2>2 DEF SpreadInv, SavedInv
<1>5. CASE ApiExpires
  <2>1. apiCache' = [apiCache EXCEPT !.fresh = FALSE] /\ UNCHANGED <<savedRow, untold, apiReads>>
    BY <1>5 DEF ApiExpires
  <2>2. apiCache' \in KeptEntries /\ apiCache'.at = apiCache.at
    BY <1>0, <2>1, KeptSays
  <2>3. InOrderOfSaves'
    BY <2>1, <2>2 DEF SpreadInv, InOrderOfSaves
  <2> QED
    BY <1>0, <1>1, <1>2, <2>1, <2>2, <2>3 DEF SpreadInv, SavedInv
<1>6. ASSUME NEW v \in Saves, ApiStores(v) PROVE SpreadInv' /\ apiCache'.at >= apiCache.at
  <2>1. v \in apiReads /\ apiReads' = apiReads \ {v} /\ apiCache' = Entry(v) /\ UNCHANGED <<savedRow, untold>>
    BY <1>6 DEF ApiStores
  <2>2. apiReads' = {}
    BY <2>1 DEF SpreadInv, InOrderOfSaves
  <2>3. apiCache' \in KeptEntries /\ apiCache'.at = v /\ v \in Nat
    BY <2>1, SpreadBasics
  <2>4. apiCache.at <= v /\ v <= savedRow
    BY <2>1 DEF SpreadInv, InOrderOfSaves
  <2>5. InOrderOfSaves'
    BY <2>1, <2>2, <2>3, <2>4 DEF InOrderOfSaves
  <2> QED
    BY <1>0, <1>1, <1>2, <2>1, <2>2, <2>3, <2>4, <2>5 DEF SpreadInv, SavedInv
<1> QED
  BY <1>3, <1>4, <1>5, <1>6

\* What a broadcast or a step of a tab leaves as it is.
LEMMA RowsAlone ==
  ASSUME SpreadInv, UNCHANGED <<item, savedRow, apiCache, apiReads>>, untold' \subseteq untold
  PROVE  SavedInv' /\ InOrderOfSaves'
  BY DEF SpreadInv, SavedInv, InOrderOfSaves

LEMMA BroadcastStep == ASSUME SpreadInv, NEW v \in Saves, Broadcast(v) PROVE SpreadInv'
<1>1. /\ UNCHANGED <<item, savedRow, apiCache, apiReads, view, tabCache, tabMemo, fetching, fails>>
      /\ untold' \subseteq untold
  BY DEF Broadcast
<1>2. PICK routes \in SUBSET Routes : Posts(v, routes)
  BY DEF Broadcast
<1>3. mail \in [OpenTabs -> [Routes -> Seq(Saves)]]
  BY DEF SpreadInv, TabsInv
<1>4. ASSUME NEW t \in OpenTabs, NEW r \in Routes
      PROVE  (IF r \in routes THEN Append(mail[t][r], v) ELSE mail[t][r]) \in Seq(Saves)
  <2>1. mail[t][r] \in Seq(Saves)
    BY <1>3
  <2>2. Append(mail[t][r], v) \in Seq(Saves)
    BY <2>1
  <2> QED
    BY <2>1, <2>2
<1>5. mail' \in [OpenTabs -> [Routes -> Seq(Saves)]]
  BY <1>2, <1>4 DEF Posts
<1>6. TabsInv'
  BY <1>1, <1>5 DEF SpreadInv, TabsInv
<1> QED
  BY <1>1, <1>6, RowsAlone DEF SpreadInv

LEMMA TabStep ==
  ASSUME SpreadInv, NEW t \in OpenTabs,
         \/ PollNetwork(t) \/ FocusTab(t) \/ MountRules(t) \/ TabAnswered(t)
         \/ TabStores(t) \/ TabFails(t) \/ TabExpires(t) \/ TabMemoExpires(t)
         \/ \E r \in Routes : TabHears(t, r)
  PROVE  SpreadInv' /\ UNCHANGED apiCache
<1>0. /\ view \in [OpenTabs -> Saves] /\ tabCache \in [OpenTabs -> KeptEntries] /\ tabMemo \in [OpenTabs -> KeptEntries]
      /\ fetching \in [OpenTabs -> Fetching] /\ mail \in [OpenTabs -> [Routes -> Seq(Saves)]]
      /\ fails \in 0 .. MaxFails /\ savedRow \in Saves
  BY DEF SpreadInv, TabsInv, SavedInv
<1>a. /\ 0 \in Saves /\ tabCache[t].at \in Saves /\ tabMemo[t].at \in Saves /\ fetching[t].at \in Saves
      /\ \A v \in Saves : Entry(v) \in KeptEntries
      /\ NotFetching \in Fetching
  BY <1>0, SpreadBasics, KeptSays
<1>b. ASSUME Fetches(t) PROVE fetching' \in [OpenTabs -> Fetching]
  <2>1. tabMemo[t].fresh \in BOOLEAN
    BY <1>0 DEF KeptEntries
  <2>2. PICK f : f = [busy |-> TRUE, answer |-> tabMemo[t].fresh, at |-> tabMemo[t].at]
    OBVIOUS
  <2>3. f \in Fetching
    BY <1>a, <2>1, <2>2 DEF Fetching
  <2>4. fetching' = [fetching EXCEPT ![t] = f]
    BY <1>b, <2>2 DEF Fetches
  <2> QED
    BY <1>0, <2>3, <2>4
<1>c. ASSUME NEW v \in Saves, Shows(t, v) PROVE view' \in [OpenTabs -> Saves]
  BY <1>0, <1>c DEF Shows
<1>d. ASSUME NEW e \in KeptEntries, tabCache' = [tabCache EXCEPT ![t] = e] PROVE tabCache' \in [OpenTabs -> KeptEntries]
  BY <1>0, <1>d
<1>e. ASSUME UNCHANGED <<item, savedRow, untold, apiCache, apiReads>>,
             view' \in [OpenTabs -> Saves], tabCache' \in [OpenTabs -> KeptEntries], tabMemo' \in [OpenTabs -> KeptEntries],
             fetching' \in [OpenTabs -> Fetching], mail' \in [OpenTabs -> [Routes -> Seq(Saves)]],
             fails' \in 0 .. MaxFails
      PROVE  SpreadInv' /\ UNCHANGED apiCache
  BY <1>e, RowsAlone DEF SpreadInv, TabsInv
<1>1. ASSUME NEW forced \in BOOLEAN, TabReads(t, forced) PROVE SpreadInv' /\ UNCHANGED apiCache
  <2>1. /\ Wants(t, forced)
        /\ UNCHANGED <<item, savedRow, untold, apiCache, apiReads, tabCache, tabMemo, mail, fails>>
    BY <1>1 DEF TabReads
  <2>2. view' \in [OpenTabs -> Saves] /\ fetching' \in [OpenTabs -> Fetching]
    <3>1. CASE ~forced /\ tabCache[t].fresh
      <4>1. Shows(t, tabCache[t].at) /\ UNCHANGED fetching
        BY <2>1, <3>1 DEF Wants
      <4> QED
        BY <1>0, <1>a, <1>c, <4>1
    <3>2. CASE ~(~forced /\ tabCache[t].fresh)
      <4>1. Fetches(t) /\ UNCHANGED view
        BY <2>1, <3>2 DEF Wants
      <4> QED
        BY <1>0, <1>b, <4>1
    <3> QED
      BY <3>1, <3>2
  <2> QED
    BY <1>0, <1>e, <2>1, <2>2
<1>2. CASE PollNetwork(t) \/ FocusTab(t)
  BY <1>1, <1>2 DEF PollNetwork, FocusTab
<1>3. CASE MountRules(t)
  <2>1. UNCHANGED <<item, savedRow, untold, apiCache, apiReads, tabCache, tabMemo, mail, fails>>
    BY <1>3 DEF MountRules
  <2>2. fetching' = fetching \/ Fetches(t)
    BY <1>3 DEF MountRules
  <2>3. \/ Shows(t, tabCache[t].at)
        \/ Shows(t, 0)
    BY <1>3 DEF MountRules
  <2>4. view' \in [OpenTabs -> Saves]
    BY <1>a, <1>c, <2>3
  <2>5. fetching' \in [OpenTabs -> Fetching]
    BY <1>0, <1>b, <2>2
  <2> QED
    BY <1>0, <1>e, <2>1, <2>4, <2>5
<1>4. CASE TabAnswered(t)
  <2>1. /\ fetching' = [fetching EXCEPT ![t].answer = TRUE, ![t].at = savedRow]
        /\ tabMemo' = [tabMemo EXCEPT ![t] = Entry(savedRow)]
        /\ UNCHANGED <<item, savedRow, untold, apiCache, apiReads, view, tabCache, mail, fails>>
    BY <1>4 DEF TabAnswered
  <2>2. PICK f \in Fetching : f = fetching[t]
    BY <1>0
  <2>3. PICK g : g = [f EXCEPT !.answer = TRUE, !.at = savedRow]
    OBVIOUS
  <2>4. g \in Fetching
    BY <1>0, <2>3, KeptSays
  <2>5. fetching' = [fetching EXCEPT ![t] = g]
    BY <1>0, <2>1, <2>2, <2>3, Zenon
  <2>6. fetching' \in [OpenTabs -> Fetching]
    BY <1>0, <2>4, <2>5
  <2>7. tabMemo' \in [OpenTabs -> KeptEntries]
    BY <1>0, <1>a, <2>1
  <2> QED
    BY <1>0, <1>e, <2>1, <2>6, <2>7
<1>5. CASE TabStores(t)
  <2>1. PICK v : v = fetching[t].at
    OBVIOUS
  <2>2. /\ tabCache' = [tabCache EXCEPT ![t] = Entry(v)] /\ Shows(t, v)
        /\ fetching' = [fetching EXCEPT ![t] = NotFetching]
        /\ UNCHANGED <<item, savedRow, untold, apiCache, apiReads, tabMemo, mail, fails>>
    BY <1>5, <2>1 DEF TabStores
  <2>3. v \in Saves /\ Entry(v) \in KeptEntries
    BY <1>a, <2>1
  <2>4. fetching' \in [OpenTabs -> Fetching]
    BY <1>0, <1>a, <2>2
  <2> QED
    BY <1>0, <1>c, <1>d, <1>e, <2>2, <2>3, <2>4
<1>6. CASE TabFails(t)
  <2>1. /\ fails < MaxFails /\ fails' = fails + 1
        /\ fetching' = [fetching EXCEPT ![t] = NotFetching]
        /\ UNCHANGED <<item, savedRow, untold, apiCache, apiReads, tabMemo, mail>>
    BY <1>6 DEF TabFails
  <2>2. fails' \in 0 .. MaxFails
    BY <1>0, <2>1, SpreadAssumption
  <2>3. fetching' \in [OpenTabs -> Fetching]
    BY <1>0, <1>a, <2>1
  <2>4. view' \in [OpenTabs -> Saves] /\ tabCache' \in [OpenTabs -> KeptEntries]
    <3>1. CASE item = "network"
      <4>1. Shows(t, tabCache[t].at) /\ tabCache' = [tabCache EXCEPT ![t].fresh = TRUE]
        BY <1>6, <3>1 DEF TabFails
      <4>2. PICK e \in KeptEntries : e = tabCache[t]
        BY <1>0
      <4>3. PICK g : g = [e EXCEPT !.fresh = TRUE]
        OBVIOUS
      <4>4. g \in KeptEntries /\ tabCache' = [tabCache EXCEPT ![t] = g]
        BY <4>1, <4>2, <4>3, KeptSays
      <4> QED
        BY <1>a, <1>c, <1>d, <4>1, <4>4
    <3>2. CASE item # "network"
      <4>1. UNCHANGED <<view, tabCache>>
        BY <1>6, <3>2 DEF TabFails
      <4> QED
        BY <1>0, <4>1
    <3> QED
      BY <3>1, <3>2
  <2> QED
    BY <1>0, <1>e, <2>1, <2>2, <2>3, <2>4
<1>7. ASSUME NEW r \in Routes, TabHears(t, r) PROVE SpreadInv' /\ UNCHANGED apiCache
  <2>1. PICK q \in Seq(Saves) : q = mail[t][r]
    BY <1>0
  <2>2. PICK v : v = Head(q)
    OBVIOUS
  <2>3. /\ q # << >> /\ tabCache' = [tabCache EXCEPT ![t] = Entry(v)] /\ Shows(t, v)
        /\ mail' = [mail EXCEPT ![t][r] = Tail(q)]
        /\ UNCHANGED <<item, savedRow, untold, apiCache, apiReads, tabMemo, fetching, fails>>
    BY <1>7, <2>1, <2>2 DEF TabHears
  <2>4. v \in Saves /\ Tail(q) \in Seq(Saves)
    BY <2>1, <2>2, <2>3
  <2>5. mail' \in [OpenTabs -> [Routes -> Seq(Saves)]]
    BY <1>0, <2>3, <2>4
  <2>6. Entry(v) \in KeptEntries
    BY <1>a, <2>4
  <2> QED
    BY <1>0, <1>c, <1>d, <1>e, <2>3, <2>4, <2>5, <2>6
<1>8. CASE TabExpires(t)
  <2>1. /\ tabCache' = [tabCache EXCEPT ![t].fresh = FALSE]
        /\ UNCHANGED <<item, savedRow, untold, apiCache, apiReads, view, tabMemo, fetching, mail, fails>>
    BY <1>8 DEF TabExpires, CacheExpires
  <2>2. PICK e \in KeptEntries : e = tabCache[t]
    BY <1>0
  <2>3. PICK g : g = [e EXCEPT !.fresh = FALSE]
    OBVIOUS
  <2>4. g \in KeptEntries /\ tabCache' = [tabCache EXCEPT ![t] = g]
    BY <2>1, <2>2, <2>3, KeptSays
  <2> QED
    BY <1>0, <1>d, <1>e, <2>1, <2>4
<1>9. CASE TabMemoExpires(t)
  <2>1. /\ tabMemo' = [tabMemo EXCEPT ![t].fresh = FALSE]
        /\ UNCHANGED <<item, savedRow, untold, apiCache, apiReads, view, tabCache, fetching, mail, fails>>
    BY <1>9 DEF TabMemoExpires
  <2>2. PICK e \in KeptEntries : e = tabMemo[t]
    BY <1>0
  <2>3. PICK g : g = [e EXCEPT !.fresh = FALSE]
    OBVIOUS
  <2>4. g \in KeptEntries /\ tabMemo' = [tabMemo EXCEPT ![t] = g]
    BY <2>1, <2>2, <2>3, KeptSays
  <2>5. tabMemo' \in [OpenTabs -> KeptEntries]
    BY <1>0, <2>4
  <2> QED
    BY <1>0, <1>e, <2>1, <2>5
<1> QED
  BY <1>2, <1>3, <1>4, <1>5, <1>6, <1>7, <1>8, <1>9

LEMMA SpreadStep ==
  ASSUME SpreadInv, [SpreadNext]_spreadVars
  PROVE  SpreadInv' /\ apiCache'.at >= apiCache.at
<1>0. apiCache.at \in Nat
  BY KeptSays, SpreadBasics DEF SpreadInv, SavedInv
<1>1. CASE UNCHANGED spreadVars
  <2>1. UNCHANGED <<item, savedRow, untold, apiCache, apiReads>> /\ UNCHANGED tabStateVars
    BY <1>1 DEF spreadVars, tabStateVars
  <2>2. TabsInv'
    BY <2>1 DEF tabStateVars, SpreadInv, TabsInv
  <2> QED
    BY <1>0, <2>1, <2>2, RowsAlone DEF SpreadInv
<1>2. CASE Save \/ ApiReads \/ ApiExpires \/ \E v \in Saves : ApiStores(v)
  BY <1>2, ServiceStep
<1>3. ASSUME NEW v \in Saves, Broadcast(v) PROVE SpreadInv' /\ apiCache'.at >= apiCache.at
  <2>1. UNCHANGED apiCache
    BY <1>3 DEF Broadcast
  <2> QED
    BY <1>0, <1>3, <2>1, BroadcastStep
<1>4. ASSUME NEW t \in OpenTabs,
             \/ PollNetwork(t) \/ FocusTab(t) \/ MountRules(t) \/ TabAnswered(t)
             \/ TabStores(t) \/ TabFails(t) \/ TabExpires(t) \/ TabMemoExpires(t)
             \/ \E r \in Routes : TabHears(t, r)
      PROVE  SpreadInv' /\ apiCache'.at >= apiCache.at
  BY <1>0, <1>4, TabStep
<1> QED
  BY <1>1, <1>2, <1>3, <1>4 DEF SpreadNext

LEMMA SpreadInvariance == SpreadInit /\ [][SpreadNext]_spreadVars => []SpreadInv
<1>1. SpreadInv /\ [SpreadNext]_spreadVars => SpreadInv'
  BY SpreadStep
<1> QED
  BY <1>1, InitSpreadInv, PTL

LEMMA SpreadShape == SpreadInv => SpreadTypeOK
  BY DEF SpreadInv, SavedInv, TabsInv, SpreadTypeOK, KeptEntries, Fetching

-----------------------------------------------------------------------------
(* The run.                                                                 *)

SettlingVars == <<settling, spreadVars, auditVars, rateVars, ruleRow>>
SettlingStep == SpreadPart \/ AuditPart \/ RatePart \/ RulesPart

\* A behaviour of the run is one of every part, whichever of them moves.
LEMMA SettlingParts ==
  SettlingSpec =>
    /\ SpreadInit /\ [][SpreadNext]_spreadVars
    /\ AuditInit /\ [][AuditNext]_auditVars
    /\ RateSpec /\ RulesSpec
<1>1. SettlingInit => SpreadInit /\ AuditInit /\ RateInit /\ RulesInit
  BY DEF SettlingInit
<1>2. [SettlingStep]_SettlingVars =>
        /\ [SpreadNext]_spreadVars /\ [AuditNext]_auditVars
        /\ [RateNext]_rateVars /\ [RulesNext]_ruleRow
  BY DEF SettlingStep, SettlingVars, SpreadPart, AuditPart, RatePart, RulesPart
<1>3. SettlingSpec => SettlingInit /\ [][SettlingStep]_SettlingVars
  BY PTL DEF SettlingSpec, SettlingStep, SettlingVars
<1> QED
  BY <1>1, <1>2, <1>3, PTL DEF RateSpec, RulesSpec

LEMMA SettlingInvariance == SettlingSpec => [](SpreadInv /\ AuditInv /\ RateInv /\ KeyInv /\ RulesInv)
  BY SettlingParts, SpreadInvariance, AuditInvariance, RateInvariance, RulesInvariance, PTL

\* No key is granted more than its limit, a wallet is held to the rules its browser shows, and
\* every open pool of the audit log is accounted for, for any number of requests, saves, runs
\* and reports (rate-limit-store.ts, system-ra.service.ts, audit-log.service.ts).
THEOREM LimitsStand == SettlingSpec => []LimitsHold
<1>1. RateInv => WithinLimit
  BY RateInvKeeps
<1>2. RulesInv => EnforcesWhatItShows
  BY RulesAgree
<1>3. AuditInv => PoolsAreAccountedFor
  BY DEF AuditInv
<1>4. SpreadInv /\ AuditInv /\ RateInv /\ KeyInv /\ RulesInv => LimitsHold
  BY <1>1, <1>2, <1>3 DEF LimitsHold
<1> QED
  BY <1>4, SettlingInvariance, PTL

\* Every variable keeps its shape: caches hold saves, sequences of messages too, runs and
\* reports their stages, counts their bounds, and a stored field of the rules is an accepted one.
THEOREM SettlingTyped == SettlingSpec => []SettlingTypeOK
<1>1. RulesInv => RulesTypeOK
  BY DEF RulesInv, RulesTypeOK
<1>2. AuditInv => AuditTypeOK
  BY DEF AuditInv
<1>3. SpreadInv /\ AuditInv /\ RateInv /\ KeyInv /\ RulesInv => SettlingTypeOK
  BY <1>1, <1>2, SpreadShape, RateShape DEF SettlingTypeOK
<1> QED
  BY <1>3, SettlingInvariance, PTL

\* The settings an operation of a wallet works with are never older than those an earlier one
\* worked with, for any number of saves and reads (loadRaRuntimeSettings of users.service.ts):
\* it is the part of SettlesInTheEnd that says what no step may do.
THEOREM NeverBack == SettlingSpec => OperationsNeverGoBack
<1>1. SpreadInv /\ [SpreadNext]_spreadVars => [apiCache'.at >= apiCache.at]_spreadVars
  BY SpreadStep
<1> QED
  BY <1>1, SettlingParts, SpreadInvariance, PTL DEF OperationsNeverGoBack
=============================================================================
