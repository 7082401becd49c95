----------------------------- MODULE PricesProofs -----------------------------
(***************************************************************************)
(* Proofs about prices and amounts (MCPrices): the amounts of a stake, the *)
(* live prices of market tokens, the bars made of polls, the settings of   *)
(* RA and the address of the backend on their way, and the poller with its *)
(* pairs.  Each has an inductive invariant of its own; the last section    *)
(* puts them together, since a behaviour of the run is one of every part.  *)
(***************************************************************************)
EXTENDS MCPrices, FiniteSetTheorems, TLAPS

-----------------------------------------------------------------------------
(* Smallest and largest of a set of numbers.                                *)

\* The smallest of a set of numbers: the numbers up to all of them are as many as it and one.
LEMMA SmallestOf ==
  ASSUME NEW S \in SUBSET Nat, S # {}
  PROVE  Min(S) \in S /\ \A y \in S : Min(S) <= y
<1>1. PICK s \in S : TRUE
  OBVIOUS
<1>2. PICK T : T = {k \in 0 .. s : \A y \in S : k <= y}
  OBVIOUS
<1>3. s \in Nat /\ \A y \in S : y \in Nat
  OBVIOUS
<1>4. T \subseteq 0 .. s /\ \A t \in T, k \in Nat : k <= t => k \in T
  BY <1>2, <1>3
<1>5. IsFiniteSet(0 .. s) /\ IsFiniteSet(T)
  <2>1. IsFiniteSet(0 .. s)
    BY <1>3, FS_Interval
  <2> QED
    BY <1>4, <2>1, FS_Subset
<1>6. PICK n \in Nat : n = Cardinality(T)
  BY <1>5, FS_CardinalityType
<1>7. 0 \in T
  BY <1>2, <1>3
<1>8. n # 0
  BY <1>5, <1>6, <1>7, FS_EmptySet
<1>9. n - 1 \in T
  <2> SUFFICES ASSUME n - 1 \notin T PROVE FALSE
    OBVIOUS
  <2>1. \A t \in T : t \in 0 .. n - 2
    BY <1>3, <1>4, <1>8
  <2>2. CASE n = 1
    BY <1>7, <2>1, <2>2
  <2>3. CASE n # 1
    <3>1. n - 2 \in Nat
      BY <1>8, <2>3
    <3>2. IsFiniteSet(0 .. n - 2) /\ Cardinality(0 .. n - 2) = n - 1
      BY <3>1, FS_Interval
    <3>3. Cardinality(T) <= Cardinality(0 .. n - 2)
      BY <2>1, <3>2, FS_Subset
    <3> QED
      BY <1>6, <3>2, <3>3
  <2> QED
    BY <2>2, <2>3
<1>10. n \notin T
  <2> SUFFICES ASSUME n \in T PROVE FALSE
    OBVIOUS
  <2>1. 0 .. n \subseteq T
    BY <1>4
  <2>2. Cardinality(0 .. n) = n + 1
    BY FS_Interval
  <2>3. Cardinality(0 .. n) <= Cardinality(T)
    BY <1>5, <2>1, FS_Subset
  <2> QED
    BY <1>6, <2>2, <2>3
<1>11. \A y \in S : n - 1 <= y
  BY <1>2, <1>9
<1>12. PICK x \in S : x < n
  <2>1. CASE n \in 0 .. s
    BY <1>2, <1>3, <1>10, <2>1
  <2>2. CASE n \notin 0 .. s
    BY <1>1, <1>3, <2>2
  <2> QED
    BY <2>1, <2>2
<1>13. x = n - 1
  BY <1>3, <1>11, <1>12
<1>14. x \in S /\ \A y \in S : x <= y
  BY <1>11, <1>13
<1> QED
  BY <1>14 DEF Min

LEMMA LeastIs ==
  ASSUME NEW S \in SUBSET Nat, NEW x \in S, \A y \in S : x <= y
  PROVE  Min(S) = x
<1>1. Min(S) \in S /\ \A y \in S : Min(S) <= y
  BY DEF Min
<1>2. Min(S) <= x /\ x <= Min(S) /\ x \in Nat /\ Min(S) \in Nat
  BY <1>1
<1> QED
  BY <1>2

LEMMA GreatestIs ==
  ASSUME NEW S \in SUBSET Nat, NEW x \in S, \A y \in S : y <= x
  PROVE  Max(S) = x
<1>1. Max(S) \in S /\ \A y \in S : Max(S) >= y
  BY DEF Max
<1>2. Max(S) >= x /\ Max(S) <= x /\ x \in Nat /\ Max(S) \in Nat
  BY <1>1
<1> QED
  BY <1>2

\* The largest of numbers up to n is the one that lies nearest to it.
LEMMA LargestOf ==
  ASSUME NEW n \in Nat, NEW S \in SUBSET (0 .. n), S # {}
  PROVE  Max(S) \in S /\ \A y \in S : y <= Max(S)
<1>1. PICK T : T = {n - y : y \in S}
  OBVIOUS
<1>2. T \in SUBSET Nat /\ T # {}
  <2>1. \A y \in S : y \in 0 .. n /\ n - y \in Nat
    OBVIOUS
  <2>2. PICK y \in S : n - y \in T
    BY <1>1
  <2> QED
    BY <1>1, <2>1, <2>2
<1>3. PICK d \in T : \A k \in T : d <= k
  <2>1. Min(T) \in T /\ \A k \in T : Min(T) <= k
    BY <1>2, SmallestOf
  <2> QED
    BY <2>1
<1>4. PICK x \in S : d = n - x
  BY <1>1
<1>5. \A y \in S : y <= x
  <2> SUFFICES ASSUME NEW y \in S PROVE y <= x
    OBVIOUS
  <2>1. n - x <= n - y /\ x \in 0 .. n /\ y \in 0 .. n
    BY <1>1, <1>3, <1>4
  <2> QED
    BY <2>1
<1>6. S \in SUBSET Nat
  OBVIOUS
<1> QED
  BY <1>5, <1>6, GreatestIs

\* A finite set of numbers has a largest; a smallest set without one would be left with one
\* by taking an element away.
LEMMA LargestOfFinite ==
  ASSUME NEW S \in SUBSET Nat, S # {}, IsFiniteSet(S)
  PROVE  \E x \in S : \A y \in S : y <= x
<1> DEFINE Topped(T) == \E x \in T : \A y \in T : y <= x
<1> DEFINE Sizes == {c \in Nat : \E T \in SUBSET S : T # {} /\ ~Topped(T) /\ Cardinality(T) = c}
<1> SUFFICES ASSUME ~Topped(S) PROVE FALSE
  OBVIOUS
<1>1. Cardinality(S) \in Sizes
  BY FS_CardinalityType
<1>2. PICK c \in Sizes : \A d \in Sizes : c <= d
  <2>1. Sizes \in SUBSET Nat /\ Sizes # {}
    BY <1>1
  <2> HIDE DEF Sizes
  <2>2. Min(Sizes) \in Sizes /\ \A d \in Sizes : Min(Sizes) <= d
    BY <2>1, SmallestOf
  <2> QED
    BY <2>2
<1>3. PICK T \in SUBSET S : T # {} /\ ~Topped(T) /\ Cardinality(T) = c
  BY <1>2
<1>4. IsFiniteSet(T) /\ c \in Nat
  BY <1>2, FS_Subset
<1>5. PICK x \in T : x \in Nat
  BY <1>3
<1>6. PICK R : R = T \ {x}
  OBVIOUS
<1>7. IsFiniteSet(R) /\ Cardinality(R) = c - 1 /\ R \in SUBSET S
  BY <1>3, <1>4, <1>5, <1>6, FS_RemoveElement
<1>8. Cardinality(R) \in Nat
  BY <1>7, FS_CardinalityType
<1>9. R # {}
  <2> SUFFICES ASSUME R = {} PROVE FALSE
    OBVIOUS
  <2>1. T = {x}
    BY <1>5, <1>6
  <2>2. \A y \in T : y <= x
    BY <1>5, <2>1
  <2> QED
    BY <1>3, <1>5, <2>2
<1>10. Topped(R)
  <2> SUFFICES ASSUME ~Topped(R) PROVE FALSE
    OBVIOUS
  <2>1. c - 1 \in Sizes
    BY <1>7, <1>8, <1>9
  <2> QED
    BY <1>2, <1>4, <2>1
<1>11. PICK m \in R : \A y \in R : y <= m
  BY <1>10
<1>12. PICK top \in T : m <= top /\ x <= top
  <2>1. m \in T /\ m \in Nat
    BY <1>3, <1>6, <1>11
  <2>2. m <= x \/ x <= m
    BY <1>5, <2>1
  <2> QED
    BY <1>5, <2>1, <2>2
<1>13. \A y \in T : y <= top
  <2> SUFFICES ASSUME NEW y \in T PROVE y <= top
    OBVIOUS
  <2>1. y \in Nat /\ top \in Nat /\ m \in Nat
    BY <1>6, <1>11
  <2>2. CASE y = x
    BY <1>12, <2>2
  <2>3. CASE y # x
    BY <1>6, <1>11, <1>12, <2>1, <2>3
  <2> QED
    BY <2>2, <2>3
<1> QED
  BY <1>3, <1>13

-----------------------------------------------------------------------------
(* The amounts of a stake.                                                  *)

\* v rounded to whole units of size m, an even number, is at most half a unit off.
Rounds(v, m, r) == r \in Nat /\ m * r <= v + m \div 2 /\ v + m \div 2 < m * r + m

LEMMA MicroIsEven == Micro \in Nat \ {0} /\ Micro = 2 * (Micro \div 2) /\ Micro \div 2 \in Nat \ {0}
<1>1. PICK s \in Nat \ {0} : s = Steps
  BY RoundingAssumption
<1>2. Micro = s * 1000000
  BY <1>1 DEF Micro
<1>3. Micro = 2 * (s * 500000) /\ s * 500000 \in Nat \ {0}
  BY <1>2
<1>4. PICK h \in Nat \ {0} : h = s * 500000
  BY <1>3
<1>5. Micro = 2 * h
  BY <1>3, <1>4
<1> QED
  BY <1>5

LEMMA QuotientOf ==
  ASSUME NEW v \in Nat, NEW m \in Nat \ {0}
  PROVE  v \div m \in Nat /\ m * (v \div m) <= v /\ v < m * (v \div m) + m
  OBVIOUS

LEMMA RoundedFits == ASSUME NEW v \in Nat PROVE Rounds(v, Micro, toScaledU64(v))
<1>1. PICK m \in Nat \ {0} : m = Micro
  BY MicroIsEven
<1>2. m \div 2 \in Nat
  OBVIOUS
<1>3. PICK w \in Nat : w = v + m \div 2
  BY <1>2
<1> QED
  BY <1>1, <1>3, QuotientOf DEF Rounds, toScaledU64

\* A multiple less than two units is one unit at most.
LEMMA FewUnits ==
  ASSUME NEW m \in Nat \ {0}, NEW k \in Int, m * k < 2 * m
  PROVE  k <= 1
<1> SUFFICES ASSUME k >= 2 PROVE FALSE
  OBVIOUS
<1>1. PICK d \in Nat : k = 2 + d
  BY k - 2 \in Nat
<1>2. m * k = 2 * m + m * d /\ m * d \in Nat
  BY <1>1
<1> QED
  BY <1>2

\* Two amounts and their sum, each rounded, miss each other by one unit at most.
LEMMA RoundedSum ==
  ASSUME NEW m \in Nat \ {0}, m = 2 * (m \div 2), NEW v \in Nat, NEW w \in Nat,
         NEW p, NEW q, NEW r, Rounds(v, m, p), Rounds(w, m, q), Rounds(v + w, m, r)
  PROVE  p + q - r <= 1 /\ r - (p + q) <= 1
<1>1. PICK h \in Nat : h = m \div 2
  OBVIOUS
<1>2. m = 2 * h
  BY <1>1
<1>3. p \in Nat /\ q \in Nat /\ r \in Nat
  BY DEF Rounds
<1>4. PICK x \in Nat, y \in Nat, z \in Nat : x = m * p /\ y = m * q /\ z = m * r
  BY <1>3
<1>5. /\ x <= v + h /\ v + h < x + m /\ y <= w + h /\ w + h < y + m
      /\ z <= v + w + h /\ v + w + h < z + m
  BY <1>1, <1>4 DEF Rounds
<1>6. m * (p + q - r) = x + y - z /\ m * (r - (p + q)) = z - (x + y)
  BY <1>3, <1>4
<1>7. x + y - z < 2 * m /\ z - (x + y) < 2 * m
  BY <1>2, <1>5
<1>8. p + q - r \in Int /\ r - (p + q) \in Int
  BY <1>3
<1> QED
  BY <1>6, <1>7, <1>8, FewUnits

\* The larger of two numbers.
LEMMA MaxOfTwo ==
  ASSUME NEW a \in Int, NEW b \in Int
  PROVE  Max({a, b}) = IF a < b THEN b ELSE a
<1>1. PICK c \in Int : c = IF a < b THEN b ELSE a
  OBVIOUS
<1>2. c \in {a, b} /\ \A y \in {a, b} : c >= y
  BY <1>1
<1>3. \A x \in {a, b} : (\A y \in {a, b} : x >= y) => x = c
  BY <1>1
<1>4. Max({a, b}) = c
  BY <1>2, <1>3 DEF Max
<1> QED
  BY <1>1, <1>4

LEMMA ApartIs ==
  ASSUME NEW a \in Int, NEW b \in Int
  PROVE  Apart(a, b) \in Nat /\ Apart(a, b) = IF a < b THEN b - a ELSE a - b
<1>1. a - b \in Int /\ b - a \in Int
  OBVIOUS
<1>2. Apart(a, b) = IF a - b < b - a THEN b - a ELSE a - b
  BY <1>1, MaxOfTwo DEF Apart
<1> QED
  BY <1>2

LEMMA AmountsAssumed == Principals \subseteq Nat /\ Aprs \subseteq Nat
<1>1. Principals \subseteq Nat
  BY RoundingAssumption
<1>2. Aprs \subseteq Nat
  BY RoundingAssumption
<1> QED
  BY <1>1, <1>2

\* What a stake and a claim are made of.
LEMMA QuoteAmounts ==
  ASSUME quote \in [principal : Principals, apr : Aprs]
  PROVE  /\ PrincipalRa(quote) \in Nat /\ RewardRa(quote) \in Nat
         /\ FinalRaPayout(quote) = PrincipalRa(quote) + RewardRa(quote)
<1>1. PICK p \in Nat, a \in Nat : p = quote.principal /\ a = quote.apr
  <2>1. quote.principal \in Principals /\ quote.apr \in Aprs
    OBVIOUS
  <2>2. Principals \subseteq Nat /\ Aprs \subseteq Nat
    BY AmountsAssumed
  <2> QED
    BY <2>1, <2>2
<1>2. p * 100 * 10000 \in Nat /\ p * a \in Nat
  OBVIOUS
<1>3. p * a * 10000 \in Nat
  BY <1>2
<1> QED
  BY <1>1, <1>2, <1>3 DEF PrincipalRa, RewardRa, FinalRaPayout

LEMMA FeeIsWithin ==
  ASSUME NEW gross \in Nat, NEW bps \in FeeRates
  PROVE  /\ ClaimFeeRa(gross, bps) \in Nat /\ ClaimFeeRa(gross, bps) <= gross
         /\ Max({0, gross - ClaimFeeRa(gross, bps)}) = gross - ClaimFeeRa(gross, bps)
<1>1. bps \in Nat /\ bps <= 10000
  <2>1. FeeRates \subseteq 0 .. 10000
    BY RoundingAssumption
  <2>2. bps \in 0 .. 10000
    BY <2>1
  <2> QED
    BY <2>2
<1>2. PICK part1 \in Nat : part1 = gross \div 10000
  OBVIOUS
<1>3. part1 * 10000 <= gross
  BY <1>2
<1>4. PICK rest \in Nat : rest = 10000 - bps
  BY <1>1
<1>5. part1 * 10000 = part1 * bps + part1 * rest /\ part1 * bps \in Nat /\ part1 * rest \in Nat
  BY <1>1, <1>4
<1>6. ClaimFeeRa(gross, bps) = part1 * bps
  BY <1>2 DEF ClaimFeeRa
<1>7. ClaimFeeRa(gross, bps) \in Nat /\ ClaimFeeRa(gross, bps) <= gross
  BY <1>3, <1>5, <1>6
<1>8. PICK d \in Nat : d = gross - ClaimFeeRa(gross, bps)
  BY <1>7
<1>9. Max({0, d}) = d
  BY MaxOfTwo
<1> QED
  BY <1>7, <1>8, <1>9

LEMMA ClaimAmounts ==
  ASSUME NEW gross \in Nat, NEW bps \in FeeRates
  PROVE  LET d == ClaimArgs(gross, bps)  fee == ClaimFeeRa(gross, bps) IN
         /\ fee \in Nat /\ gross - fee \in Nat
         /\ Rounds(fee, Micro, d.fee) /\ Rounds(gross - fee, Micro, d.net)
         /\ Rounds(gross, Micro, d.gross)
<1>1. PICK fee \in Nat : fee = ClaimFeeRa(gross, bps) /\ fee <= gross
  BY FeeIsWithin
<1>2. PICK net \in Nat : net = gross - fee
  BY <1>1
<1>3. ClaimArgs(gross, bps) = [gross |-> toScaledU64(gross), fee |-> toScaledU64(fee),
                               net |-> toScaledU64(net)]
  BY <1>1, <1>2, FeeIsWithin DEF ClaimArgs
<1> QED
  BY <1>1, <1>2, <1>3, RoundedFits

\* The position is of the quote, and the row says what its fraction was.
PositionInv ==
    /\ chain = "none" => snapshot = NoSnapshot /\ estimate = 0 /\ paid = 0
    /\ chain # "none" => snapshot = CreateArgs(quote) /\ estimate = FinalRaPayout(quote)
PayoutInv == PayoutTypeOK /\ PositionInv /\ (snapshot.final \in Nat)

LEMMA InitPayoutInv == PayoutInit => PayoutInv
<1> SUFFICES ASSUME PayoutInit PROVE PayoutInv
  OBVIOUS
<1>1. /\ quote \in [principal : Principals, apr : Aprs] /\ feeBps \in FeeRates
      /\ chain = "none" /\ snapshot = NoSnapshot
      /\ estimate = 0 /\ refused = FALSE /\ paid = 0
  BY DEF PayoutInit
<1>2. snapshot.final = 0 /\ snapshot.principal = 0 /\ snapshot.reward = 0
  BY <1>1 DEF NoSnapshot
<1>3. paid \in 0 .. snapshot.final /\ snapshot.final = snapshot.principal + snapshot.reward
  BY <1>1, <1>2
<1>4. PayoutTypeOK
  BY <1>1, <1>3 DEF PayoutTypeOK
<1> QED
  BY <1>1, <1>2, <1>4 DEF PayoutInv, PositionInv

LEMMA CreateArgsAre ==
  ASSUME quote \in [principal : Principals, apr : Aprs]
  PROVE  LET c == CreateArgs(quote) IN
         /\ Rounds(PrincipalRa(quote), Micro, c.principal) /\ Rounds(RewardRa(quote), Micro, c.reward)
         /\ Rounds(FinalRaPayout(quote), Micro, c.final)
<1>1. PICK p \in Nat, r \in Nat, f \in Nat :
        p = PrincipalRa(quote) /\ r = RewardRa(quote) /\ f = FinalRaPayout(quote)
  BY QuoteAmounts
<1>2. CreateArgs(quote) = [principal |-> toScaledU64(p), reward |-> toScaledU64(r),
                           final |-> toScaledU64(f)]
  BY <1>1 DEF CreateArgs
<1> QED
  BY <1>1, <1>2, RoundedFits

LEMMA CreatePositionStep == PayoutInv /\ CreatePosition => PayoutInv'
<1> SUFFICES ASSUME PayoutInv, CreatePosition PROVE PayoutInv'
  OBVIOUS
<1>1. quote \in [principal : Principals, apr : Aprs]
  BY DEF PayoutInv, PayoutTypeOK
<1>2. PICK a : a = CreateArgs(quote)
  OBVIOUS
<1>3. a.final \in Nat
  BY <1>1, <1>2, CreateArgsAre DEF Rounds
<1>4. FinalRaPayout(quote) \in Nat
  BY <1>1, QuoteAmounts
<1>5. quote' = quote /\ feeBps' = feeBps /\ paid' = paid /\ chain = "none"
  BY DEF CreatePosition
<1>6. CASE ~SnapshotAddsUp(a)
  <2>1. chain' = chain /\ snapshot' = snapshot /\ estimate' = estimate /\ refused' = TRUE
    BY <1>2, <1>6 DEF CreatePosition
  <2> QED
    BY <1>5, <2>1 DEF PayoutInv, PayoutTypeOK, PositionInv, NoSnapshot
<1>7. CASE SnapshotAddsUp(a)
  <2>1. chain' = "open" /\ snapshot' = a /\ estimate' = FinalRaPayout(quote) /\ refused' = FALSE
    BY <1>2, <1>7 DEF CreatePosition
  <2>2. paid = 0
    BY <1>5 DEF PayoutInv, PositionInv
  <2>3. a.final = a.principal + a.reward
    BY <1>7 DEF SnapshotAddsUp
  <2>4. PayoutTypeOK'
    <3>1. paid' \in 0 .. snapshot'.final
      BY <1>3, <1>5, <2>1, <2>2
    <3>2. snapshot'.final = snapshot'.principal + snapshot'.reward
      BY <2>1, <2>3
    <3>3. quote' \in [principal : Principals, apr : Aprs] /\ feeBps' \in FeeRates
      BY <1>5 DEF PayoutInv, PayoutTypeOK
    <3> QED
      BY <1>4, <2>1, <3>1, <3>2, <3>3 DEF PayoutTypeOK
  <2>5. PositionInv'
    <3>1. CreateArgs(quote') = a /\ FinalRaPayout(quote') = FinalRaPayout(quote)
      BY <1>2, <1>5
    <3>2. chain' # "none"
      BY <2>1
    <3> QED
      BY <2>1, <3>1, <3>2, <1>5 DEF PositionInv, CreateArgs, FinalRaPayout, PrincipalRa, RewardRa
  <2> QED
    BY <1>3, <2>1, <2>4, <2>5 DEF PayoutInv
<1> QED
  BY <1>6, <1>7

\* What an accepted claim leaves in the vault is the fee, rounded.
LEMMA ClaimPays ==
  ASSUME PayoutInv, ClaimPosition, chain' = "claimed"
  PROVE  /\ paid' \in 0 .. snapshot.final
         /\ Rounds(ClaimFeeRa(estimate, feeBps), Micro, snapshot.final - paid')
         /\ ClaimFeeRa(estimate, feeBps) \in Nat
<1>1. estimate \in Nat /\ feeBps \in FeeRates /\ snapshot.final \in Nat
  BY DEF PayoutInv, PayoutTypeOK
<1>2. PICK d : d = ClaimArgs(estimate, feeBps)
  OBVIOUS
<1>3. chain = "open" /\ SettlementAddsUp(d, snapshot) /\ paid' = d.net
  BY <1>2 DEF ClaimPosition
<1>4. d.fee + d.net = snapshot.final
  BY <1>3 DEF SettlementAddsUp
<1>5. /\ ClaimFeeRa(estimate, feeBps) \in Nat /\ Rounds(ClaimFeeRa(estimate, feeBps), Micro, d.fee)
      /\ d.net \in Nat
  BY <1>1, <1>2, ClaimAmounts DEF Rounds
<1>6. d.fee \in Nat
  BY <1>5 DEF Rounds
<1>7. snapshot.final - paid' = d.fee
  BY <1>1, <1>3, <1>4, <1>5, <1>6
<1> QED
  BY <1>1, <1>3, <1>4, <1>5, <1>6, <1>7

LEMMA ClaimPositionStep == PayoutInv /\ ClaimPosition => PayoutInv'
<1> SUFFICES ASSUME PayoutInv, ClaimPosition PROVE PayoutInv'
  OBVIOUS
<1>1. /\ quote' = quote /\ feeBps' = feeBps /\ snapshot' = snapshot /\ estimate' = estimate
      /\ chain = "open"
  BY DEF ClaimPosition
<1>2. refused' \in BOOLEAN
  BY DEF ClaimPosition
<1>3. chain' \in {"open", "claimed"} /\ paid' \in 0 .. snapshot.final
  <2>1. CASE chain' = "claimed"
    BY <2>1, ClaimPays
  <2>2. CASE chain' # "claimed"
    <3>1. chain' = chain /\ paid' = paid
      BY <2>2 DEF ClaimPosition
    <3> QED
      BY <1>1, <3>1 DEF PayoutInv, PayoutTypeOK
  <2> QED
    BY <1>1, <2>1, <2>2 DEF ClaimPosition
<1>4. PositionInv'
  BY <1>1, <1>3 DEF PayoutInv, PositionInv, CreateArgs, FinalRaPayout, PrincipalRa, RewardRa
<1> QED
  BY <1>1, <1>2, <1>3, <1>4 DEF PayoutInv, PayoutTypeOK

LEMMA PayoutStep == PayoutInv /\ [PayoutNext]_payoutVars => PayoutInv'
<1> SUFFICES ASSUME PayoutInv, [PayoutNext]_payoutVars PROVE PayoutInv'
  OBVIOUS
<1>1. CASE Requote
  <2>1. /\ quote' \in [principal : Principals, apr : {quote.apr}] /\ chain = "none"
        /\ refused' = FALSE /\ UNCHANGED <<feeBps, chain, snapshot, estimate, paid>>
    BY <1>1 DEF Requote
  <2>2. quote' \in [principal : Principals, apr : Aprs]
    BY <2>1 DEF PayoutInv, PayoutTypeOK
  <2>3. PositionInv'
    BY <2>1 DEF PayoutInv, PositionInv, NoSnapshot
  <2> QED
    BY <2>1, <2>2, <2>3 DEF PayoutInv, PayoutTypeOK
<1>2. CASE CreatePosition
  BY <1>2, CreatePositionStep
<1>3. CASE ClaimPosition
  BY <1>3, ClaimPositionStep
<1>4. CASE SetClaimFee
  <2>1. feeBps' \in FeeRates /\ UNCHANGED <<quote, chain, snapshot, estimate, refused, paid>>
    BY <1>4 DEF SetClaimFee
  <2>2. PositionInv'
    BY <2>1 DEF PayoutInv, PositionInv, NoSnapshot, CreateArgs, FinalRaPayout, PrincipalRa, RewardRa
  <2> QED
    BY <2>1, <2>2 DEF PayoutInv, PayoutTypeOK
<1>5. CASE UNCHANGED payoutVars
  BY <1>5 DEF payoutVars, PayoutInv, PayoutTypeOK, PositionInv, NoSnapshot, CreateArgs,
              FinalRaPayout, PrincipalRa, RewardRa
<1> QED
  BY <1>1, <1>2, <1>3, <1>4, <1>5 DEF PayoutNext

LEMMA PayoutInvariance == PayoutInit /\ [][PayoutNext]_payoutVars => []PayoutInv
  BY InitPayoutInv, PayoutStep, PTL

LEMMA PayoutInvKeeps == PayoutInv => PayoutTypeOK /\ RoundingIsTheOnlyError
<1> SUFFICES ASSUME PayoutInv PROVE RoundingIsTheOnlyError
  BY DEF PayoutInv
<1>1. /\ quote \in [principal : Principals, apr : Aprs] /\ estimate \in Nat /\ feeBps \in FeeRates
  BY DEF PayoutInv, PayoutTypeOK
<1>2. PICK c, d : c = CreateArgs(quote) /\ d = ClaimArgs(estimate, feeBps)
  OBVIOUS
<1>3. PICK m \in Nat \ {0} : m = Micro /\ m = 2 * (m \div 2)
  BY MicroIsEven
<1>4. Apart(c.principal + c.reward, c.final) <= 1
  <2>1. PICK v \in Nat, w \in Nat : v = PrincipalRa(quote) /\ w = RewardRa(quote)
    BY <1>1, QuoteAmounts
  <2>2. v + w = FinalRaPayout(quote)
    BY <1>1, <2>1, QuoteAmounts
  <2>3. Rounds(v, m, c.principal) /\ Rounds(w, m, c.reward) /\ Rounds(v + w, m, c.final)
    BY <1>1, <1>2, <1>3, <2>1, <2>2, CreateArgsAre
  <2>4. c.principal + c.reward - c.final <= 1 /\ c.final - (c.principal + c.reward) <= 1
    BY <1>3, <2>3, RoundedSum
  <2>5. c.principal \in Nat /\ c.reward \in Nat /\ c.final \in Nat
    BY <2>3 DEF Rounds
  <2>6. PICK x \in Nat, y \in Nat : x = c.principal + c.reward /\ y = c.final
    BY <2>5
  <2>7. x - y <= 1 /\ y - x <= 1
    BY <2>4, <2>5, <2>6
  <2>8. Apart(x, y) = IF x < y THEN y - x ELSE x - y
    BY ApartIs
  <2> QED
    BY <2>6, <2>7, <2>8
<1>5. Apart(d.fee + d.net, d.gross) <= 1
  <2>1. PICK v \in Nat, w \in Nat :
          v = ClaimFeeRa(estimate, feeBps) /\ w = estimate - ClaimFeeRa(estimate, feeBps)
    BY <1>1, ClaimAmounts
  <2>2. v + w = estimate
    BY <1>1, <2>1
  <2>3. Rounds(v, m, d.fee) /\ Rounds(w, m, d.net) /\ Rounds(v + w, m, d.gross)
    BY <1>1, <1>2, <1>3, <2>1, <2>2, ClaimAmounts
  <2>4. d.fee + d.net - d.gross <= 1 /\ d.gross - (d.fee + d.net) <= 1
    BY <1>3, <2>3, RoundedSum
  <2>5. d.fee \in Nat /\ d.net \in Nat /\ d.gross \in Nat
    BY <2>3 DEF Rounds
  <2>6. PICK x \in Nat, y \in Nat : x = d.fee + d.net /\ y = d.gross
    BY <2>5
  <2>7. x - y <= 1 /\ y - x <= 1
    BY <2>4, <2>5, <2>6
  <2>8. Apart(x, y) = IF x < y THEN y - x ELSE x - y
    BY ApartIs
  <2> QED
    BY <2>6, <2>7, <2>8
<1>6. chain = "open" => d.gross = snapshot.final
  <2> SUFFICES ASSUME chain = "open" PROVE d.gross = snapshot.final
    OBVIOUS
  <2>1. snapshot = CreateArgs(quote) /\ estimate = FinalRaPayout(quote)
    BY DEF PayoutInv, PositionInv
  <2> QED
    BY <1>2, <2>1 DEF CreateArgs, ClaimArgs
<1> QED
  BY <1>2, <1>4, <1>5, <1>6 DEF RoundingIsTheOnlyError

\* A claim that was accepted paid what the position locked less the rounded fee.
PaysRight ==
    chain = "open" /\ chain' = "claimed" =>
        2 * Apart((snapshot.final - paid') * Micro, ClaimFeeRa(estimate, feeBps)) <= Micro
LEMMA PaysRightStep == PayoutInv /\ [PayoutNext]_payoutVars => PaysRight
<1> SUFFICES ASSUME PayoutInv, [PayoutNext]_payoutVars, chain = "open", chain' = "claimed"
             PROVE  2 * Apart((snapshot.final - paid') * Micro, ClaimFeeRa(estimate, feeBps)) <= Micro
  BY DEF PaysRight
<1>1. ClaimPosition
  BY DEF PayoutNext, Requote, CreatePosition, SetClaimFee, payoutVars
<1>2. PICK m \in Nat \ {0}, h \in Nat : m = Micro /\ m = 2 * h /\ h = m \div 2
  BY MicroIsEven
<1>3. PICK fee \in Nat : fee = ClaimFeeRa(estimate, feeBps)
  BY <1>1, ClaimPays
<1>4. PICK r \in Nat : r = snapshot.final - paid' /\ Rounds(fee, m, r)
  BY <1>1, <1>2, <1>3, ClaimPays DEF Rounds
<1>5. PICK x \in Nat : x = m * r
  OBVIOUS
<1>6. x <= fee + h /\ fee + h < x + m
  BY <1>2, <1>4, <1>5 DEF Rounds
<1>7. r * m = x
  BY <1>5
<1>8. 2 * Apart(x, fee) <= m
  <2>1. Apart(x, fee) = IF x < fee THEN fee - x ELSE x - fee
    BY ApartIs
  <2> QED
    BY <1>2, <1>6, <2>1
<1> QED
  BY <1>2, <1>3, <1>4, <1>7, <1>8

LEMMA PaysRightAlways == PayoutInit /\ [][PayoutNext]_payoutVars => PaysTheRoundedShare
<1>1. PayoutInv /\ [PayoutNext]_payoutVars => [PaysRight]_payoutVars
  BY PaysRightStep
<1> QED
  BY <1>1, PayoutInvariance, PTL DEF PaysTheRoundedShare, PaysRight

-----------------------------------------------------------------------------
(* Live prices.                                                             *)

\* A fetch is of one mint, and the one others find is of theirs.
FlightsInv ==
    /\ \A f \in Flights : flights[f].of = {} \/ \E m \in Mints : flights[f].of = {m}
    /\ \A m \in Mints, f \in Flights : flightOf[m] = f => flights[f].of = {m}
\* What a fetch was answered is no older than what is kept.
AnswersAreNew ==
    ~discarded => \A f \in Flights, m \in Mints :
                     m \in flights[f].of /\ flights[f].answered => priceCache[m].at <= flights[f].at
\* A list waits for fetches under way, one for each of its workers at most.
WaitsInv ==
    \A j \in Lists : /\ IsFiniteSet(list[j].waits) /\ Cardinality(list[j].waits) <= list[j].workers
                     /\ \A f \in list[j].waits : flights[f].of # {}
LiveInv ==
    LivePricesTypeOK /\ FlightsInv /\ OneFetchPerMint /\ AnswersAreNew /\ WaitsInv

\* The shape of the variables, by what they are about.
LiveSettings ==
    /\ livePriceEnabled \in BOOLEAN /\ maxParallel \in Widths /\ discarded \in BOOLEAN
    /\ tweaks \in 0 .. MaxTweaks /\ tide \in 1 .. MaxTides + 1
KeptPrices == priceCache \in [Mints -> [at : 0 .. tide, fresh : BOOLEAN]]
FlightRows ==
    /\ flightOf \in [Mints -> Flights \cup {NoFlight}]
    /\ flights \in [Flights -> [of : SUBSET Mints, answered : BOOLEAN, at : 0 .. tide]]
ListRows ==
    list \in [Lists -> [kind : {"none", "list", "sync"}, todo : SUBSET Mints,
                        waits : SUBSET Flights, workers : Nat]]
LEMMA LiveTypes ==
  LivePricesTypeOK <=> LiveSettings /\ KeptPrices /\ FlightRows /\ ListRows
  BY DEF LivePricesTypeOK, LiveSettings, KeptPrices, FlightRows, ListRows

LEMMA MintsFinite ==
  /\ Cardinality(Mints) \in Nat /\ Widths \subseteq Nat
  /\ MaxTides \in Nat /\ MaxTweaks \in Nat
  BY PricesAssumption, FS_CardinalityType

LEMMA InitLiveInv == LivePricesInit => LiveInv
<1> SUFFICES ASSUME LivePricesInit PROVE LiveInv
  OBVIOUS
<1>1. LiveSettings
  <2>1. tide = 1 /\ tweaks = 0 /\ maxParallel \in Widths /\ livePriceEnabled = TRUE /\ discarded = FALSE
    BY DEF LivePricesInit
  <2>2. tweaks \in 0 .. MaxTweaks /\ tide \in 1 .. MaxTides + 1
    BY <2>1, MintsFinite
  <2> QED
    BY <2>1, <2>2 DEF LiveSettings
<1>2. KeptPrices
  <2>1. NoPrice \in [at : 0 .. tide, fresh : BOOLEAN]
    BY DEF LivePricesInit, NoPrice
  <2> QED
    BY <2>1 DEF LivePricesInit, KeptPrices
<1>3. FlightRows
  <2>1. Landed \in [of : SUBSET Mints, answered : BOOLEAN, at : 0 .. tide]
    BY DEF LivePricesInit, Landed
  <2> QED
    BY <2>1 DEF LivePricesInit, FlightRows
<1>4. ListRows
  <2>1. NoList \in [kind : {"none", "list", "sync"}, todo : SUBSET Mints,
                    waits : SUBSET Flights, workers : Nat]
    BY DEF NoList
  <2> QED
    BY <2>1 DEF LivePricesInit, ListRows
<1>5. \A f \in Flights : flights[f].of = {}
  BY DEF LivePricesInit, Landed
<1>6. \A m \in Mints : flightOf[m] \notin Flights
  BY PricesAssumption DEF LivePricesInit
<1>7. WaitsInv
  <2>1. \A j \in Lists : list[j].waits = {} /\ list[j].workers = 0
    BY DEF LivePricesInit, NoList
  <2> QED
    BY <2>1, FS_EmptySet DEF WaitsInv
<1> QED
  BY <1>1, <1>2, <1>3, <1>4, <1>5, <1>6, <1>7, LiveTypes
  DEF LiveInv, FlightsInv, OneFetchPerMint, AnswersAreNew

\* Steps of the source, the settings and the clock.
LEMMA TideTurnsStep == LiveInv /\ TideTurns => LiveInv'
<1> SUFFICES ASSUME LiveInv, TideTurns PROVE LiveInv'
  OBVIOUS
<1>1. /\ tide' = tide + 1 /\ tide <= MaxTides /\ UNCHANGED <<priceCache, flightOf, flights, list>>
      /\ UNCHANGED <<livePriceEnabled, maxParallel, tweaks, discarded>>
  BY DEF TideTurns, priceSettings
<1>2. LiveSettings /\ KeptPrices /\ FlightRows /\ ListRows
  BY LiveTypes DEF LiveInv
<1>3. LiveSettings'
  BY <1>1, <1>2, PricesAssumption DEF LiveSettings
<1>4. 0 .. tide \subseteq 0 .. tide'
  BY <1>1, <1>2, PricesAssumption DEF LiveSettings
<1>5. KeptPrices' /\ FlightRows' /\ ListRows'
  BY <1>1, <1>2, <1>4 DEF KeptPrices, FlightRows, ListRows
<1>6. LivePricesTypeOK'
  BY <1>3, <1>5, LiveTypes DEF LiveSettings, KeptPrices, FlightRows, ListRows, LivePricesTypeOK
<1> QED
  BY <1>1, <1>6 DEF LiveInv, FlightsInv, OneFetchPerMint, AnswersAreNew, WaitsInv

LEMMA TypesAfter ==
  LiveSettings' /\ KeptPrices' /\ FlightRows' /\ ListRows' => LivePricesTypeOK'
  BY DEF LivePricesTypeOK, LiveSettings, KeptPrices, FlightRows, ListRows

LEMMA TurnOffStep == LiveInv /\ TurnOff => LiveInv'
<1> SUFFICES ASSUME LiveInv, TurnOff PROVE LiveInv'
  OBVIOUS
<1>1. /\ tweaks' = tweaks + 1 /\ tweaks < MaxTweaks /\ livePriceEnabled' = FALSE
      /\ discarded' = (discarded \/ \E m \in Mints : flightOf[m] # NoFlight)
      /\ flightOf' = [m \in Mints |-> NoFlight]
      /\ UNCHANGED <<tide, maxParallel, priceCache, flights, list>>
  BY DEF TurnOff
<1>2. LiveSettings /\ KeptPrices /\ FlightRows /\ ListRows
  BY LiveTypes DEF LiveInv
<1>3. LiveSettings'
  <2>1. discarded' \in BOOLEAN /\ livePriceEnabled' \in BOOLEAN
    BY <1>1, <1>2 DEF LiveSettings
  <2>2. tweaks' \in 0 .. MaxTweaks
    BY <1>1, <1>2, MintsFinite DEF LiveSettings
  <2> QED
    BY <1>1, <1>2, <2>1, <2>2 DEF LiveSettings
<1>4. KeptPrices' /\ FlightRows' /\ ListRows'
  BY <1>1, <1>2 DEF KeptPrices, FlightRows, ListRows
<1>5. LivePricesTypeOK'
  BY <1>3, <1>4, TypesAfter
<1>6. FlightsInv' /\ WaitsInv'
  BY <1>1, PricesAssumption DEF LiveInv, FlightsInv, WaitsInv
<1>7. OneFetchPerMint' /\ AnswersAreNew'
  <2> SUFFICES ASSUME ~discarded' PROVE OneFetchPerMint' /\ AnswersAreNew'
    BY DEF OneFetchPerMint, AnswersAreNew
  <2>1. ~discarded /\ \A m \in Mints : flightOf[m] = NoFlight
    BY <1>1
  <2>2. \A f \in Flights, m \in Mints : m \notin flights[f].of
    BY <2>1, PricesAssumption DEF LiveInv, OneFetchPerMint
  <2> QED
    BY <1>1, <2>2 DEF OneFetchPerMint, AnswersAreNew
<1> QED
  BY <1>5, <1>6, <1>7 DEF LiveInv

LEMMA RetuneStep == LiveInv /\ Retune => LiveInv'
<1> SUFFICES ASSUME LiveInv, Retune PROVE LiveInv'
  OBVIOUS
<1>1. /\ tweaks' = tweaks + 1 /\ tweaks < MaxTweaks
      /\ UNCHANGED <<tide, discarded, flightOf, flights, list>>
  BY DEF Retune
<1>2. LiveSettings /\ KeptPrices /\ FlightRows /\ ListRows
  BY LiveTypes DEF LiveInv
<1>3. /\ livePriceEnabled' \in BOOLEAN /\ maxParallel' \in Widths
  BY <1>2 DEF Retune, LiveSettings
<1>4. LiveSettings' /\ FlightRows' /\ ListRows'
  BY <1>1, <1>2, <1>3, PricesAssumption DEF LiveSettings, FlightRows, ListRows
<1>5. priceCache' = priceCache \/ priceCache' = [m \in Mints |-> NoPrice]
  BY DEF Retune
<1>6. KeptPrices' /\ \A m \in Mints : priceCache'[m].at \in {0, priceCache[m].at}
  <2>1. CASE priceCache' = priceCache
    BY <1>1, <1>2, <2>1 DEF KeptPrices
  <2>2. CASE priceCache' = [m \in Mints |-> NoPrice]
    <3>1. NoPrice \in [at : 0 .. tide, fresh : BOOLEAN]
      BY <1>2 DEF LiveSettings, NoPrice
    <3> QED
      BY <1>1, <2>2, <3>1 DEF KeptPrices, NoPrice
  <2> QED
    BY <1>5, <2>1, <2>2
<1>7. AnswersAreNew'
  <2> SUFFICES ASSUME ~discarded, NEW f \in Flights, NEW m \in Mints, m \in flights[f].of,
                      flights[f].answered
               PROVE  priceCache'[m].at <= flights[f].at
    BY <1>1 DEF AnswersAreNew
  <2>1. priceCache[m].at <= flights[f].at /\ flights[f].at \in Nat /\ priceCache[m].at \in Nat
    BY <1>2 DEF LiveInv, AnswersAreNew, FlightRows, KeptPrices
  <2> QED
    BY <1>6, <2>1
<1> QED
  BY <1>1, <1>4, <1>6, <1>7, TypesAfter DEF LiveInv, FlightsInv, OneFetchPerMint, WaitsInv

LEMMA PriceExpiresStep == ASSUME NEW m \in Mints PROVE LiveInv /\ PriceExpires(m) => LiveInv'
<1> SUFFICES ASSUME LiveInv, PriceExpires(m) PROVE LiveInv'
  OBVIOUS
<1>1. /\ priceCache' = [priceCache EXCEPT ![m].fresh = FALSE]
      /\ UNCHANGED <<tide, livePriceEnabled, maxParallel, tweaks, discarded, flightOf, flights, list>>
  BY DEF PriceExpires, priceSettings
<1>2. LiveSettings /\ KeptPrices /\ FlightRows /\ ListRows
  BY LiveTypes DEF LiveInv
<1>3. KeptPrices' /\ \A x \in Mints : priceCache'[x].at = priceCache[x].at
  BY <1>1, <1>2 DEF KeptPrices
<1>4. LiveSettings' /\ FlightRows' /\ ListRows'
  BY <1>1, <1>2 DEF LiveSettings, FlightRows, ListRows
<1>5. AnswersAreNew'
  BY <1>1, <1>3 DEF LiveInv, AnswersAreNew
<1> QED
  BY <1>1, <1>3, <1>4, <1>5, TypesAfter DEF LiveInv, FlightsInv, OneFetchPerMint, WaitsInv

\* Steps of a list.
\* Nothing but the list changes.
OnlyLists ==
    UNCHANGED <<tide, livePriceEnabled, maxParallel, tweaks, discarded, priceCache, flightOf, flights>>
LEMMA ListChanges ==
  ASSUME LiveInv, OnlyLists, ListRows', WaitsInv'
  PROVE  LiveInv'
<1>1. LiveSettings /\ KeptPrices /\ FlightRows
  BY LiveTypes DEF LiveInv
<1>2. LiveSettings' /\ KeptPrices' /\ FlightRows'
  BY <1>1 DEF OnlyLists, LiveSettings, KeptPrices, FlightRows
<1> QED
  BY <1>2, TypesAfter DEF LiveInv, OnlyLists, FlightsInv, OneFetchPerMint, AnswersAreNew

LEMMA BeginListStep ==
  ASSUME NEW j \in Lists, NEW kind \in {"list", "sync"}
  PROVE  LiveInv /\ BeginList(j, kind) => LiveInv'
<1> SUFFICES ASSUME LiveInv, BeginList(j, kind) PROVE LiveInv'
  OBVIOUS
<1>1. OnlyLists
  BY DEF BeginList, OnlyLists, priceSettings
<1>2. PICK row : /\ list' = [list EXCEPT ![j] = row]
                 /\ row = [kind |-> kind, todo |-> IF livePriceEnabled THEN Mints ELSE {}, waits |-> {},
                           workers |-> IF maxParallel < Cardinality(Mints) THEN maxParallel
                                                                        ELSE Cardinality(Mints)]
  BY DEF BeginList
<1>3. maxParallel \in Nat /\ Cardinality(Mints) \in Nat /\ ListRows
  BY MintsFinite, LiveTypes DEF LiveInv, LiveSettings
<1>4. row \in [kind : {"none", "list", "sync"}, todo : SUBSET Mints, waits : SUBSET Flights,
               workers : Nat]
  BY <1>2, <1>3
<1>5. ListRows' /\ list'[j] = row /\ \A k \in Lists \ {j} : list'[k] = list[k]
  BY <1>2, <1>3, <1>4 DEF ListRows
<1>6. IsFiniteSet(row.waits) /\ Cardinality(row.waits) <= row.workers
  BY <1>2, <1>4, FS_EmptySet
<1>7. WaitsInv'
  <2> SUFFICES ASSUME NEW k \in Lists
               PROVE  /\ IsFiniteSet(list'[k].waits) /\ Cardinality(list'[k].waits) <= list'[k].workers
                      /\ \A f \in list'[k].waits : flights'[f].of # {}
    BY DEF WaitsInv
  <2>1. CASE k = j
    BY <1>2, <1>5, <1>6, <2>1
  <2>2. CASE k # j
    BY <1>1, <1>5, <2>2 DEF LiveInv, WaitsInv, OnlyLists
  <2> QED
    BY <2>1, <2>2
<1> QED
  BY <1>1, <1>5, <1>7, ListChanges

LEMMA TakeKeptStep ==
  ASSUME NEW j \in Lists, NEW m \in Mints
  PROVE  LiveInv /\ TakeKept(j, m) => LiveInv'
<1> SUFFICES ASSUME LiveInv, TakeKept(j, m) PROVE LiveInv'
  OBVIOUS
<1>1. OnlyLists /\ list' = [list EXCEPT ![j].todo = @ \ {m}]
  BY DEF TakeKept, OnlyLists, priceSettings
<1>2. ListRows
  BY LiveTypes DEF LiveInv
<1>3. /\ ListRows'
      /\ \A k \in Lists : list'[k].waits = list[k].waits /\ list'[k].workers = list[k].workers
  BY <1>1, <1>2 DEF ListRows
<1>4. WaitsInv'
  BY <1>1, <1>3 DEF LiveInv, WaitsInv, OnlyLists
<1> QED
  BY <1>1, <1>3, <1>4, ListChanges

\* A worker that was free waits for one fetch more.
LEMMA OneWaitMore ==
  ASSUME NEW j \in Lists, NEW m \in Mints, NEW f \in Flights, LiveInv, Takes(j, m),
         list' = [list EXCEPT ![j].todo = @ \ {m}, ![j].waits = @ \cup {f}],
         flights'[f].of # {},
         \A g \in Flights : flights[g].of # {} => flights'[g].of # {}
  PROVE  ListRows' /\ WaitsInv'
<1>1. ListRows
  BY LiveTypes DEF LiveInv
<1>2. PICK w : w = list[j].waits
  OBVIOUS
<1>3. /\ w \subseteq Flights /\ IsFiniteSet(w) /\ Cardinality(w) < list[j].workers
      /\ list[j].workers \in Nat /\ \A g \in w : flights[g].of # {}
  BY <1>1, <1>2 DEF LiveInv, WaitsInv, Takes, ListRows
<1>4. Cardinality(w) \in Nat
  BY <1>3, FS_CardinalityType
<1>5. PICK v : v = w \cup {f}
  OBVIOUS
<1>6. IsFiniteSet(v) /\ Cardinality(v) <= list[j].workers
  <2>1. Cardinality(v) = (IF f \in w THEN Cardinality(w) ELSE Cardinality(w) + 1) /\ IsFiniteSet(v)
    BY <1>3, <1>5, FS_AddElement
  <2> QED
    BY <1>3, <1>4, <2>1
<1>7. /\ ListRows'
      /\ list'[j].waits = v /\ list'[j].workers = list[j].workers
      /\ \A k \in Lists \ {j} : list'[k] = list[k]
  BY <1>1, <1>2, <1>5 DEF ListRows
<1>8. WaitsInv'
  <2> SUFFICES ASSUME NEW k \in Lists
               PROVE  /\ IsFiniteSet(list'[k].waits) /\ Cardinality(list'[k].waits) <= list'[k].workers
                      /\ \A g \in list'[k].waits : flights'[g].of # {}
    BY DEF WaitsInv
  <2>1. CASE k = j
    <3>1. \A g \in v : flights'[g].of # {}
      BY <1>3, <1>5
    <3> QED
      BY <1>6, <1>7, <2>1, <3>1
  <2>2. CASE k # j
    <3>1. list'[k] = list[k] /\ list[k].waits \subseteq Flights
      BY <1>1, <1>7, <2>2 DEF ListRows
    <3> QED
      BY <3>1 DEF LiveInv, WaitsInv
  <2> QED
    BY <2>1, <2>2
<1> QED
  BY <1>7, <1>8

LEMMA TakeJoinedStep ==
  ASSUME NEW j \in Lists, NEW m \in Mints
  PROVE  LiveInv /\ TakeJoined(j, m) => LiveInv'
<1> SUFFICES ASSUME LiveInv, TakeJoined(j, m) PROVE LiveInv'
  OBVIOUS
<1>1. /\ OnlyLists /\ Takes(j, m) /\ flightOf[m] # NoFlight
      /\ list' = [list EXCEPT ![j].todo = @ \ {m}, ![j].waits = @ \cup {flightOf[m]}]
  BY DEF TakeJoined, OnlyLists, priceSettings, Joins
<1>2. FlightRows
  BY LiveTypes DEF LiveInv
<1>3. PICK f \in Flights : f = flightOf[m]
  BY <1>1, <1>2 DEF FlightRows
<1>4. flights[f].of = {m}
  BY <1>3 DEF LiveInv, FlightsInv
<1>5. flights' = flights
  BY <1>1 DEF OnlyLists
<1>6. ListRows' /\ WaitsInv'
  <2>1. list' = [list EXCEPT ![j].todo = @ \ {m}, ![j].waits = @ \cup {f}]
    BY <1>1, <1>3
  <2> QED
    BY <1>1, <1>4, <1>5, <2>1, OneWaitMore
<1> QED
  BY <1>1, <1>6, ListChanges

LEMMA TakeFetchedStep ==
  ASSUME NEW j \in Lists, NEW m \in Mints
  PROVE  LiveInv /\ TakeFetched(j, m) => LiveInv'
<1> SUFFICES ASSUME LiveInv, TakeFetched(j, m) PROVE LiveInv'
  OBVIOUS
<1>1. /\ UNCHANGED <<tide, livePriceEnabled, maxParallel, tweaks, discarded, priceCache>>
      /\ Takes(j, m) /\ flightOf[m] = NoFlight
  BY DEF TakeFetched, priceSettings, Joins
<1>2. LiveSettings /\ KeptPrices /\ FlightRows /\ ListRows
  BY LiveTypes DEF LiveInv
<1>3. PICK f \in Flights :
        /\ flights[f].of = {}
        /\ flights' = [flights EXCEPT ![f] = [of |-> {m}, answered |-> FALSE, at |-> 0]]
        /\ flightOf' = [flightOf EXCEPT ![m] = f]
        /\ list' = [list EXCEPT ![j].todo = @ \ {m}, ![j].waits = @ \cup {f}]
  BY DEF TakeFetched, Underway
<1>4. [of |-> {m}, answered |-> FALSE, at |-> 0] \in [of : SUBSET Mints, answered : BOOLEAN, at : 0 .. tide]
  BY <1>2 DEF LiveSettings
<1>5. /\ FlightRows' /\ flights'[f].of = {m} /\ flights'[f].answered = FALSE /\ flightOf'[m] = f
      /\ \A g \in Flights \ {f} : flights'[g] = flights[g]
      /\ \A x \in Mints \ {m} : flightOf'[x] = flightOf[x]
  BY <1>1, <1>2, <1>3, <1>4 DEF FlightRows
<1>6. ListRows' /\ WaitsInv'
  <2>1. \A g \in Flights : flights[g].of # {} => flights'[g].of # {}
    BY <1>3, <1>5
  <2> QED
    BY <1>1, <1>3, <1>5, <2>1, OneWaitMore
<1>7. LivePricesTypeOK'
  <2>1. LiveSettings' /\ KeptPrices'
    BY <1>1, <1>2 DEF LiveSettings, KeptPrices
  <2> QED
    BY <1>5, <1>6, <2>1, TypesAfter
<1>8. FlightsInv'
  <2>1. \A x \in Mints, g \in Flights : flightOf'[x] = g => flights'[g].of = {x}
    <3> SUFFICES ASSUME NEW x \in Mints, NEW g \in Flights, flightOf'[x] = g
                 PROVE  flights'[g].of = {x}
      OBVIOUS
    <3>1. CASE x = m
      BY <1>5, <3>1
    <3>2. CASE x # m
      <4>1. flightOf[x] = g /\ flights[g].of = {x}
        BY <1>5, <3>2 DEF LiveInv, FlightsInv
      <4>2. g # f
        BY <1>3, <4>1
      <4> QED
        BY <1>5, <4>1, <4>2
    <3> QED
      BY <3>1, <3>2
  <2>2. \A g \in Flights : flights'[g].of = {} \/ \E x \in Mints : flights'[g].of = {x}
    BY <1>5 DEF LiveInv, FlightsInv
  <2> QED
    BY <2>1, <2>2 DEF FlightsInv
<1>9. OneFetchPerMint' /\ AnswersAreNew'
  <2> SUFFICES ASSUME ~discarded, NEW g \in Flights, NEW x \in Mints, x \in flights'[g].of
               PROVE  /\ flightOf'[x] = g
                      /\ flights'[g].answered => priceCache'[x].at <= flights'[g].at
    BY <1>1 DEF OneFetchPerMint, AnswersAreNew
  <2>1. CASE g = f
    BY <1>5, <2>1
  <2>2. CASE g # f
    <3>1. flights'[g] = flights[g] /\ flightOf[x] = g
      BY <1>5, <2>2 DEF LiveInv, OneFetchPerMint
    <3>2. x # m
      BY <1>1, <3>1, PricesAssumption
    <3> QED
      BY <1>1, <1>5, <3>1, <3>2 DEF LiveInv, AnswersAreNew
  <2> QED
    BY <2>1, <2>2
<1> QED
  BY <1>6, <1>7, <1>8, <1>9 DEF LiveInv

LEMMA ListEndsStep == ASSUME NEW j \in Lists PROVE LiveInv /\ ListEnds(j) => LiveInv'
<1> SUFFICES ASSUME LiveInv, ListEnds(j) PROVE LiveInv'
  OBVIOUS
<1>1. OnlyLists /\ list' = [list EXCEPT ![j] = NoList]
  BY DEF ListEnds, OnlyLists, priceSettings
<1>2. ListRows
  BY LiveTypes DEF LiveInv
<1>3. NoList \in [kind : {"none", "list", "sync"}, todo : SUBSET Mints, waits : SUBSET Flights,
                  workers : Nat]
  BY DEF NoList
<1>4. ListRows' /\ list'[j] = NoList /\ \A k \in Lists \ {j} : list'[k] = list[k]
  BY <1>1, <1>2, <1>3 DEF ListRows
<1>5. IsFiniteSet(NoList.waits) /\ Cardinality(NoList.waits) <= NoList.workers /\ NoList.waits = {}
  BY FS_EmptySet DEF NoList
<1>6. WaitsInv'
  <2> SUFFICES ASSUME NEW k \in Lists
               PROVE  /\ IsFiniteSet(list'[k].waits) /\ Cardinality(list'[k].waits) <= list'[k].workers
                      /\ \A f \in list'[k].waits : flights'[f].of # {}
    BY DEF WaitsInv
  <2>1. CASE k = j
    BY <1>4, <1>5, <2>1
  <2>2. CASE k # j
    BY <1>1, <1>4, <2>2 DEF LiveInv, WaitsInv, OnlyLists
  <2> QED
    BY <2>1, <2>2
<1> QED
  BY <1>1, <1>4, <1>6, ListChanges

\* Steps of a fetch.
LEMMA SourceAnswersStep == ASSUME NEW f \in Flights PROVE LiveInv /\ SourceAnswers(f) => LiveInv'
<1> SUFFICES ASSUME LiveInv, SourceAnswers(f) PROVE LiveInv'
  OBVIOUS
<1>1. /\ UNCHANGED <<tide, livePriceEnabled, maxParallel, tweaks, discarded, priceCache, flightOf, list>>
      /\ flights' = [flights EXCEPT ![f].answered = TRUE, ![f].at = tide]
  BY DEF SourceAnswers, priceSettings
<1>2. LiveSettings /\ KeptPrices /\ FlightRows /\ ListRows
  BY LiveTypes DEF LiveInv
<1>3. tide \in 0 .. tide
  BY <1>2 DEF LiveSettings
<1>4. /\ FlightRows' /\ flights'[f].at = tide
      /\ \A g \in Flights : flights'[g].of = flights[g].of
      /\ \A g \in Flights \ {f} : flights'[g] = flights[g]
  BY <1>1, <1>2, <1>3 DEF FlightRows
<1>5. LivePricesTypeOK'
  <2>1. LiveSettings' /\ KeptPrices' /\ ListRows'
    BY <1>1, <1>2 DEF LiveSettings, KeptPrices, ListRows
  <2> QED
    BY <1>4, <2>1, TypesAfter
<1>6. FlightsInv' /\ OneFetchPerMint'
  <2>1. \A g \in Flights : flights'[g].of = {} \/ \E m \in Mints : flights'[g].of = {m}
    BY <1>4 DEF LiveInv, FlightsInv
  <2>2. \A m \in Mints, g \in Flights : flightOf'[m] = g => flights'[g].of = {m}
    BY <1>1, <1>4 DEF LiveInv, FlightsInv
  <2>3. ~discarded' => \A g \in Flights, m \in Mints : m \in flights'[g].of => flightOf'[m] = g
    BY <1>1, <1>4 DEF LiveInv, OneFetchPerMint
  <2> QED
    BY <2>1, <2>2, <2>3 DEF FlightsInv, OneFetchPerMint
<1>7. WaitsInv'
  <2>1. \A j \in Lists : list[j].waits \subseteq Flights
    BY <1>2 DEF ListRows
  <2> QED
    BY <1>1, <1>4, <2>1 DEF LiveInv, WaitsInv
<1>8. AnswersAreNew'
  <2> SUFFICES ASSUME ~discarded, NEW g \in Flights, NEW m \in Mints, m \in flights'[g].of,
                      flights'[g].answered
               PROVE  priceCache[m].at <= flights'[g].at
    BY <1>1 DEF AnswersAreNew
  <2>1. CASE g = f
    BY <1>2, <1>4, <2>1 DEF KeptPrices
  <2>2. CASE g # f
    BY <1>4, <2>2 DEF LiveInv, AnswersAreNew
  <2> QED
    BY <2>1, <2>2
<1> QED
  BY <1>5, <1>6, <1>7, <1>8 DEF LiveInv

\* What lands is of one mint, whose price it may replace.
LEMMA LandingIs ==
  ASSUME NEW f \in Flights, LiveInv, FlightLands(f)
  PROVE  \E m \in Mints :
           /\ flights[f].of = {m}
           /\ \/ flights[f].answered /\ priceCache' = [priceCache EXCEPT ![m] =
                                           [at |-> flights[f].at, fresh |-> TRUE]]
              \/ ~flights[f].answered /\ priceCache' = priceCache
           /\ discarded' = (discarded \/ flightOf[m] \notin {f, NoFlight})
           /\ flightOf' = [flightOf EXCEPT ![m] = NoFlight]
<1>1. PICK m \in Mints : flights[f].of = {m}
  BY DEF LiveInv, FlightsInv, FlightLands, Underway
<1>2. (CHOOSE x \in Mints : x \in flights[f].of) = m
  BY <1>1
<1> QED
  BY <1>1, <1>2 DEF FlightLands

LEMMA FlightLandsStep == ASSUME NEW f \in Flights PROVE LiveInv /\ FlightLands(f) => LiveInv'
<1> SUFFICES ASSUME LiveInv, FlightLands(f) PROVE LiveInv'
  OBVIOUS
<1>1. PICK m \in Mints :
           /\ flights[f].of = {m}
           /\ \/ flights[f].answered /\ priceCache' = [priceCache EXCEPT ![m] =
                                           [at |-> flights[f].at, fresh |-> TRUE]]
              \/ ~flights[f].answered /\ priceCache' = priceCache
           /\ discarded' = (discarded \/ flightOf[m] \notin {f, NoFlight})
           /\ flightOf' = [flightOf EXCEPT ![m] = NoFlight]
  BY LandingIs
<1>2. /\ flights' = [flights EXCEPT ![f] = Landed]
      /\ list' = [j \in Lists |-> [list[j] EXCEPT !.waits = @ \ {f}]]
      /\ UNCHANGED <<tide, livePriceEnabled, maxParallel, tweaks>>
  BY DEF FlightLands
<1>3. LiveSettings /\ KeptPrices /\ FlightRows /\ ListRows
  BY LiveTypes DEF LiveInv
<1>4. Landed \in [of : SUBSET Mints, answered : BOOLEAN, at : 0 .. tide] /\ Landed.of = {}
  BY <1>3 DEF LiveSettings, Landed
<1>5. /\ FlightRows' /\ flights'[f].of = {} /\ flightOf'[m] = NoFlight
      /\ \A g \in Flights \ {f} : flights'[g] = flights[g]
      /\ \A x \in Mints \ {m} : flightOf'[x] = flightOf[x]
  BY <1>1, <1>2, <1>3, <1>4 DEF FlightRows
<1>6. KeptPrices' /\ \A x \in Mints \ {m} : priceCache'[x] = priceCache[x]
  <2>1. CASE priceCache' = priceCache
    BY <1>2, <1>3, <2>1 DEF KeptPrices
  <2>2. CASE priceCache' = [priceCache EXCEPT ![m] = [at |-> flights[f].at, fresh |-> TRUE]]
    <3>1. [at |-> flights[f].at, fresh |-> TRUE] \in [at : 0 .. tide, fresh : BOOLEAN]
      BY <1>3 DEF FlightRows
    <3> QED
      BY <1>2, <1>3, <2>2, <3>1 DEF KeptPrices
  <2> QED
    BY <1>1, <2>1, <2>2
<1>7. LiveSettings'
  <2>1. discarded' \in BOOLEAN
    BY <1>1
  <2> QED
    BY <1>2, <1>3, <2>1 DEF LiveSettings
<1>8. /\ ListRows'
      /\ \A j \in Lists : list'[j].waits = list[j].waits \ {f} /\ list'[j].workers = list[j].workers
  BY <1>2, <1>3 DEF ListRows
<1>9. WaitsInv'
  <2> SUFFICES ASSUME NEW j \in Lists
               PROVE  /\ IsFiniteSet(list'[j].waits) /\ Cardinality(list'[j].waits) <= list'[j].workers
                      /\ \A g \in list'[j].waits : flights'[g].of # {}
    BY DEF WaitsInv
  <2>1. PICK w, v : w = list[j].waits /\ v = w \ {f}
    OBVIOUS
  <2>2. /\ IsFiniteSet(w) /\ Cardinality(w) <= list[j].workers /\ list[j].workers \in Nat
        /\ w \subseteq Flights /\ \A g \in w : flights[g].of # {}
    BY <1>3, <2>1 DEF LiveInv, WaitsInv, ListRows
  <2>3. v \subseteq w
    BY <2>1
  <2>4. IsFiniteSet(v) /\ Cardinality(v) <= Cardinality(w)
    BY <2>2, <2>3, FS_Subset
  <2>5. Cardinality(v) \in Nat /\ Cardinality(w) \in Nat
    BY <2>2, <2>4, FS_CardinalityType
  <2>6. list'[j].waits = v /\ list'[j].workers = list[j].workers
    BY <1>8, <2>1
  <2>7. \A g \in v : flights'[g].of # {}
    BY <1>5, <2>1, <2>2
  <2> QED
    BY <2>2, <2>4, <2>5, <2>6, <2>7
<1>10. FlightsInv'
  <2>1. \A x \in Mints, g \in Flights : flightOf'[x] = g => flights'[g].of = {x}
    <3> SUFFICES ASSUME NEW x \in Mints, NEW g \in Flights, flightOf'[x] = g
                 PROVE  flights'[g].of = {x}
      OBVIOUS
    <3>1. x # m
      BY <1>5, PricesAssumption
    <3>2. flightOf[x] = g /\ flights[g].of = {x}
      BY <1>5, <3>1 DEF LiveInv, FlightsInv
    <3>3. g # f
      BY <1>1, <3>1, <3>2
    <3> QED
      BY <1>5, <3>2, <3>3
  <2>2. \A g \in Flights : flights'[g].of = {} \/ \E x \in Mints : flights'[g].of = {x}
    BY <1>5 DEF LiveInv, FlightsInv
  <2> QED
    BY <2>1, <2>2 DEF FlightsInv
<1>11. OneFetchPerMint' /\ AnswersAreNew'
  <2> SUFFICES ASSUME ~discarded', NEW g \in Flights, NEW x \in Mints, x \in flights'[g].of
               PROVE  /\ flightOf'[x] = g
                      /\ flights'[g].answered => priceCache'[x].at <= flights'[g].at
    BY DEF OneFetchPerMint, AnswersAreNew
  <2>1. ~discarded /\ flightOf[m] \in {f, NoFlight} /\ g # f
    BY <1>1, <1>5
  <2>2. flights'[g] = flights[g] /\ flightOf[x] = g
    BY <1>5, <2>1 DEF LiveInv, OneFetchPerMint
  <2>3. x # m
    BY <2>1, <2>2, PricesAssumption
  <2> QED
    BY <1>5, <1>6, <2>1, <2>2, <2>3 DEF LiveInv, AnswersAreNew
<1> QED
  BY <1>5, <1>6, <1>7, <1>8, <1>9, <1>10, <1>11, TypesAfter DEF LiveInv

LEMMA LiveStep == LiveInv /\ [LivePricesNext]_livePricesVars => LiveInv'
<1> SUFFICES ASSUME LiveInv, [LivePricesNext]_livePricesVars PROVE LiveInv'
  OBVIOUS
<1>1. CASE UNCHANGED livePricesVars
  BY <1>1 DEF livePricesVars, priceSettings, LiveInv, LivePricesTypeOK, FlightsInv,
              OneFetchPerMint, AnswersAreNew, WaitsInv
<1>2. CASE LivePricesNext
  BY <1>2, TideTurnsStep, TurnOffStep, RetuneStep, PriceExpiresStep, BeginListStep, TakeKeptStep,
     TakeJoinedStep, TakeFetchedStep, ListEndsStep, SourceAnswersStep, FlightLandsStep
  DEF LivePricesNext
<1> QED
  BY <1>1, <1>2

LEMMA LiveInvariance == LivePricesInit /\ [][LivePricesNext]_livePricesVars => []LiveInv
  BY InitLiveInv, LiveStep, PTL

LEMMA LiveInvKeeps == LiveInv => LivePricesTypeOK /\ OneFetchPerMint /\ ListsWaitForFetches
  BY DEF LiveInv, WaitsInv, ListsWaitForFetches, Underway

\* A kept price is dropped, or replaced by one that is no older.
MovesForward ==
    ~discarded' => \A m \in Mints :
        priceCache'[m].at \in {0} \cup {v \in 0 .. tide : v >= priceCache[m].at}
LEMMA MovesForwardStep == LiveInv /\ [LivePricesNext]_livePricesVars => MovesForward
<1> SUFFICES ASSUME LiveInv, [LivePricesNext]_livePricesVars, ~discarded', NEW m \in Mints
             PROVE  priceCache'[m].at \in {0} \cup {v \in 0 .. tide : v >= priceCache[m].at}
  BY DEF MovesForward
<1>1. KeptPrices /\ FlightRows
  BY LiveTypes DEF LiveInv
<1>2. priceCache[m].at \in 0 .. tide
  BY <1>1 DEF KeptPrices
<1>3. CASE priceCache'[m].at = priceCache[m].at
  BY <1>2, <1>3
<1>4. CASE \E f \in Flights : FlightLands(f)
  <2>1. PICK f \in Flights : FlightLands(f)
    BY <1>4
  <2>2. PICK x \in Mints :
           /\ flights[f].of = {x}
           /\ \/ flights[f].answered /\ priceCache' = [priceCache EXCEPT ![x] =
                                           [at |-> flights[f].at, fresh |-> TRUE]]
              \/ ~flights[f].answered /\ priceCache' = priceCache
           /\ discarded' = (discarded \/ flightOf[x] \notin {f, NoFlight})
    BY <2>1, LandingIs
  <2>3. CASE x = m /\ flights[f].answered
    <3>1. priceCache'[m].at = flights[f].at /\ flights[f].at \in 0 .. tide
      BY <1>1, <2>2, <2>3 DEF KeptPrices, FlightRows
    <3>2. priceCache[m].at <= flights[f].at
      BY <2>2, <2>3 DEF LiveInv, AnswersAreNew
    <3> QED
      BY <3>1, <3>2
  <2>4. CASE ~(x = m /\ flights[f].answered)
    <3>1. priceCache'[m].at = priceCache[m].at
      BY <1>1, <2>2, <2>4 DEF KeptPrices
    <3> QED
      BY <1>2, <3>1
  <2> QED
    BY <2>3, <2>4
<1>5. CASE Retune
  <2>1. priceCache' = priceCache \/ priceCache' = [x \in Mints |-> NoPrice]
    BY <1>5 DEF Retune
  <2>2. priceCache'[m].at \in {0, priceCache[m].at}
    BY <2>1 DEF NoPrice
  <2> QED
    BY <1>2, <2>2
<1>6. CASE \E x \in Mints : PriceExpires(x)
  BY <1>1, <1>3, <1>6 DEF PriceExpires, KeptPrices
<1>7. CASE UNCHANGED priceCache
  BY <1>3, <1>7
<1> QED
  <2>1. \/ UNCHANGED priceCache \/ Retune \/ \E x \in Mints : PriceExpires(x)
        \/ \E f \in Flights : FlightLands(f)
    BY DEF LivePricesNext, livePricesVars, TideTurns, TurnOff, BeginList, TakeKept, TakeJoined,
           TakeFetched, ListEnds, SourceAnswers
  <2> QED
    BY <1>4, <1>5, <1>6, <1>7, <2>1

LEMMA PricesForward == LivePricesInit /\ [][LivePricesNext]_livePricesVars => PricesMoveForward
<1>1. LiveInv /\ [LivePricesNext]_livePricesVars => [MovesForward]_livePricesVars
  BY MovesForwardStep
<1> QED
  BY <1>1, LiveInvariance, PTL DEF PricesMoveForward, MovesForward

-----------------------------------------------------------------------------
(* The bars.                                                                *)

\* A time lies in one bucket, the one that begins at most an interval before it.
LEMMA BucketBounds ==
  ASSUME NEW t \in Nat, NEW i \in Nat \ {0}
  PROVE  BucketOf(t, i) \in Nat /\ BucketOf(t, i) <= t /\ t < BucketOf(t, i) + i
  BY DEF BucketOf

LEMMA QuotientIs ==
  ASSUME NEW t \in Nat, NEW i \in Nat \ {0}, NEW n \in Nat, n * i <= t, t < n * i + i
  PROVE  t \div i = n
<1>1. PICK q \in Nat : q = t \div i /\ q * i <= t /\ t < q * i + i
  OBVIOUS
<1>2. CASE q < n
  <2>1. PICK d \in Nat : n = q + 1 + d
    BY <1>2, n - q - 1 \in Nat
  <2>2. n * i = q * i + i + d * i /\ d * i \in Nat
    BY <2>1
  <2> QED
    BY <1>1, <2>2
<1>3. CASE n < q
  <2>1. PICK d \in Nat : q = n + 1 + d
    BY <1>3, q - n - 1 \in Nat
  <2>2. q * i = n * i + i + d * i /\ d * i \in Nat
    BY <2>1
  <2> QED
    BY <1>1, <2>2
<1> QED
  BY <1>1, <1>2, <1>3

LEMMA SameBucket ==
  ASSUME NEW t \in Nat, NEW i \in Nat \ {0}, NEW x \in Nat
  PROVE  BucketOf(x, i) = BucketOf(t, i) <=> BucketOf(t, i) <= x /\ x < BucketOf(t, i) + i
<1>1. PICK n \in Nat : n = t \div i
  OBVIOUS
<1>2. BucketOf(t, i) = n * i
  BY <1>1 DEF BucketOf
<1>3. ASSUME n * i <= x, x < n * i + i PROVE BucketOf(x, i) = n * i
  BY <1>3, QuotientIs DEF BucketOf
<1> QED
  BY <1>2, <1>3, BucketBounds

LEMMA ShortestBuckets == ASSUME NEW t \in Nat PROVE BucketOf(t, 1) = t
  BY BucketBounds, 1 \in Nat \ {0}

\* A bucket lies within a bucket of an interval that is a multiple of its own.
LEMMA BucketsNest ==
  ASSUME NEW t \in Nat, NEW i \in Nat \ {0}, NEW n \in Nat \ {0}
  PROVE  BucketOf(BucketOf(t, i), n * i) = BucketOf(t, n * i)
<1>1. PICK long \in Nat \ {0} : long = n * i
  <2>1. PICK d \in Nat : n = 1 + d
    BY n - 1 \in Nat
  <2>2. n * i = i + d * i /\ d * i \in Nat
    BY <2>1
  <2> QED
    BY <2>2
<1>2. PICK m \in Nat : m = t \div long
  OBVIOUS
<1>3. PICK b \in Nat : b = BucketOf(t, long) /\ b <= t /\ t < b + long
  BY BucketBounds
<1>4. b = m * long
  BY <1>2, <1>3 DEF BucketOf
<1>5. PICK k \in Nat : k = m * n
  OBVIOUS
<1>6. b = k * i
  BY <1>1, <1>4, <1>5
<1>7. PICK p \in Nat : p = t \div i
  OBVIOUS
<1>8. PICK u \in Nat : u = BucketOf(t, i) /\ u <= t /\ t < u + i
  BY BucketBounds
<1>9. u = p * i
  BY <1>7, <1>8 DEF BucketOf
<1>10. b <= u
  <2> SUFFICES ASSUME p < k PROVE FALSE
    <3>1. CASE k <= p
      <4>1. PICK d \in Nat : p = k + d
        BY <3>1, p - k \in Nat
      <4>2. p * i = k * i + d * i /\ d * i \in Nat
        BY <4>1
      <4> QED
        BY <1>6, <1>9, <4>2
    <3> QED
      BY <3>1
  <2>1. PICK d \in Nat : k = p + 1 + d
    BY k - p - 1 \in Nat
  <2>2. k * i = p * i + i + d * i /\ d * i \in Nat
    BY <2>1
  <2> QED
    BY <1>3, <1>6, <1>8, <1>9, <2>2
<1>11. BucketOf(u, long) = b
  BY <1>3, <1>8, <1>10, SameBucket
<1> QED
  BY <1>1, <1>3, <1>8, <1>11

LEMMA BarConstants ==
  /\ StoredIntervals \subseteq Nat \ {0} /\ 1 \in StoredIntervals
  /\ SourceInterval \in StoredIntervals
  /\ \E n \in Nat \ {0} : LongInterval = n * SourceInterval
  /\ LongInterval \in Nat \ {0} /\ TickSizes \subseteq Nat \ {0} /\ Prices \subseteq Nat \ {0}
  /\ LastTime \in Nat
<1>1. PICK longest \in StoredIntervals :
         /\ \A i \in StoredIntervals : i <= longest
         /\ LongInterval \in Nat \ {0} /\ LongInterval % longest = 0
  BY BarsAssumption
<1>2. StoredIntervals \subseteq Nat \ {0}
  BY BarsAssumption
<1>3. SourceInterval = longest
  BY <1>1, <1>2, GreatestIs DEF SourceInterval
<1>4. PICK n : n = LongInterval \div longest
  OBVIOUS
<1>5. n \in Nat /\ LongInterval = n * longest
  BY <1>1, <1>2, <1>4
<1>6. n # 0
  BY <1>1, <1>2, <1>5
<1> QED
  BY <1>1, <1>2, <1>3, <1>5, <1>6, BarsAssumption

-----------------------------------------------------------------------------
BarRows ==
    [exists : {TRUE}, open : Prices, high : Prices, low : Prices, close : Prices, count : Nat]
PriceTickRows == [exists : {TRUE}, price : Prices]
Polls == [ts : Times, price : Prices]

\* The polls that a bar of an interval tells of: those of its bucket.
PollsOf(i, b) == {k \in DOMAIN polled : BucketOf(polled[k].ts, i) = b}

\* The first and the last of them, a highest and a lowest.
Tells(bar, ks) ==
    /\ \E f \in ks : bar.open = polled[f].price /\ \A k \in ks : f <= k
    /\ \E l \in ks : bar.close = polled[l].price /\ \A k \in ks : k <= l
    /\ \E h \in ks : bar.high = polled[h].price
    /\ \E l \in ks : bar.low = polled[l].price
    /\ \A k \in ks : polled[k].price <= bar.high /\ bar.low <= polled[k].price

\* The shape of the variables; every bucket with polls has a bar, no other has, and it tells of
\* them; and while no tick was dated back, polls are in the order of their times.
BarsTyped ==
    /\ now \in Times /\ tickSize \in TickSizes /\ slowed \in BOOLEAN
    /\ priceTicks \in [Times -> PriceTickRows \cup {NoTick}]
    /\ bars \in [StoredIntervals -> [Times -> BarRows \cup {NoBar}]]
    /\ polled \in Seq(Polls)
BarsTold ==
    \A i \in StoredIntervals, b \in Times :
        /\ PollsOf(i, b) = {} <=> bars[i][b] = NoBar
        /\ bars[i][b] # NoBar => Tells(bars[i][b], PollsOf(i, b))
InOrder == ~slowed => \A j, k \in DOMAIN polled : j <= k => polled[j].ts <= polled[k].ts
BarsInv == BarsTyped /\ BarsTold /\ InOrder

LEMMA InitBarsInv == BarsInit => BarsInv
<1> SUFFICES ASSUME BarsInit PROVE BarsInv
  OBVIOUS
<1>1. polled = <<>> /\ DOMAIN polled = {} /\ polled \in Seq(Polls)
  BY DEF BarsInit
<1>2. BarsTyped
  BY <1>1, BarConstants DEF BarsInit, BarsTyped, Times
<1>3. \A i \in StoredIntervals, b \in Times : bars[i][b] = NoBar /\ PollsOf(i, b) = {}
  BY <1>1 DEF BarsInit, PollsOf
<1> QED
  BY <1>1, <1>2, <1>3 DEF BarsInv, BarsTold, InOrder

\* A bar that is added to.
LEMMA UpsertBarIs ==
  ASSUME NEW bar \in BarRows \cup {NoBar}, NEW price \in Prices
  PROVE  /\ UpsertBar(bar, price) \in BarRows /\ UpsertBar(bar, price) # NoBar
         /\ UpsertBar(bar, price).close = price
         /\ bar = NoBar => /\ UpsertBar(bar, price).open = price
                           /\ UpsertBar(bar, price).high = price
                           /\ UpsertBar(bar, price).low = price
         /\ bar # NoBar => /\ UpsertBar(bar, price).open = bar.open
                           /\ UpsertBar(bar, price).high = Larger2(bar.high, price)
                           /\ UpsertBar(bar, price).low = Smaller2(bar.low, price)
<1>1. \A x, y \in Prices : Larger2(x, y) \in Prices /\ Smaller2(x, y) \in Prices
  BY DEF Larger2, Smaller2
<1>2. \A r \in BarRows : r # NoBar
  BY DEF BarRows, NoBar
<1>3. CASE bar = NoBar
  <2>1. UpsertBar(bar, price) = [exists |-> TRUE, open |-> price, high |-> price, low |-> price,
                                 close |-> price, count |-> 1]
    BY <1>3 DEF UpsertBar
  <2>2. UpsertBar(bar, price) \in BarRows
    BY <2>1 DEF BarRows
  <2>3. /\ UpsertBar(bar, price).close = price /\ UpsertBar(bar, price).open = price
        /\ UpsertBar(bar, price).high = price /\ UpsertBar(bar, price).low = price
    BY <2>1
  <2> QED
    BY <1>2, <1>3, <2>2, <2>3
<1>4. CASE bar # NoBar
  <2>1. bar \in BarRows
    BY <1>4
  <2>2. PICK h, l, n : h = Larger2(bar.high, price) /\ l = Smaller2(bar.low, price) /\ n = bar.count + 1
    OBVIOUS
  <2>3. h \in Prices /\ l \in Prices /\ n \in Nat
    BY <1>1, <2>1, <2>2 DEF BarRows
  <2>4. UpsertBar(bar, price) = [bar EXCEPT !.high = h, !.low = l, !.close = price, !.count = n]
    BY <1>4, <2>2 DEF UpsertBar
  <2>5. UpsertBar(bar, price) \in BarRows
    BY <2>1, <2>3, <2>4 DEF BarRows
  <2>6. /\ UpsertBar(bar, price).close = price /\ UpsertBar(bar, price).open = bar.open
        /\ UpsertBar(bar, price).high = h /\ UpsertBar(bar, price).low = l
    BY <2>1, <2>4 DEF BarRows
  <2> QED
    BY <1>2, <1>4, <2>2, <2>5, <2>6
<1> QED
  BY <1>3, <1>4

\* With one more poll, a bar tells of one more.
LEMMA TellsOn ==
  ASSUME NEW n \in Nat, NEW ks \in SUBSET (1 .. n), NEW bar \in BarRows \cup {NoBar},
         NEW price \in Prices, ks = {} <=> bar = NoBar, bar # NoBar => Tells(bar, ks),
         \A k \in ks : polled'[k] = polled[k] /\ polled[k].price \in Prices,
         polled'[n + 1].price = price
  PROVE  Tells(UpsertBar(bar, price), ks \cup {n + 1})'
<1>1. PICK new : new = UpsertBar(bar, price)
  OBVIOUS
<1>2. PICK all : all = ks \cup {n + 1}
  OBVIOUS
<1>3. \A k \in ks : k <= n + 1 /\ k \in Nat /\ polled'[k].price = polled[k].price
  OBVIOUS
<1>4. Prices \subseteq Nat
  BY BarConstants
<1>5. CASE bar = NoBar
  <2>1. all = {n + 1} /\ new.open = price /\ new.high = price /\ new.low = price /\ new.close = price
    BY <1>1, <1>2, <1>5, UpsertBarIs
  <2>2. Tells(new, all)'
    BY <1>4, <2>1 DEF Tells
  <2> QED
    BY <1>1, <1>2, <2>2
<1>6. CASE bar # NoBar
  <2>1. /\ new.open = bar.open /\ new.high = Larger2(bar.high, price)
        /\ new.low = Smaller2(bar.low, price) /\ new.close = price
    BY <1>1, <1>6, UpsertBarIs
  <2>2. PICK f \in ks : bar.open = polled[f].price /\ \A k \in ks : f <= k
    BY <1>6 DEF Tells
  <2>3. new.open = polled'[f].price /\ f \in all /\ \A k \in all : f <= k
    BY <1>2, <1>3, <2>1, <2>2
  <2>4. new.close = polled'[n + 1].price /\ n + 1 \in all /\ \A k \in all : k <= n + 1
    BY <1>2, <1>3, <2>1
  <2>5. PICK h, l \in ks : bar.high = polled[h].price /\ bar.low = polled[l].price
    BY <1>6 DEF Tells
  <2>6. bar.high \in Nat /\ bar.low \in Nat /\ price \in Nat
    BY <1>4, <2>5
  <2>7. \E x \in all : new.high = polled'[x].price
    BY <1>2, <1>3, <2>1, <2>5, <2>6 DEF Larger2
  <2>8. \E x \in all : new.low = polled'[x].price
    BY <1>2, <1>3, <2>1, <2>5, <2>6 DEF Smaller2
  <2>9. \A k \in all : polled'[k].price <= new.high /\ new.low <= polled'[k].price
    <3>1. \A k \in ks : /\ polled[k].price <= bar.high /\ bar.low <= polled[k].price
                        /\ polled[k].price \in Nat
      BY <1>4, <1>6 DEF Tells
    <3>2. \A x \in Nat : /\ x <= bar.high => x <= new.high
                         /\ bar.low <= x => new.low <= x
      BY <2>1, <2>6 DEF Larger2, Smaller2
    <3>3. price <= new.high /\ new.low <= price
      BY <2>1, <2>6 DEF Larger2, Smaller2
    <3> QED
      BY <1>2, <1>3, <3>1, <3>2, <3>3
  <2>10. Tells(new, all)'
    BY <2>3, <2>4, <2>7, <2>8, <2>9 DEF Tells
  <2> QED
    BY <1>1, <1>2, <2>10
<1> QED
  BY <1>5, <1>6

LEMMA PollBars == BarsInv /\ Poll => BarsInv'
<1> SUFFICES ASSUME BarsInv, Poll PROVE BarsInv'
  OBVIOUS
<1>0. PICK ts : ts = BucketOf(now, tickSize)
  OBVIOUS
<1>1. PICK price \in Prices :
         /\ PersistSnapshot(ts, price)
         /\ polled' = Append(polled, [ts |-> ts, price |-> price])
         /\ slowed' = (slowed \/ \E k \in DOMAIN polled : polled[k].ts > ts)
         /\ now' = now /\ tickSize' = tickSize
  BY <1>0 DEF Poll
<1>2. BarsTyped /\ now \in Nat /\ now <= LastTime /\ tickSize \in Nat \ {0}
  BY BarConstants DEF BarsInv, BarsTyped, Times
<1>3. ts \in Times /\ ts \in Nat
  BY <1>0, <1>2, BucketBounds, BarConstants DEF Times
<1>4. PICK n \in Nat : n = Len(polled) /\ DOMAIN polled = 1 .. n
  BY <1>2 DEF BarsTyped
<1>5. PICK e \in Polls : e = [ts |-> ts, price |-> price] /\ e.ts = ts /\ e.price = price
  <2>1. PICK e : e = [ts |-> ts, price |-> price]
    OBVIOUS
  <2>2. e \in Polls
    BY <1>3, <2>1 DEF Polls
  <2>3. e.ts = ts /\ e.price = price
    BY <2>1
  <2> QED
    BY <2>1, <2>2, <2>3
<1>6. /\ polled' \in Seq(Polls) /\ DOMAIN polled' = 1 .. n + 1 /\ polled'[n + 1] = e
      /\ \A k \in 1 .. n : polled'[k] = polled[k] /\ polled[k] \in Polls
  BY <1>1, <1>2, <1>4, <1>5 DEF BarsTyped
<1>7. bars \in [StoredIntervals -> [Times -> BarRows \cup {NoBar}]]
  BY <1>2 DEF BarsTyped
<1>8. \A i \in StoredIntervals : /\ BucketOf(ts, i) \in Times
                                 /\ bars'[i] = [bars[i] EXCEPT ![BucketOf(ts, i)] =
                                                                UpsertBar(@, price)]
  <2> SUFFICES ASSUME NEW i \in StoredIntervals
               PROVE  /\ BucketOf(ts, i) \in Times
                      /\ bars'[i] = [bars[i] EXCEPT ![BucketOf(ts, i)] = UpsertBar(@, price)]
    OBVIOUS
  <2>1. BucketOf(ts, i) \in Nat /\ BucketOf(ts, i) <= ts
    BY <1>3, BarConstants, BucketBounds
  <2> QED
    BY <1>1, <1>3, <2>1, BarConstants DEF Times, PersistSnapshot
<1>9. \A i \in StoredIntervals, b \in Times :
        bars'[i][b] = IF b = BucketOf(ts, i) THEN UpsertBar(bars[i][b], price) ELSE bars[i][b]
  <2> SUFFICES ASSUME NEW i \in StoredIntervals, NEW b \in Times
               PROVE  bars'[i][b] =
                        IF b = BucketOf(ts, i) THEN UpsertBar(bars[i][b], price) ELSE bars[i][b]
    OBVIOUS
  <2>1. PICK c \in Times : c = BucketOf(ts, i)
    BY <1>8
  <2>2. PICK row : row = UpsertBar(bars[i][c], price)
    OBVIOUS
  <2>3. bars'[i] = [bars[i] EXCEPT ![c] = row] /\ DOMAIN bars[i] = Times
    BY <1>7, <1>8, <2>1, <2>2
  <2>4. bars'[i][b] = IF b = c THEN row ELSE bars[i][b]
    BY <2>3
  <2> QED
    BY <2>1, <2>2, <2>4
<1>10. bars' \in [StoredIntervals -> [Times -> BarRows \cup {NoBar}]]
  <2>1. \A i \in StoredIntervals : bars'[i] \in [Times -> BarRows \cup {NoBar}]
    <3> SUFFICES ASSUME NEW i \in StoredIntervals PROVE bars'[i] \in [Times -> BarRows \cup {NoBar}]
      OBVIOUS
    <3>1. PICK b \in Times : b = BucketOf(ts, i)
      BY <1>8
    <3>2. PICK bar \in BarRows \cup {NoBar} : bar = bars[i][b]
      BY <1>7
    <3>3. PICK row \in BarRows : row = UpsertBar(bar, price)
      BY UpsertBarIs
    <3>4. bars'[i] = [bars[i] EXCEPT ![b] = row]
      BY <1>8, <3>1, <3>2, <3>3
    <3> QED
      BY <1>7, <3>1, <3>4
  <2>2. bars' = [i \in StoredIntervals |-> bars'[i]]
    BY <1>1 DEF PersistSnapshot
  <2> QED
    BY <2>1, <2>2
<1>11. priceTicks' \in [Times -> PriceTickRows \cup {NoTick}]
  <2>1. [exists |-> TRUE, price |-> price] \in PriceTickRows
    BY DEF PriceTickRows
  <2> QED
    BY <1>1, <1>2, <2>1 DEF PersistSnapshot, BarsTyped
<1>12. BarsTyped'
  BY <1>1, <1>2, <1>6, <1>10, <1>11 DEF BarsTyped
<1>13. \A i \in StoredIntervals, b \in Times :
         PollsOf(i, b)' = IF b = BucketOf(ts, i) THEN PollsOf(i, b) \cup {n + 1} ELSE PollsOf(i, b)
  <2>1. \A k \in 1 .. n : polled'[k].ts = polled[k].ts
    BY <1>6
  <2>2. polled'[n + 1].ts = ts
    BY <1>5, <1>6
  <2>3. 1 .. n + 1 = (1 .. n) \cup {n + 1} /\ n + 1 \notin 1 .. n
    OBVIOUS
  <2> QED
    BY <1>4, <1>6, <2>1, <2>2, <2>3 DEF PollsOf
<1>14. BarsTold'
  <2> SUFFICES ASSUME NEW i \in StoredIntervals, NEW b \in Times
               PROVE  /\ PollsOf(i, b)' = {} <=> bars'[i][b] = NoBar
                      /\ bars'[i][b] # NoBar => Tells(bars[i][b], PollsOf(i, b))'
    BY DEF BarsTold
  <2>1. /\ PollsOf(i, b) = {} <=> bars[i][b] = NoBar
        /\ bars[i][b] # NoBar => Tells(bars[i][b], PollsOf(i, b))
    BY DEF BarsInv, BarsTold
  <2>2. PICK ks \in SUBSET (1 .. n) : ks = PollsOf(i, b)
    BY <1>4 DEF PollsOf
  <2>3. PICK bar \in BarRows \cup {NoBar} : bar = bars[i][b]
    BY <1>7
  <2>4. \A k \in ks : polled'[k] = polled[k] /\ polled[k].price \in Prices
    BY <1>6, <2>2 DEF Polls
  <2>5. CASE b = BucketOf(ts, i)
    <3>1. bars'[i][b] = UpsertBar(bar, price) /\ PollsOf(i, b)' = ks \cup {n + 1}
      BY <1>9, <1>13, <2>2, <2>3, <2>5
    <3>2. Tells(UpsertBar(bar, price), ks \cup {n + 1})'
      BY <1>5, <1>6, <2>1, <2>2, <2>3, <2>4, TellsOn
    <3>3. UpsertBar(bar, price) # NoBar
      BY UpsertBarIs
    <3>4. PICK row, all : row = UpsertBar(bar, price) /\ all = ks \cup {n + 1}
      OBVIOUS
    <3>5. Tells(row, all)' /\ row # NoBar /\ all # {} /\ bars'[i][b] = row /\ PollsOf(i, b)' = all
      BY <3>1, <3>2, <3>3, <3>4
    <3>6. Tells(bars[i][b], PollsOf(i, b))'
      BY <3>5
    <3> QED
      BY <3>5, <3>6
  <2>6. CASE b # BucketOf(ts, i)
    <3>1. bars'[i][b] = bar /\ PollsOf(i, b)' = ks
      BY <1>9, <1>13, <2>2, <2>3, <2>6
    <3>2. bar # NoBar => Tells(bar, ks)
      BY <2>1, <2>2, <2>3
    <3>3. bar # NoBar => Tells(bar, ks)'
      BY <2>4, <3>2 DEF Tells
    <3>4. bars'[i][b] # NoBar => Tells(bars[i][b], PollsOf(i, b))'
      BY <3>1, <3>3
    <3> QED
      BY <2>1, <2>2, <2>3, <3>1, <3>4
  <2> QED
    BY <2>5, <2>6
<1>15. InOrder'
  <2> SUFFICES ASSUME ~slowed', NEW j \in 1 .. n + 1, NEW k \in 1 .. n + 1, j <= k
               PROVE  polled'[j].ts <= polled'[k].ts
    BY <1>6 DEF InOrder
  <2>1. ~slowed /\ \A x \in 1 .. n : ~(polled[x].ts > ts)
    BY <1>1, <1>4
  <2>2. \A x, y \in 1 .. n : x <= y => polled[x].ts <= polled[y].ts
    BY <1>4, <2>1 DEF BarsInv, InOrder
  <2>3. \A x \in 1 .. n : polled[x].ts \in Nat
    BY <1>6, BarConstants DEF Polls, Times
  <2>4. polled'[n + 1].ts = ts
    BY <1>5, <1>6
  <2>5. CASE k = n + 1 /\ j = n + 1
    BY <1>3, <2>4, <2>5
  <2>6. CASE k = n + 1 /\ j \in 1 .. n
    <3>1. polled'[j] = polled[j]
      BY <1>6, <2>6
    <3> QED
      BY <1>3, <2>1, <2>3, <2>4, <2>6, <3>1
  <2>7. CASE k \in 1 .. n
    <3>1. j \in 1 .. n
      BY <2>7
    <3>2. polled'[j] = polled[j] /\ polled'[k] = polled[k]
      BY <1>6, <2>7, <3>1
    <3> QED
      BY <2>2, <2>7, <3>1, <3>2
  <2> QED
    BY <2>5, <2>6, <2>7
<1> QED
  BY <1>12, <1>14, <1>15 DEF BarsInv

LEMMA BarsStep == BarsInv /\ [BarsNext]_barVars => BarsInv'
<1> SUFFICES ASSUME BarsInv, [BarsNext]_barVars PROVE BarsInv'
  OBVIOUS
<1>1. CASE Poll
  BY <1>1, PollBars
<1>2. CASE ~Poll
  <2>1. /\ UNCHANGED <<priceTicks, bars, polled, slowed>>
        /\ now' \in Times /\ tickSize' \in TickSizes
    <3>1. now \in Times /\ tickSize \in TickSizes /\ LastTime \in Nat
      BY BarConstants DEF BarsInv, BarsTyped
    <3>2. CASE UNCHANGED barVars
      BY <3>1, <3>2 DEF barVars
    <3>3. CASE TimePasses
      BY <3>1, <3>3 DEF TimePasses, Times
    <3>4. CASE IntervalChanges
      BY <3>1, <3>4 DEF IntervalChanges
    <3> QED
      BY <1>2, <3>2, <3>3, <3>4 DEF BarsNext
  <2>2. BarsTyped'
    BY <2>1 DEF BarsInv, BarsTyped
  <2>3. BarsTold'
    BY <2>1 DEF BarsInv, BarsTold, PollsOf, Tells
  <2>4. InOrder'
    BY <2>1 DEF BarsInv, InOrder
  <2> QED
    BY <2>2, <2>3, <2>4 DEF BarsInv
<1> QED
  BY <1>1, <1>2

LEMMA BarsInvariance == BarsInit /\ [][BarsNext]_barVars => []BarsInv
  BY InitBarsInv, BarsStep, PTL

LEMMA BarsKeepTypes == BarsInv => BarsTypeOK
  BY DEF BarsInv, BarsTyped, BarsTypeOK, PriceTickRows, NoTick

-----------------------------------------------------------------------------
(* What is read of them.                                                    *)

LEMMA PollsAre ==
  ASSUME BarsInv
  PROVE  \E n \in Nat :
            /\ DOMAIN polled = 1 .. n /\ Len(polled) = n
            /\ \A k \in 1 .. n :
                  /\ polled[k].ts \in Nat /\ polled[k].ts <= LastTime /\ polled[k].ts \in Times
                  /\ polled[k].price \in Prices /\ polled[k].price \in Nat
<1>1. PICK n \in Nat : DOMAIN polled = 1 .. n /\ Len(polled) = n
  BY DEF BarsInv, BarsTyped
<1>2. \A k \in 1 .. n : polled[k] \in Polls
  BY <1>1 DEF BarsInv, BarsTyped
<1>3. \A k \in 1 .. n : polled[k].ts \in Times /\ polled[k].price \in Prices
  BY <1>2 DEF Polls
<1>4. \A t \in Times : t \in Nat /\ t <= LastTime
  BY BarConstants DEF Times
<1>5. Prices \subseteq Nat
  BY BarConstants
<1>6. \A k \in 1 .. n :
        /\ polled[k].ts \in Nat /\ polled[k].ts <= LastTime /\ polled[k].ts \in Times
        /\ polled[k].price \in Prices /\ polled[k].price \in Nat
  BY <1>3, <1>4, <1>5
<1> QED
  BY <1>1, <1>6

\* Told, where the smallest and the largest are known.
LEMMA TellsTold ==
  ASSUME BarsInv, NEW bar, NEW ks \in SUBSET DOMAIN polled, Tells(bar, ks)
  PROVE  Told(bar, ks)
<1>1. ks \in SUBSET Nat /\ \A k \in ks : polled[k].price \in Nat
  BY PollsAre
<1>2. PICK S : S = {polled[k].price : k \in ks}
  OBVIOUS
<1>3. S \in SUBSET Nat
  BY <1>1, <1>2
<1>4. \A y \in S : y <= bar.high /\ bar.low <= y
  BY <1>2 DEF Tells
<1>5. bar.high \in S /\ bar.low \in S
  BY <1>2 DEF Tells
<1>6. Max(S) = bar.high /\ Min(S) = bar.low
  BY <1>3, <1>4, <1>5, GreatestIs, LeastIs
<1>7. PICK f \in ks : bar.open = polled[f].price /\ \A k \in ks : f <= k
  BY DEF Tells
<1>8. PICK l \in ks : bar.close = polled[l].price /\ \A k \in ks : k <= l
  BY DEF Tells
<1>9. Min(ks) = f /\ Max(ks) = l
  BY <1>1, <1>7, <1>8, GreatestIs, LeastIs
<1> QED
  BY <1>2, <1>6, <1>7, <1>8, <1>9 DEF Told, BarOf

\* The polls of a bucket are those of the time from it to the next.
LEMMA BucketPolls ==
  ASSUME BarsInv, NEW i \in Nat \ {0}, NEW t \in Nat
  PROVE  PollsOf(i, BucketOf(t, i)) = PolledBetween(BucketOf(t, i), BucketOf(t, i) + i)
<1>1. PICK n \in Nat : DOMAIN polled = 1 .. n /\ \A k \in 1 .. n : polled[k].ts \in Nat
  BY PollsAre
<1>2. PICK b \in Nat : b = BucketOf(t, i)
  BY BucketBounds
<1>3. \A k \in 1 .. n : BucketOf(polled[k].ts, i) = b <=> b <= polled[k].ts /\ polled[k].ts < b + i
  BY <1>1, <1>2, SameBucket
<1>4. \A k \in 1 .. n : /\ polled[k].ts >= b <=> b <= polled[k].ts
  BY <1>1
<1> QED
  BY <1>1, <1>2, <1>3, <1>4 DEF PollsOf, PolledBetween

\* A bar that is there is of the bucket of a poll.
LEMMA BarIsOf ==
  ASSUME BarsInv, NEW i \in StoredIntervals, NEW b \in Times, bars[i][b] # NoBar
  PROVE  /\ \E k \in DOMAIN polled : BucketOf(polled[k].ts, i) = b
         /\ PollsOf(i, b) = PolledBetween(b, b + i)
         /\ Tells(bars[i][b], PollsOf(i, b)) /\ Told(bars[i][b], PolledBetween(b, b + i))
<1>1. PollsOf(i, b) # {} /\ Tells(bars[i][b], PollsOf(i, b))
  BY DEF BarsInv, BarsTold
<1>2. PICK k \in DOMAIN polled : BucketOf(polled[k].ts, i) = b
  BY <1>1 DEF PollsOf
<1>3. polled[k].ts \in Nat
  BY PollsAre
<1>4. PollsOf(i, b) = PolledBetween(b, b + i)
  BY <1>2, <1>3, BucketPolls, BarConstants
<1>5. PollsOf(i, b) \in SUBSET DOMAIN polled
  BY DEF PollsOf
<1> QED
  BY <1>1, <1>2, <1>4, <1>5, TellsTold

LEMMA StoredBarsTold ==
  ASSUME BarsInv, NEW i \in StoredIntervals, NEW b \in StoredBars(i)
  PROVE  Told(bars[i][b], PolledBetween(b, b + i))
<1>1. b \in Times /\ bars[i][b] # NoBar
  BY DEF StoredBars, Newest
<1> QED
  BY <1>1, BarIsOf

\* The bars of the shortest interval: those at the times of the polls; each closes with the
\* last poll of its time.
LEMMA ShortestBars ==
  ASSUME BarsInv, NEW t \in Times
  PROVE  /\ bars[1][t] # NoBar <=> \E k \in DOMAIN polled : polled[k].ts = t
         /\ bars[1][t] # NoBar =>
               \E l \in DOMAIN polled :
                  /\ polled[l].ts = t /\ bars[1][t].close = polled[l].price
                  /\ \A k \in DOMAIN polled : polled[k].ts = t => k <= l
<1>1. PICK n \in Nat : DOMAIN polled = 1 .. n /\ \A k \in 1 .. n : polled[k].ts \in Nat
  BY PollsAre
<1>2. \A k \in 1 .. n : BucketOf(polled[k].ts, 1) = polled[k].ts
  BY <1>1, ShortestBuckets
<1>3. PollsOf(1, t) = {k \in 1 .. n : polled[k].ts = t}
  BY <1>1, <1>2 DEF PollsOf
<1>4. /\ PollsOf(1, t) = {} <=> bars[1][t] = NoBar
      /\ bars[1][t] # NoBar => Tells(bars[1][t], PollsOf(1, t))
  BY BarConstants DEF BarsInv, BarsTold
<1> QED
  BY <1>1, <1>3, <1>4 DEF Tells

\* Of the shortest bars up to a time, the newest closes with the last of the polls up to it.
LEMMA NewestClose ==
  ASSUME BarsInv, ~slowed, NEW t \in Times, NEW ks, ks = {k \in DOMAIN polled : polled[k].ts <= t}
  PROVE  /\ ClosesUpTo(t) = {} <=> ks = {}
         /\ ks # {} => /\ Max(ks) \in ks
                       /\ bars[1][Max(ClosesUpTo(t))].close = polled[Max(ks)].price
<1>1. PICK n \in Nat :
         /\ DOMAIN polled = 1 .. n
         /\ \A k \in 1 .. n : polled[k].ts \in Nat /\ polled[k].ts \in Times
  BY PollsAre
<1>2. t \in Nat /\ t <= LastTime /\ LastTime \in Nat
  BY BarConstants DEF Times
<1>3. \A u \in 0 .. t : u \in Times
  BY <1>2 DEF Times
<1>4. ClosesUpTo(t) = {u \in 0 .. t : \E k \in 1 .. n : polled[k].ts = u}
  BY <1>1, <1>3, ShortestBars DEF ClosesUpTo
<1>5. ks = {k \in 1 .. n : polled[k].ts <= t}
  BY <1>1
<1>6. ClosesUpTo(t) = {} <=> ks = {}
  BY <1>1, <1>2, <1>4, <1>5
<1>7. ASSUME ks # {}
      PROVE  /\ Max(ks) \in ks
             /\ bars[1][Max(ClosesUpTo(t))].close = polled[Max(ks)].price
  <2>1. ks \in SUBSET (0 .. n)
    BY <1>5
  <2>2. PICK l \in ks : l = Max(ks) /\ \A k \in ks : k <= l
    BY <1>7, <2>1, LargestOf
  <2>3. PICK u : u = polled[l].ts
    OBVIOUS
  <2>4. l \in 1 .. n /\ u \in Nat /\ u <= t /\ u \in 0 .. t /\ u \in Times
    BY <1>1, <1>2, <1>5, <2>2, <2>3
  <2>5. u \in ClosesUpTo(t)
    BY <1>4, <2>3, <2>4
  <2>6. \A v \in ClosesUpTo(t) : v <= u
    <3> SUFFICES ASSUME NEW v \in ClosesUpTo(t) PROVE v <= u
      OBVIOUS
    <3>1. PICK k \in 1 .. n : polled[k].ts = v /\ v \in 0 .. t
      BY <1>4
    <3>2. k <= l
      BY <1>2, <1>5, <2>2, <3>1
    <3> QED
      BY <1>1, <2>3, <2>4, <3>1, <3>2 DEF BarsInv, InOrder
  <2>7. ClosesUpTo(t) \in SUBSET Nat
    BY <1>4
  <2>8. Max(ClosesUpTo(t)) = u
    BY <2>5, <2>6, <2>7, GreatestIs
  <2>9. bars[1][u] # NoBar
    BY <1>1, <2>3, <2>4, ShortestBars
  <2>10. PICK m \in 1 .. n : /\ polled[m].ts = u /\ bars[1][u].close = polled[m].price
                             /\ \A k \in 1 .. n : polled[k].ts = u => k <= m
    BY <1>1, <2>4, <2>9, ShortestBars
  <2>11. m \in ks
    BY <1>5, <2>4, <2>10
  <2>12. m = l
    <3>1. m <= l /\ l <= m
      BY <2>2, <2>3, <2>4, <2>10, <2>11
    <3> QED
      BY <2>4, <3>1
  <2> QED
    BY <2>2, <2>8, <2>10, <2>12
<1> QED
  BY <1>6, <1>7

LEMMA TickerTold == BarsInv => TickerIsLatest
<1> SUFFICES ASSUME BarsInv, polled # <<>>, ~slowed
             PROVE  /\ Ticker.price = polled[Len(polled)].price
                    /\ LET old == PolledBetween(0, IF now < DayAgo THEN 0 ELSE now - DayAgo + 1) IN
                          Ticker.reference = IF old = {} THEN Ticker.price ELSE BarOf(old).close
  BY DEF TickerIsLatest
<1>1. PICK n \in Nat : /\ DOMAIN polled = 1 .. n /\ Len(polled) = n
                       /\ \A k \in 1 .. n : polled[k].ts \in Nat /\ polled[k].ts <= LastTime
  BY PollsAre
<1>2. n # 0
  BY <1>1 DEF BarsInv, BarsTyped
<1>3. LastTime \in Times /\ now \in Nat /\ now <= LastTime /\ DayAgo \in Nat
  BY BarConstants DEF BarsInv, BarsTyped, Times, DayAgo
<1>4. PICK all : all = {k \in DOMAIN polled : polled[k].ts <= LastTime}
  OBVIOUS
<1>5. all = 1 .. n /\ all # {} /\ Max(all) = n
  <2>1. all = 1 .. n
    BY <1>1, <1>4
  <2>2. n \in all /\ all \in SUBSET Nat /\ \A k \in all : k <= n
    BY <1>2, <2>1
  <2> QED
    BY <2>1, <2>2, GreatestIs
<1>6. /\ ClosesUpTo(LastTime) # {}
      /\ bars[1][Max(ClosesUpTo(LastTime))].close = polled[n].price
  BY <1>3, <1>4, <1>5, NewestClose
<1>7. PICK before : before = IF now < DayAgo THEN {} ELSE ClosesUpTo(now - DayAgo)
  OBVIOUS
<1>8. PICK p : p = polled[n].price
  OBVIOUS
<1>9. Ticker = [price |-> p, reference |-> IF before = {} THEN p ELSE bars[1][Max(before)].close]
  BY <1>6, <1>7, <1>8 DEF Ticker
<1>10. Ticker.price = p /\ Ticker.reference = IF before = {} THEN p ELSE bars[1][Max(before)].close
  BY <1>9
<1>11. PICK old : old = PolledBetween(0, IF now < DayAgo THEN 0 ELSE now - DayAgo + 1)
  OBVIOUS
<1>12. CASE now < DayAgo
  <2>1. before = {}
    BY <1>7, <1>12
  <2>2. old = {}
    BY <1>1, <1>11, <1>12 DEF PolledBetween
  <2> QED
    BY <1>1, <1>8, <1>10, <1>11, <2>1, <2>2
<1>13. CASE ~(now < DayAgo)
  <2>1. PICK t \in Times : t = now - DayAgo /\ t \in Nat
    BY <1>3, <1>13 DEF Times
  <2>2. before = ClosesUpTo(t)
    BY <1>7, <1>13, <2>1
  <2>3. old = PolledBetween(0, t + 1)
    BY <1>11, <1>13, <2>1
  <2>4. \A k \in 1 .. n : polled[k].ts >= 0 /\ (polled[k].ts < t + 1 <=> polled[k].ts <= t)
    BY <1>1, <2>1
  <2>5. old = {k \in DOMAIN polled : polled[k].ts <= t}
    BY <1>1, <2>3, <2>4 DEF PolledBetween
  <2>6. /\ before = {} <=> old = {}
        /\ old # {} => bars[1][Max(before)].close = polled[Max(old)].price
    BY <2>2, <2>5, NewestClose
  <2>7. BarOf(old).close = polled[Max(old)].price
    BY DEF BarOf
  <2> QED
    BY <1>1, <1>8, <1>10, <1>11, <2>6, <2>7
<1> QED
  BY <1>12, <1>13

LEMMA BucketsInOrder ==
  ASSUME NEW i \in Nat \ {0}, NEW x \in Nat, NEW y \in Nat, x <= y
  PROVE  BucketOf(x, i) <= BucketOf(y, i)
<1>1. PICK a, b \in Nat : a = BucketOf(x, i) /\ b = BucketOf(y, i)
  BY BucketBounds
<1>2. a <= x /\ x < a + i /\ b <= y /\ y < b + i
  BY <1>1, BucketBounds
<1> SUFFICES ASSUME b < a PROVE FALSE
  BY <1>1
<1>3. b <= x /\ x < b + i
  BY <1>2
<1>4. a = b
  BY <1>1, <1>3, SameBucket
<1> QED
  BY <1>4

\* The source bars of a long bucket tell of its polls, each of those of one of them.
LEMMA PartsTell ==
  ASSUME BarsInv, NEW b \in AggregatedBars, b + Lookback >= now
  PROVE  /\ PollsOf(LongInterval, b) = PolledBetween(b, b + LongInterval)
         /\ Parts(b) # {} /\ Parts(b) \in SUBSET Times
         /\ \A t \in Parts(b) : /\ bars[SourceInterval][t] # NoBar
                                /\ PollsOf(SourceInterval, t) \subseteq PollsOf(LongInterval, b)
         /\ \A k \in PollsOf(LongInterval, b) :
               /\ BucketOf(polled[k].ts, SourceInterval) \in Parts(b)
               /\ k \in PollsOf(SourceInterval, BucketOf(polled[k].ts, SourceInterval))
<1>1. PICK s \in Nat \ {0} : s = SourceInterval /\ s \in StoredIntervals
  BY BarConstants
<1>2. PICK long \in Nat \ {0} : long = LongInterval
  BY BarConstants
<1>3. PICK r \in Nat \ {0} : long = r * s
  BY <1>1, <1>2, BarConstants
<1>4. PICK t0 \in SourceBars : b = BucketOf(t0, long)
  BY <1>2 DEF AggregatedBars, Newest
<1>5. t0 \in Nat /\ t0 \in Parts(b)
  BY <1>2, <1>4 DEF SourceBars, Parts, Times
<1>6. PollsOf(long, b) = PolledBetween(b, b + long)
  BY <1>4, <1>5, BucketPolls
<1>7. b \in Nat /\ Lookback \in Nat /\ now \in Nat
  <2>1. b \in Nat
    BY <1>4, <1>5, BucketBounds
  <2>2. now \in Nat
    BY DEF BarsInv, BarsTyped, Times
  <2>3. BarLimit \in Nat
    BY BarsAssumption
  <2>4. LongInterval * BarLimit \in Nat
    BY <1>2, <2>3
  <2> QED
    BY <1>1, <2>1, <2>2, <2>4 DEF Lookback
<1>8. \A t \in Parts(b) : /\ t \in Times /\ t \in Nat /\ bars[s][t] # NoBar
                          /\ BucketOf(t, long) = b
  BY <1>1, <1>2 DEF Parts, SourceBars, Times
<1>9. PICK n \in Nat : /\ DOMAIN polled = 1 .. n
                       /\ \A k \in 1 .. n : polled[k].ts \in Nat /\ polled[k].ts <= LastTime
  BY PollsAre
<1>10. \A k \in 1 .. n : BucketOf(BucketOf(polled[k].ts, s), long) = BucketOf(polled[k].ts, long)
  BY <1>3, <1>9, BucketsNest
<1>11. ASSUME NEW t \in Parts(b) PROVE PollsOf(s, t) \subseteq PollsOf(long, b)
  BY <1>8, <1>9, <1>10, <1>11 DEF PollsOf
<1>12. ASSUME NEW k \in PollsOf(long, b)
       PROVE  BucketOf(polled[k].ts, s) \in Parts(b) /\ k \in PollsOf(s, BucketOf(polled[k].ts, s))
  <2>1. k \in 1 .. n /\ BucketOf(polled[k].ts, long) = b
    BY <1>9, <1>12 DEF PollsOf
  <2>2. PICK u \in Nat : u = BucketOf(polled[k].ts, s) /\ u <= polled[k].ts
    BY <1>9, <2>1, BucketBounds
  <2>3. u \in Times /\ BucketOf(u, long) = b
    BY <1>9, <1>10, <2>1, <2>2, BarConstants DEF Times
  <2>4. k \in PollsOf(s, u)
    BY <1>9, <2>1, <2>2 DEF PollsOf
  <2>5. bars[s][u] # NoBar
    BY <1>1, <2>3, <2>4 DEF BarsInv, BarsTold
  <2>6. b <= u
    BY <2>2, <2>3, BucketBounds
  <2>7. u + Lookback >= now
    BY <1>7, <2>2, <2>6
  <2>8. u \in Parts(b)
    BY <1>1, <1>2, <2>3, <2>5, <2>7 DEF Parts, SourceBars
  <2> QED
    BY <2>2, <2>4, <2>8
<1> QED
  BY <1>1, <1>2, <1>5, <1>6, <1>8, <1>11, <1>12

LEMMA AggregatedTold ==
  ASSUME BarsInv, ~slowed, NEW b \in AggregatedBars, b + Lookback >= now
  PROVE  Told(Aggregated(b), PolledBetween(b, b + LongInterval))
<1>1. PICK s \in Nat \ {0} : s = SourceInterval /\ s \in StoredIntervals
  BY BarConstants
<1>2. PICK source, parts : source = bars[s] /\ parts = Parts(b)
  OBVIOUS
<1>3. PICK ks : ks = PollsOf(LongInterval, b)
  OBVIOUS
<1>4. /\ ks = PolledBetween(b, b + LongInterval) /\ parts # {} /\ parts \in SUBSET Times
      /\ \A t \in parts : source[t] # NoBar /\ PollsOf(s, t) \subseteq ks
      /\ \A k \in ks : BucketOf(polled[k].ts, s) \in parts /\ k \in PollsOf(s, BucketOf(polled[k].ts, s))
  BY <1>1, <1>2, <1>3, PartsTell
<1>5. PICK n \in Nat :
         /\ DOMAIN polled = 1 .. n
         /\ \A k \in 1 .. n : polled[k].ts \in Nat /\ polled[k].price \in Nat
  BY PollsAre
<1>6. ks \in SUBSET (0 .. n) /\ ks \in SUBSET (1 .. n) /\ parts \in SUBSET Nat
  BY <1>3, <1>4, <1>5 DEF PollsOf, Times
<1>7. \A t \in parts : PollsOf(s, t) # {} /\ Tells(source[t], PollsOf(s, t))
  BY <1>1, <1>2, <1>4 DEF BarsInv, BarsTold
<1>8. ks # {}
  BY <1>4, <1>7
<1>9. \A j, k \in ks : j <= k => BucketOf(polled[j].ts, s) <= BucketOf(polled[k].ts, s)
  <2>1. \A j, k \in ks : j <= k => polled[j].ts <= polled[k].ts
    BY <1>5, <1>6 DEF BarsInv, InOrder
  <2> QED
    BY <1>5, <1>6, <2>1, BucketsInOrder
<1>10. \A t \in parts : \E k \in ks : BucketOf(polled[k].ts, s) = t
  BY <1>4, <1>7 DEF PollsOf
<1>11. PICK f \in ks : /\ \A k \in ks : f <= k
                       /\ source[Min(parts)].open = polled[f].price
  <2>1. PICK f \in ks : \A k \in ks : f <= k
    <3>1. Min(ks) \in ks /\ \A k \in ks : Min(ks) <= k
      BY <1>6, <1>8, SmallestOf
    <3> QED
      BY <3>1
  <2>2. PICK u \in parts : u = BucketOf(polled[f].ts, s) /\ f \in PollsOf(s, u)
    BY <1>4
  <2>3. \A t \in parts : u <= t
    BY <1>9, <1>10, <2>1, <2>2
  <2>4. Min(parts) = u
    BY <1>6, <2>3, LeastIs
  <2>5. PICK g \in PollsOf(s, u) : source[u].open = polled[g].price /\ \A k \in PollsOf(s, u) : g <= k
    BY <1>7 DEF Tells
  <2>6. g <= f /\ f <= g /\ g \in Nat /\ f \in Nat
    BY <1>4, <1>6, <2>1, <2>2, <2>5
  <2>7. g = f
    BY <2>6
  <2> QED
    BY <2>1, <2>4, <2>5, <2>7
<1>12. PICK l \in ks : /\ \A k \in ks : k <= l
                       /\ source[Max(parts)].close = polled[l].price
  <2>1. PICK l \in ks : \A k \in ks : k <= l
    <3>1. Max(ks) \in ks /\ \A k \in ks : k <= Max(ks)
      BY <1>6, <1>8, LargestOf
    <3> QED
      BY <3>1
  <2>2. PICK u \in parts : u = BucketOf(polled[l].ts, s) /\ l \in PollsOf(s, u)
    BY <1>4
  <2>3. \A t \in parts : t <= u
    BY <1>9, <1>10, <2>1, <2>2
  <2>4. Max(parts) = u
    BY <1>6, <2>3, GreatestIs
  <2>5. PICK g \in PollsOf(s, u) : source[u].close = polled[g].price /\ \A k \in PollsOf(s, u) : k <= g
    BY <1>7 DEF Tells
  <2>6. g <= l /\ l <= g /\ g \in Nat /\ l \in Nat
    BY <1>4, <1>6, <2>1, <2>2, <2>5
  <2>7. g = l
    BY <2>6
  <2> QED
    BY <2>1, <2>4, <2>5, <2>7
<1>13. PICK ps : ps = {polled[k].price : k \in ks}
  OBVIOUS
<1>14. ps \in SUBSET Nat /\ ps # {} /\ IsFiniteSet(ps)
  <2>1. IsFiniteSet(1 .. n)
    BY FS_Interval
  <2>2. IsFiniteSet(ks)
    BY <1>6, <2>1, FS_Subset
  <2>3. IsFiniteSet(ps)
    <3>1. PICK price : price = [k \in ks |-> polled[k].price]
      OBVIOUS
    <3>2. price \in Surjection(ks, ps)
      BY <1>13, <3>1 DEF Surjection
    <3> QED
      BY <2>2, <3>2, FS_Surjection
  <2>4. \A k \in ks : polled[k].price \in Nat
    BY <1>5, <1>6
  <2>5. ps # {}
    BY <1>8, <1>13
  <2>6. ps \in SUBSET Nat
    BY <1>13, <2>4
  <2> QED
    BY <2>3, <2>5, <2>6
<1>15. \A t \in parts : source[t].high \in ps /\ source[t].low \in ps
  <2> SUFFICES ASSUME NEW t \in parts PROVE source[t].high \in ps /\ source[t].low \in ps
    OBVIOUS
  <2>1. PICK x, y \in PollsOf(s, t) : source[t].high = polled[x].price /\ source[t].low = polled[y].price
    BY <1>7 DEF Tells
  <2>2. x \in ks /\ y \in ks
    BY <1>4
  <2> QED
    BY <1>13, <2>1, <2>2
<1>16. \A k \in ks : \E t \in parts : polled[k].price <= source[t].high /\ source[t].low <= polled[k].price
  BY <1>4, <1>7 DEF Tells
<1>17. PICK h \in ps : /\ \A y \in ps : y <= h
                       /\ Max({source[t].high : t \in parts}) = h
  <2>1. PICK h \in ps : \A y \in ps : y <= h
    BY <1>14, LargestOfFinite
  <2>2. PICK highs : highs = {source[t].high : t \in parts}
    OBVIOUS
  <2>3. highs \in SUBSET Nat /\ \A y \in highs : y <= h
    BY <1>14, <1>15, <2>1, <2>2
  <2>4. PICK t \in parts : h <= source[t].high
    BY <1>13, <1>16
  <2>5. source[t].high <= h /\ source[t].high \in Nat /\ h \in Nat
    BY <1>14, <1>15, <2>1
  <2>6. h \in highs
    BY <2>2, <2>4, <2>5
  <2> QED
    BY <2>1, <2>2, <2>3, <2>6, GreatestIs
<1>18. PICK w \in ps : /\ \A y \in ps : w <= y
                       /\ Min({source[t].low : t \in parts}) = w
  <2>1. PICK w \in ps : \A y \in ps : w <= y
    <3>1. Min(ps) \in ps /\ \A y \in ps : Min(ps) <= y
      BY <1>14, SmallestOf
    <3> QED
      BY <3>1
  <2>2. PICK lows : lows = {source[t].low : t \in parts}
    OBVIOUS
  <2>3. lows \in SUBSET Nat /\ \A y \in lows : w <= y
    BY <1>14, <1>15, <2>1, <2>2
  <2>4. PICK t \in parts : source[t].low <= w
    BY <1>13, <1>16
  <2>5. w <= source[t].low /\ source[t].low \in Nat /\ w \in Nat
    BY <1>14, <1>15, <2>1
  <2>6. w \in lows
    BY <2>2, <2>4, <2>5
  <2> QED
    BY <2>1, <2>2, <2>3, <2>6, LeastIs
<1>19. PICK o, c : o = source[Min(parts)].open /\ c = source[Max(parts)].close
  OBVIOUS
<1>20. Aggregated(b) = [open |-> o, high |-> h, low |-> w, close |-> c]
  BY <1>1, <1>2, <1>17, <1>18, <1>19 DEF Aggregated
<1>21. PICK bar : bar = Aggregated(b) /\ bar.open = o /\ bar.high = h /\ bar.low = w /\ bar.close = c
  BY <1>20
<1>22. Tells(bar, ks)
  <2>1. \E x \in ks : bar.open = polled[x].price /\ \A k \in ks : x <= k
    BY <1>11, <1>19, <1>21
  <2>2. \E x \in ks : bar.close = polled[x].price /\ \A k \in ks : k <= x
    BY <1>12, <1>19, <1>21
  <2>3. (\E x \in ks : bar.high = polled[x].price) /\ \E x \in ks : bar.low = polled[x].price
    BY <1>13, <1>21
  <2>4. \A k \in ks : polled[k].price <= bar.high /\ bar.low <= polled[k].price
    BY <1>13, <1>17, <1>18, <1>21
  <2> QED
    BY <2>1, <2>2, <2>3, <2>4 DEF Tells
<1> QED
  BY <1>3, <1>4, <1>5, <1>6, <1>21, <1>22, TellsTold

LEMMA BarsKeepTold == BarsInv => BarsTellThePolls
  BY StoredBarsTold, AggregatedTold, TickerTold DEF BarsTellThePolls

-----------------------------------------------------------------------------
(* The settings of RA, the header and the proxy.                            *)

\* What the rows of settings and the requests of administrators consist of.
RaRows == [pool : [Networks -> Pools \cup {NoPool}], min : Nat, max : Nat]
ProxyRows == [draft : AddressOrNone, published : AddressOrNone, previous : AddressOrNone, version : Nat]
RequestStages ==
    {"none", "saving", "reading", "syncing", "loading", "publishing", "rolling back", "migrating"}
Changes == {"none", "pool", "min", "max"}
ChangeValues == Pools \cup Limits \cup {NoPool}
SeenWrites == [Records -> Nat]
RecordSets == SUBSET Records
RequestRows ==
    [stage : RequestStages, ra : RaRows, network : Networks, change : Changes, at : Networks,
     value : ChangeValues, proxy : ProxyRows, seen : SeenWrites, left : RecordSets]
\* What is to be saved is a value for what is to be changed.
FitsChange(r) ==
    r.stage = "saving" => /\ r.change # "none"
                          /\ IF r.change = "pool" THEN r.value \in Pools ELSE r.value \in Limits
SettingsTyped ==
    /\ ra \in RaRows /\ network \in Networks /\ featuredPool \in Pools /\ proxy \in ProxyRows
    /\ records \in [Records -> [written : Nat, model : {0, 1}]]
    /\ published \in Seq(Addresses \cup {NoAddress})
    /\ unsynced \in BOOLEAN /\ swapped \in BOOLEAN
RequestsTyped ==
    request \in [Admins -> RequestRows] /\ \A a \in Admins : FitsChange(request[a])

\* While the poller has not been left behind, at most one request is on its way to it, with
\* the settings that are stored; and with none on its way the pool is the network's.
InSync(a) == request[a].stage \in SyncStages
SyncInv ==
    ~unsynced =>
      /\ \A a, b \in Admins : InSync(a) /\ InSync(b) => a = b
      /\ \A a \in Admins : /\ request[a].stage \in {"reading", "syncing"} => request[a].ra = ra
                           /\ request[a].stage \in {"loading", "syncing"} => request[a].network = network
      /\ (\A a \in Admins : ~InSync(a)) /\ ra.pool[network] \in Matching => featuredPool = ra.pool[network]
\* While no two publishings crossed, whoever publishes has read the row that is stored.
PubStages == {"publishing", "rolling back"}
InPublishing(a) == request[a].stage \in PubStages
ProxyInv ==
    ~swapped =>
      \A a \in Admins : InPublishing(a) => /\ request[a].proxy.published = proxy.published
                                           /\ request[a].proxy.version = proxy.version
SettingsInv ==
    SettingsTyped /\ RequestsTyped /\ SyncInv /\ ProxyInv /\ PreviousIsTheLast

LEMMA SettingsConstants ==
  /\ DefaultNetwork \in Networks /\ CorePool \in Pools /\ NoPool \notin Pools /\ Matching \subseteq Pools
  /\ Limits \subseteq Nat /\ DefaultMin \in Nat /\ DefaultMax \in Nat /\ MaxRequests \in Nat
  BY SettingsAssumption

LEMMA NoRequestFits ==
  /\ NoRequest \in RequestRows /\ FitsChange(NoRequest) /\ NoRequest.stage = "none"
  /\ NoRequest.ra = [pool |-> [n \in Networks |-> NoPool], min |-> DefaultMin, max |-> DefaultMax]
<1>1. [pool |-> [n \in Networks |-> NoPool], min |-> DefaultMin, max |-> DefaultMax] \in RaRows
  BY SettingsConstants DEF RaRows
<1>2. [draft |-> NoAddress, published |-> NoAddress, previous |-> NoAddress, version |-> 1] \in ProxyRows
  BY DEF ProxyRows, AddressOrNone
<1>3. [r \in Records |-> 0] \in SeenWrites /\ {} \in RecordSets
  BY DEF SeenWrites, RecordSets
<1>4. "none" \in RequestStages /\ "none" \in Changes /\ NoPool \in ChangeValues
  BY DEF RequestStages, Changes, ChangeValues
<1>5. NoRequest \in RequestRows
  BY <1>1, <1>2, <1>3, <1>4, SettingsConstants DEF NoRequest, RequestRows
<1> QED
  BY <1>5 DEF NoRequest, FitsChange

\* What a request does next, and what it may change, is of the sets its fields are from.
LEMMA FieldSets ==
  /\ "saving" \in RequestStages /\ "reading" \in RequestStages /\ "syncing" \in RequestStages
  /\ "loading" \in RequestStages /\ "publishing" \in RequestStages
  /\ "rolling back" \in RequestStages /\ "migrating" \in RequestStages
  /\ \A c \in {"pool", "min", "max"} : c \in Changes
  /\ \A v \in Pools \cup Limits : v \in ChangeValues
  BY DEF RequestStages, Changes, ChangeValues

LEMMA InitSettingsInv == SettingsInit => SettingsInv
<1> SUFFICES ASSUME SettingsInit PROVE SettingsInv
  OBVIOUS
<1>1. /\ ra = NoRequest.ra /\ network = DefaultNetwork /\ featuredPool = CorePool
      /\ records = [r \in Records |-> [written |-> 0, model |-> 0]]
      /\ request = [a \in Admins |-> NoRequest]
      /\ unsynced = FALSE /\ swapped = FALSE
  BY DEF SettingsInit
<1>2. ra \in RaRows /\ ra.pool[network] = NoPool
  BY <1>1, NoRequestFits, SettingsConstants DEF RequestRows
<1>3. /\ proxy \in ProxyRows /\ published \in Seq(Addresses \cup {NoAddress})
      /\ PreviousIsTheLast
  <2>1. CASE proxy = NoRequest.proxy /\ published = <<>>
    <3>1. proxy = [draft |-> NoAddress, published |-> NoAddress, previous |-> NoAddress, version |-> 1]
      BY <2>1 DEF NoRequest
    <3>2. Len(published) = 0
      BY <2>1
    <3> QED
      BY <2>1, <3>1, <3>2 DEF ProxyRows, AddressOrNone, PreviousIsTheLast
  <2>2. CASE \E first, second \in Addresses :
               /\ proxy = [draft |-> second, published |-> second, previous |-> first, version |-> 3]
               /\ published = <<first, second>>
    <3>1. PICK first, second \in Addresses :
               /\ proxy = [draft |-> second, published |-> second, previous |-> first, version |-> 3]
               /\ published = <<first, second>>
      BY <2>2
    <3>2. Len(published) = 2 /\ published[2] = second /\ published[1] = first
      BY <3>1
    <3>3. published \in Seq(Addresses \cup {NoAddress})
      BY <3>1
    <3>4. PreviousIsTheLast
      BY <3>1, <3>2 DEF PreviousIsTheLast
    <3> QED
      BY <3>1, <3>3, <3>4 DEF ProxyRows, AddressOrNone
  <2> QED
    BY <2>1, <2>2 DEF SettingsInit
<1>4. records \in [Records -> [written : Nat, model : {0, 1}]]
  BY <1>1
<1>5. SettingsTyped
  BY <1>1, <1>2, <1>3, <1>4, SettingsConstants DEF SettingsTyped
<1>6. RequestsTyped /\ \A a \in Admins : request[a].stage = "none"
  BY <1>1, NoRequestFits DEF RequestsTyped
<1>7. SyncInv /\ ProxyInv
  <2>1. ra.pool[network] \notin Matching
    BY <1>2, SettingsConstants
  <2> QED
    BY <1>6, <2>1 DEF SyncInv, ProxyInv, InSync, InPublishing, SyncStages, PubStages
<1> QED
  BY <1>3, <1>5, <1>6, <1>7 DEF SettingsInv

\* One request moves, the others stay.
LEMMA RequestMoves ==
  ASSUME NEW a \in Admins, NEW r, RequestsTyped, Moves(a, r), r \in RequestRows, FitsChange(r)
  PROVE  /\ RequestsTyped' /\ request'[a] = r
         /\ \A b \in Admins \ {a} : request'[b] = request[b]
<1>1. request' = [request EXCEPT ![a] = r]
  BY DEF Moves
<1>2. /\ request' \in [Admins -> RequestRows] /\ request'[a] = r
      /\ \A b \in Admins \ {a} : request'[b] = request[b]
  BY <1>1 DEF RequestsTyped
<1>3. \A b \in Admins : FitsChange(request'[b])
  BY <1>2 DEF RequestsTyped
<1> QED
  BY <1>2, <1>3 DEF RequestsTyped, FitsChange

\* The other requests that are on their way to the poller, or publishing, do not change.
OthersStay(a) == \A b \in Admins \ {a} : request'[b] = request[b]
LEMMA SyncApart ==
  ASSUME NEW a \in Admins, SyncInv, OthersStay(a),
         UNCHANGED <<ra, network, featuredPool, unsynced>>,
         ~InSync(a), request'[a].stage \notin SyncStages
  PROVE  SyncInv'
<1> SUFFICES ASSUME ~unsynced PROVE SyncInv'
  BY DEF SyncInv
<1>1. \A b \in Admins : InSync(b)' => b # a /\ InSync(b) /\ request'[b] = request[b]
  BY DEF InSync, OthersStay
<1>2. \A b \in Admins : InSync(b) => InSync(b)'
  BY DEF InSync, OthersStay
<1>3. \A b, c \in Admins : InSync(b)' /\ InSync(c)' => b = c
  BY <1>1 DEF SyncInv
<1>4. \A b \in Admins :
        /\ request'[b].stage \in {"reading", "syncing"} => request'[b].ra = ra
        /\ request'[b].stage \in {"loading", "syncing"} => request'[b].network = network
  <2> SUFFICES ASSUME NEW b \in Admins, request'[b].stage \in SyncStages
               PROVE  /\ request'[b].stage \in {"reading", "syncing"} => request'[b].ra = ra
                      /\ request'[b].stage \in {"loading", "syncing"} => request'[b].network = network
    BY DEF SyncStages
  <2>1. request'[b] = request[b]
    BY <1>1 DEF InSync
  <2> QED
    BY <2>1 DEF SyncInv
<1>5. (\A b \in Admins : ~InSync(b)') /\ ra.pool[network] \in Matching => featuredPool = ra.pool[network]
  BY <1>2 DEF SyncInv
<1> QED
  BY <1>3, <1>4, <1>5 DEF SyncInv

LEMMA ProxyApart ==
  ASSUME NEW a \in Admins, ProxyInv, PreviousIsTheLast, OthersStay(a),
         UNCHANGED <<proxy, published, swapped>>, request'[a].stage \notin PubStages
  PROVE  ProxyInv' /\ PreviousIsTheLast'
<1>1. PreviousIsTheLast'
  BY DEF PreviousIsTheLast
<1>2. \A b \in Admins : InPublishing(b)' => InPublishing(b) /\ request'[b] = request[b]
  BY DEF InPublishing, OthersStay
<1> QED
  BY <1>1, <1>2 DEF ProxyInv

LEMMA InitialStages ==
  /\ "none" \notin SyncStages /\ "saving" \notin SyncStages /\ "none" \notin PubStages
  /\ "saving" \notin PubStages /\ "migrating" \notin SyncStages /\ "migrating" \notin PubStages
  /\ \A s \in SyncStages : s \notin PubStages
  /\ \A s \in PubStages : s \notin SyncStages
  BY DEF SyncStages, PubStages

\* Steps about the settings of RA.
LEMMA UpdateRaStep == ASSUME NEW a \in Admins PROVE SettingsInv /\ UpdateRa(a) => SettingsInv'
<1> SUFFICES ASSUME SettingsInv, UpdateRa(a) PROVE SettingsInv'
  OBVIOUS
<1>1. /\ UNCHANGED <<ra, network, featuredPool, proxy, records, published, unsynced, swapped>>
      /\ request[a].stage = "none"
  BY DEF UpdateRa, Free
<1>2. PICK change \in {"pool", "min", "max"}, at \in Networks, value \in Pools \cup Limits :
          /\ IF change = "pool" THEN value \in Pools ELSE value \in Limits /\ at = DefaultNetwork
          /\ Moves(a, [NoRequest EXCEPT !.stage = "saving", !.change = change, !.at = at, !.value = value])
  BY DEF UpdateRa
<1>3. PICK r : r = [NoRequest EXCEPT !.stage = "saving", !.change = change, !.at = at, !.value = value]
  OBVIOUS
<1>4. r \in RequestRows /\ r.stage = "saving" /\ r.change = change /\ r.value = value
  BY <1>2, <1>3, NoRequestFits, FieldSets DEF RequestRows
<1>5. FitsChange(r)
  BY <1>2, <1>4 DEF FitsChange
<1>6. RequestsTyped' /\ request'[a] = r /\ OthersStay(a)
  BY <1>2, <1>3, <1>4, <1>5, RequestMoves DEF SettingsInv, OthersStay
<1>7. SyncInv' /\ ProxyInv' /\ PreviousIsTheLast'
  BY <1>1, <1>4, <1>6, SyncApart, ProxyApart, InitialStages DEF SettingsInv, InSync
<1>8. SettingsTyped'
  BY <1>1 DEF SettingsInv, SettingsTyped
<1> QED
  BY <1>6, <1>7, <1>8 DEF SettingsInv

LEMMA ChangedFits ==
  ASSUME NEW row \in RaRows, NEW r \in RequestRows, FitsChange(r), r.stage = "saving"
  PROVE  Changed(row, r.change, r.at, r.value) \in RaRows
<1>1. Limits \subseteq Nat
  BY SettingsConstants
<1>2. PICK change, at, value : change = r.change /\ at = r.at /\ value = r.value
  OBVIOUS
<1>3. /\ change \in {"pool", "min", "max"} /\ at \in Networks
      /\ IF change = "pool" THEN value \in Pools ELSE value \in Nat
  BY <1>1, <1>2 DEF FitsChange, RequestRows, Changes
<1>4. CASE change = "pool"
  <2>1. Changed(row, change, at, value) = [row EXCEPT !.pool[at] = value]
    BY <1>4 DEF Changed
  <2>2. [row EXCEPT !.pool[at] = value] \in RaRows
    BY <1>3, <1>4 DEF RaRows
  <2> QED
    BY <1>2, <2>1, <2>2
<1>5. CASE change = "min"
  <2>1. Changed(row, change, at, value) = [row EXCEPT !.min = value]
    BY <1>5 DEF Changed
  <2>2. [row EXCEPT !.min = value] \in RaRows
    BY <1>3, <1>5 DEF RaRows
  <2> QED
    BY <1>2, <2>1, <2>2
<1>6. CASE change = "max"
  <2>1. Changed(row, change, at, value) = [row EXCEPT !.max = value]
    BY <1>6 DEF Changed
  <2>2. [row EXCEPT !.max = value] \in RaRows
    BY <1>3, <1>6 DEF RaRows
  <2> QED
    BY <1>2, <2>1, <2>2
<1> QED
  BY <1>3, <1>4, <1>5, <1>6

\* Whoever starts towards the poller while nobody else is on the way is the only one, and
\* has what is stored.
LEMMA OnlyOneSyncs ==
  ASSUME NEW a \in Admins, OthersStay(a), ~unsynced' => \A b \in Admins \ {a} : ~InSync(b),
         request'[a].stage \in SyncStages,
         request'[a].stage \in {"reading", "syncing"} => request'[a].ra = ra',
         request'[a].stage \in {"loading", "syncing"} => request'[a].network = network'
  PROVE  SyncInv'
<1> SUFFICES ASSUME ~unsynced' PROVE SyncInv'
  BY DEF SyncInv
<1>1. \A b \in Admins : InSync(b)' => b = a
  BY DEF InSync, OthersStay
<1>2. InSync(a)'
  BY DEF InSync
<1>3. \A b \in Admins : request'[b].stage \in {"reading", "syncing", "loading"} => b = a
  BY <1>1 DEF InSync, SyncStages
<1> QED
  BY <1>1, <1>2, <1>3 DEF SyncInv

LEMMA SaveRaStep == ASSUME NEW a \in Admins PROVE SettingsInv /\ SaveRa(a) => SettingsInv'
<1> SUFFICES ASSUME SettingsInv, SaveRa(a) PROVE SettingsInv'
  OBVIOUS
<1>1. PICK row : row = Changed(ra, request[a].change, request[a].at, request[a].value)
  OBVIOUS
<1>2. /\ UNCHANGED <<network, featuredPool, proxy, records, published, swapped>>
      /\ ra' = row /\ request[a].stage = "saving"
      /\ unsynced' = (unsynced \/ Others(a, SyncStages))
      /\ Moves(a, [request[a] EXCEPT !.stage = "reading", !.ra = row])
  BY <1>1 DEF SaveRa, Stage
<1>3. row \in RaRows
  BY <1>1, <1>2, ChangedFits DEF SettingsInv, SettingsTyped, RequestsTyped
<1>4. PICK r : r = [request[a] EXCEPT !.stage = "reading", !.ra = row]
  OBVIOUS
<1>5. r \in RequestRows /\ r.stage = "reading" /\ r.ra = row
  <2>1. request[a] \in RequestRows
    BY DEF SettingsInv, RequestsTyped
  <2> QED
    BY <1>3, <1>4, <2>1, FieldSets DEF RequestRows
<1>6. FitsChange(r)
  BY <1>5 DEF FitsChange
<1>7. RequestsTyped' /\ request'[a] = r /\ OthersStay(a)
  BY <1>2, <1>4, <1>5, <1>6, RequestMoves DEF SettingsInv, OthersStay
<1>8. SyncInv'
  BY <1>2, <1>5, <1>7, OnlyOneSyncs DEF Others, InSync, SyncStages
<1>9. ProxyInv' /\ PreviousIsTheLast'
  BY <1>2, <1>5, <1>7, ProxyApart DEF SettingsInv, PubStages
<1>10. SettingsTyped'
  <2>1. unsynced' \in BOOLEAN
    BY <1>2
  <2> QED
    BY <1>2, <1>3, <2>1 DEF SettingsInv, SettingsTyped
<1> QED
  BY <1>7, <1>8, <1>9, <1>10 DEF SettingsInv

\* On the way, one thing that is stored is read after the other.
LEMMA GoesOnSyncing ==
  ASSUME NEW a \in Admins, NEW r, SettingsInv, Moves(a, r), r \in RequestRows, FitsChange(r),
         InSync(a), r.stage = "syncing",
         UNCHANGED <<ra, network, featuredPool, proxy, records, published, unsynced, swapped>>,
         ~unsynced => r.ra = ra /\ r.network = network
  PROVE  SettingsInv'
<1>1. RequestsTyped' /\ request'[a] = r /\ OthersStay(a)
  BY RequestMoves DEF SettingsInv, OthersStay
<1>2. SyncInv'
  <2>1. ~unsynced' => \A b \in Admins \ {a} : ~InSync(b)
    BY DEF SettingsInv, SyncInv
  <2>2. CASE unsynced'
    BY <2>2 DEF SyncInv
  <2>3. CASE ~unsynced'
    BY <1>1, <2>1, <2>3, OnlyOneSyncs DEF SyncStages
  <2> QED
    BY <2>2, <2>3
<1>3. ProxyInv' /\ PreviousIsTheLast'
  BY <1>1, ProxyApart DEF SettingsInv, PubStages
<1>4. SettingsTyped'
  BY DEF SettingsInv, SettingsTyped
<1> QED
  BY <1>1, <1>2, <1>3, <1>4 DEF SettingsInv

LEMMA ReadNetworkStep == ASSUME NEW a \in Admins PROVE SettingsInv /\ ReadNetwork(a) => SettingsInv'
<1> SUFFICES ASSUME SettingsInv, ReadNetwork(a) PROVE SettingsInv'
  OBVIOUS
<1>1. PICK r : r = [request[a] EXCEPT !.stage = "syncing", !.network = network]
  OBVIOUS
<1>2. /\ UNCHANGED <<ra, network, featuredPool, proxy, records, published, unsynced, swapped>>
      /\ request[a].stage = "reading" /\ Moves(a, r)
  BY <1>1 DEF ReadNetwork, Stage
<1>3. request[a] \in RequestRows /\ network \in Networks
  BY DEF SettingsInv, RequestsTyped, SettingsTyped
<1>4. /\ r \in RequestRows /\ r.stage = "syncing" /\ r.network = network /\ r.ra = request[a].ra
  BY <1>1, <1>3, FieldSets DEF RequestRows
<1>5. ~unsynced => r.ra = ra
  BY <1>2, <1>4 DEF SettingsInv, SyncInv
<1>6. FitsChange(r) /\ InSync(a)
  BY <1>2, <1>4 DEF FitsChange, InSync, SyncStages
<1> QED
  BY <1>2, <1>4, <1>5, <1>6, GoesOnSyncing

LEMMA LoadRaStep == ASSUME NEW a \in Admins PROVE SettingsInv /\ LoadRa(a) => SettingsInv'
<1> SUFFICES ASSUME SettingsInv, LoadRa(a) PROVE SettingsInv'
  OBVIOUS
<1>1. PICK r : r = [request[a] EXCEPT !.stage = "syncing", !.ra = ra]
  OBVIOUS
<1>2. /\ UNCHANGED <<ra, network, featuredPool, proxy, records, published, unsynced, swapped>>
      /\ request[a].stage = "loading" /\ Moves(a, r)
  BY <1>1 DEF LoadRa, Stage
<1>3. request[a] \in RequestRows /\ ra \in RaRows
  BY DEF SettingsInv, RequestsTyped, SettingsTyped
<1>4. /\ r \in RequestRows /\ r.stage = "syncing" /\ r.ra = ra /\ r.network = request[a].network
  BY <1>1, <1>3, FieldSets DEF RequestRows
<1>5. ~unsynced => r.network = network
  BY <1>2, <1>4 DEF SettingsInv, SyncInv
<1>6. FitsChange(r) /\ InSync(a)
  BY <1>2, <1>4 DEF FitsChange, InSync, SyncStages
<1> QED
  BY <1>2, <1>4, <1>5, <1>6, GoesOnSyncing

LEMMA SetNetworkStep == ASSUME NEW a \in Admins PROVE SettingsInv /\ SetNetwork(a) => SettingsInv'
<1> SUFFICES ASSUME SettingsInv, SetNetwork(a) PROVE SettingsInv'
  OBVIOUS
<1>1. PICK n \in Networks : /\ network' = n
                            /\ Moves(a, [NoRequest EXCEPT !.stage = "loading", !.network = n])
  BY DEF SetNetwork
<1>2. /\ UNCHANGED <<ra, featuredPool, proxy, records, published, swapped>>
      /\ unsynced' = (unsynced \/ Others(a, SyncStages))
  BY DEF SetNetwork
<1>3. PICK r : r = [NoRequest EXCEPT !.stage = "loading", !.network = n]
  OBVIOUS
<1>4. r \in RequestRows /\ r.stage = "loading" /\ r.network = n
  BY <1>3, NoRequestFits, FieldSets DEF RequestRows
<1>5. FitsChange(r)
  BY <1>4 DEF FitsChange
<1>6. RequestsTyped' /\ request'[a] = r /\ OthersStay(a)
  BY <1>1, <1>3, <1>4, <1>5, RequestMoves DEF SettingsInv, OthersStay
<1>7. SyncInv'
  BY <1>1, <1>2, <1>4, <1>6, OnlyOneSyncs DEF Others, InSync, SyncStages
<1>8. ProxyInv' /\ PreviousIsTheLast'
  BY <1>2, <1>4, <1>6, ProxyApart DEF SettingsInv, PubStages
<1>9. SettingsTyped'
  <2>1. unsynced' \in BOOLEAN
    BY <1>2
  <2> QED
    BY <1>1, <1>2, <2>1 DEF SettingsInv, SettingsTyped
<1> QED
  BY <1>6, <1>7, <1>8, <1>9 DEF SettingsInv

LEMMA ResetHeaderStep == ASSUME NEW a \in Admins PROVE SettingsInv /\ ResetHeader(a) => SettingsInv'
<1> SUFFICES ASSUME SettingsInv, ResetHeader(a) PROVE SettingsInv'
  OBVIOUS
<1>1. /\ UNCHANGED <<ra, featuredPool, proxy, records, request, published, swapped>>
      /\ network' = DefaultNetwork
      /\ unsynced' = (unsynced \/ network # DefaultNetwork \/ Others(a, SyncStages))
  BY DEF ResetHeader
<1>2. RequestsTyped' /\ ProxyInv' /\ PreviousIsTheLast'
  BY <1>1 DEF SettingsInv, RequestsTyped, FitsChange, ProxyInv, InPublishing, PreviousIsTheLast
<1>3. SettingsTyped'
  <2>1. unsynced' \in BOOLEAN
    BY <1>1
  <2> QED
    BY <1>1, <2>1, SettingsConstants DEF SettingsInv, SettingsTyped
<1>4. SyncInv'
  <2> SUFFICES ASSUME ~unsynced' PROVE SyncInv'
    BY DEF SyncInv
  <2>1. ~unsynced /\ network' = network
    BY <1>1
  <2> QED
    BY <1>1, <2>1 DEF SettingsInv, SyncInv, InSync
<1> QED
  BY <1>2, <1>3, <1>4 DEF SettingsInv

LEMMA WantedIs ==
  ASSUME NEW row \in RaRows, NEW n \in Networks, NEW f \in Pools
  PROVE  Wanted(row, n, f) \in Pools /\ (row.pool[n] \in Matching => Wanted(row, n, f) = row.pool[n])
<1>1. row.pool[n] \in Matching => row.pool[n] # NoPool
  BY SettingsConstants
<1> QED
  BY <1>1, SettingsConstants DEF Wanted

LEMMA SyncStep == ASSUME NEW a \in Admins PROVE SettingsInv /\ Sync(a) => SettingsInv'
<1> SUFFICES ASSUME SettingsInv, Sync(a) PROVE SettingsInv'
  OBVIOUS
<1>1. /\ UNCHANGED <<ra, network, proxy, records, published, swapped>> /\ Moves(a, NoRequest)
      /\ request[a].stage = "syncing"
  BY DEF Sync, Stage, Finishes
<1>2. RequestsTyped' /\ request'[a] = NoRequest /\ OthersStay(a)
  BY <1>1, RequestMoves, NoRequestFits DEF SettingsInv, OthersStay
<1>3. ProxyInv' /\ PreviousIsTheLast'
  BY <1>1, <1>2, ProxyApart, NoRequestFits, InitialStages DEF SettingsInv
<1>4. request[a] \in RequestRows /\ ra \in RaRows /\ network \in Networks /\ featuredPool \in Pools
  BY DEF SettingsInv, RequestsTyped, SettingsTyped
<1>5. PICK row \in RaRows, n \in Networks : row = request[a].ra /\ n = request[a].network
  BY <1>4 DEF RequestRows
<1>6. CASE unsynced' = TRUE /\ featuredPool' = featuredPool
  BY <1>1, <1>2, <1>3, <1>6 DEF SettingsInv, SettingsTyped, SyncInv
<1>7. CASE /\ featuredPool' = Wanted(row, n, featuredPool)
           /\ unsynced' = (unsynced /\ (\/ Others(a, SyncStages) \/ row # ra \/ n # network))
  <2>1. featuredPool' \in Pools
    BY <1>4, <1>5, <1>7, WantedIs
  <2>2. unsynced' \in BOOLEAN
    BY <1>7 DEF SettingsInv, SettingsTyped
  <2>3. SettingsTyped'
    BY <1>1, <2>1, <2>2 DEF SettingsInv, SettingsTyped
  <2>4. SyncInv'
    <3> SUFFICES ASSUME ~unsynced' PROVE SyncInv'
      BY DEF SyncInv
    <3>1. InSync(a)
      BY <1>1 DEF InSync, SyncStages
    <3>2. row = ra /\ n = network /\ \A b \in Admins \ {a} : ~InSync(b)
      <4>1. CASE unsynced
        BY <1>7, <4>1 DEF Others, InSync
      <4>2. CASE ~unsynced
        BY <1>1, <1>5, <3>1, <4>2 DEF SettingsInv, SyncInv
      <4> QED
        BY <4>1, <4>2
    <3>3. \A b \in Admins : request'[b].stage \notin SyncStages
      BY <1>2, <3>2, NoRequestFits, InitialStages DEF InSync, OthersStay
    <3>4. ra.pool[network] \in Matching => featuredPool' = ra.pool[network]
      BY <1>4, <1>7, <3>2, WantedIs
    <3> QED
      BY <1>1, <3>3, <3>4 DEF SyncInv, InSync, SyncStages
  <2> QED
    BY <1>2, <1>3, <2>3, <2>4 DEF SettingsInv
<1> QED
  BY <1>5, <1>6, <1>7 DEF Sync

\* Steps about the address.
LEMMA SaveDraftStep == ASSUME NEW a \in Admins PROVE SettingsInv /\ SaveDraft(a) => SettingsInv'
<1> SUFFICES ASSUME SettingsInv, SaveDraft(a) PROVE SettingsInv'
  OBVIOUS
<1>1. /\ UNCHANGED <<ra, network, featuredPool, records, request, published, unsynced, swapped>>
  BY DEF SaveDraft
<1>2. PICK address \in AddressOrNone : proxy' = [proxy EXCEPT !.draft = address]
  BY DEF SaveDraft
<1>3. proxy \in ProxyRows
  BY DEF SettingsInv, SettingsTyped
<1>4. /\ proxy' \in ProxyRows /\ proxy'.published = proxy.published
      /\ proxy'.previous = proxy.previous /\ proxy'.version = proxy.version
  BY <1>2, <1>3 DEF ProxyRows
<1>5. SettingsTyped' /\ RequestsTyped'
  BY <1>1, <1>4 DEF SettingsInv, SettingsTyped, RequestsTyped, FitsChange
<1>6. SyncInv' /\ ProxyInv'
  BY <1>1, <1>4 DEF SettingsInv, SyncInv, InSync, ProxyInv, InPublishing
<1>7. PreviousIsTheLast'
  BY <1>1, <1>4 DEF SettingsInv, PreviousIsTheLast
<1> QED
  BY <1>5, <1>6, <1>7 DEF SettingsInv

LEMMA ReadsProxyStep ==
  ASSUME NEW a \in Admins, NEW stage \in PubStages
  PROVE  SettingsInv /\ ReadsProxy(a, stage) => SettingsInv'
<1> SUFFICES ASSUME SettingsInv, ReadsProxy(a, stage) PROVE SettingsInv'
  OBVIOUS
<1>1. PICK r : r = [NoRequest EXCEPT !.stage = stage, !.proxy = proxy]
  OBVIOUS
<1>2. /\ UNCHANGED <<ra, network, featuredPool, proxy, records, published, unsynced, swapped>>
      /\ Moves(a, r) /\ request[a].stage = "none"
  BY <1>1 DEF ReadsProxy, Free
<1>3. proxy \in ProxyRows /\ stage \in RequestStages
  BY DEF SettingsInv, SettingsTyped, PubStages, RequestStages
<1>4. r \in RequestRows /\ r.stage = stage /\ r.proxy = proxy
  BY <1>1, <1>3, NoRequestFits, FieldSets DEF RequestRows
<1>5. FitsChange(r)
  BY <1>4 DEF FitsChange, PubStages
<1>6. RequestsTyped' /\ request'[a] = r /\ OthersStay(a)
  BY <1>2, <1>4, <1>5, RequestMoves DEF SettingsInv, OthersStay
<1>7. SyncInv'
  BY <1>2, <1>4, <1>6, SyncApart, InitialStages DEF SettingsInv, InSync
<1>8. ProxyInv' /\ PreviousIsTheLast'
  BY <1>2, <1>4, <1>6 DEF SettingsInv, ProxyInv, InPublishing, OthersStay, PreviousIsTheLast
<1>9. SettingsTyped'
  BY <1>2 DEF SettingsInv, SettingsTyped
<1> QED
  BY <1>6, <1>7, <1>8, <1>9 DEF SettingsInv

LEMMA PublishesStep ==
  ASSUME NEW a \in Admins, NEW address \in AddressOrNone, NEW draft \in AddressOrNone,
         InPublishing(a)
  PROVE  SettingsInv /\ Publishes(a, address, draft) => SettingsInv'
<1> SUFFICES ASSUME SettingsInv, Publishes(a, address, draft) PROVE SettingsInv'
  OBVIOUS
<1>1. PICK r : r = request[a]
  OBVIOUS
<1>2. /\ UNCHANGED <<ra, network, featuredPool, records, unsynced>> /\ Moves(a, NoRequest)
      /\ proxy' = [draft |-> draft, published |-> address, previous |-> r.proxy.published,
                   version |-> r.proxy.version + 1]
      /\ published' = Append(published, address)
      /\ swapped' = (swapped \/ Others(a, PubStages))
  BY <1>1 DEF Publishes, Finishes, PubStages
<1>3. r \in RequestRows /\ published \in Seq(Addresses \cup {NoAddress})
  BY <1>1 DEF SettingsInv, RequestsTyped, SettingsTyped
<1>4. r.proxy.published \in AddressOrNone /\ r.proxy.version \in Nat
  BY <1>3 DEF RequestRows, ProxyRows
<1>5. proxy' \in ProxyRows
  BY <1>2, <1>4 DEF ProxyRows
<1>6. RequestsTyped' /\ request'[a] = NoRequest /\ OthersStay(a)
  BY <1>2, RequestMoves, NoRequestFits DEF SettingsInv, OthersStay
<1>7. SyncInv'
  BY <1>2, <1>6, SyncApart, NoRequestFits, InitialStages DEF SettingsInv, InSync, InPublishing
<1>8. /\ published' \in Seq(Addresses \cup {NoAddress}) /\ Len(published') = Len(published) + 1
      /\ published'[Len(published) + 1] = address
      /\ \A k \in 1 .. Len(published) : published'[k] = published[k]
  BY <1>2, <1>3 DEF AddressOrNone
<1>9. SettingsTyped'
  <2>1. swapped' \in BOOLEAN
    BY <1>2
  <2> QED
    BY <1>2, <1>5, <1>8, <2>1 DEF SettingsInv, SettingsTyped
<1>10. ProxyInv'
  <2> SUFFICES ASSUME ~swapped', NEW b \in Admins, InPublishing(b)' PROVE FALSE
    BY DEF ProxyInv
  <2>1. b # a
    BY <1>6, NoRequestFits, InitialStages DEF InPublishing
  <2> QED
    BY <1>2, <1>6, <2>1 DEF InPublishing, Others, OthersStay
<1>11. PreviousIsTheLast'
  <2> SUFFICES ASSUME ~swapped' PROVE PreviousIsTheLast'
    BY DEF PreviousIsTheLast
  <2>1. PICK n \in Nat : n = Len(published)
    BY <1>3
  <2>2. ~swapped /\ r.proxy.published = proxy.published /\ r.proxy.version = proxy.version
    BY <1>1, <1>2 DEF SettingsInv, ProxyInv
  <2>3. /\ proxy.version = n + 1
        /\ proxy.published = IF n = 0 THEN NoAddress ELSE published[n]
    BY <2>1, <2>2 DEF SettingsInv, PreviousIsTheLast
  <2>4. /\ proxy'.version = n + 2 /\ proxy'.published = address
        /\ proxy'.previous = IF n = 0 THEN NoAddress ELSE published[n]
    BY <1>2, <2>2, <2>3
  <2>5. Len(published') = n + 1 /\ published'[n + 1] = address
    BY <1>8, <2>1
  <2>6. n # 0 => published'[n] = published[n]
    BY <1>8, <2>1
  <2>7. proxy'.version = (n + 1) + 1 /\ n + 1 # 0
    BY <2>4
  <2>8. proxy'.previous = IF n + 1 < 2 THEN NoAddress ELSE published'[(n + 1) - 1]
    BY <2>4, <2>6
  <2> QED
    BY <2>4, <2>5, <2>7, <2>8 DEF PreviousIsTheLast
<1> QED
  BY <1>6, <1>7, <1>9, <1>10, <1>11 DEF SettingsInv

LEMMA PublishStep == ASSUME NEW a \in Admins PROVE SettingsInv /\ Publish(a) => SettingsInv'
<1> SUFFICES ASSUME SettingsInv, Publish(a) PROVE SettingsInv'
  OBVIOUS
<1>1. /\ InPublishing(a) /\ Publishes(a, request[a].proxy.draft, proxy.draft)
  BY DEF Publish, Stage, InPublishing, PubStages
<1>2. request[a].proxy.draft \in AddressOrNone /\ proxy.draft \in AddressOrNone
  BY DEF SettingsInv, RequestsTyped, RequestRows, ProxyRows, SettingsTyped
<1> QED
  BY <1>1, <1>2, PublishesStep

LEMMA RollbackStep == ASSUME NEW a \in Admins PROVE SettingsInv /\ Rollback(a) => SettingsInv'
<1> SUFFICES ASSUME SettingsInv, Rollback(a) PROVE SettingsInv'
  OBVIOUS
<1>1. /\ InPublishing(a)
      /\ Publishes(a, request[a].proxy.previous, request[a].proxy.previous)
  BY DEF Rollback, Stage, InPublishing, PubStages
<1>2. request[a].proxy.previous \in AddressOrNone
  BY DEF SettingsInv, RequestsTyped, RequestRows, ProxyRows
<1> QED
  BY <1>1, <1>2, PublishesStep

\* Steps about the records, and a server that stops.
LEMMA MigrateReadsStep == ASSUME NEW a \in Admins PROVE SettingsInv /\ MigrateReads(a) => SettingsInv'
<1> SUFFICES ASSUME SettingsInv, MigrateReads(a) PROVE SettingsInv'
  OBVIOUS
<1>1. PICK r : r = [NoRequest EXCEPT !.stage = "migrating", !.left = Records,
                      !.seen = [x \in Records |-> records[x].written]]
  OBVIOUS
<1>2. /\ UNCHANGED <<ra, network, featuredPool, proxy, records, published, unsynced, swapped>>
      /\ Moves(a, r) /\ request[a].stage = "none"
  BY <1>1 DEF MigrateReads, Free
<1>3. [x \in Records |-> records[x].written] \in SeenWrites /\ Records \in RecordSets
  BY DEF SettingsInv, SettingsTyped, SeenWrites, RecordSets
<1>4. r \in RequestRows /\ r.stage = "migrating"
  BY <1>1, <1>3, NoRequestFits, FieldSets DEF RequestRows
<1>5. FitsChange(r)
  BY <1>4 DEF FitsChange
<1>6. RequestsTyped' /\ request'[a] = r /\ OthersStay(a)
  BY <1>2, <1>4, <1>5, RequestMoves DEF SettingsInv, OthersStay
<1>7. SyncInv' /\ ProxyInv' /\ PreviousIsTheLast'
  BY <1>2, <1>4, <1>6, SyncApart, ProxyApart, InitialStages DEF SettingsInv, InSync
<1>8. SettingsTyped'
  BY <1>2 DEF SettingsInv, SettingsTyped
<1> QED
  BY <1>6, <1>7, <1>8 DEF SettingsInv

LEMMA MigrateWritesStep == ASSUME NEW a \in Admins PROVE SettingsInv /\ MigrateWrites(a) => SettingsInv'
<1> SUFFICES ASSUME SettingsInv, MigrateWrites(a) PROVE SettingsInv'
  OBVIOUS
<1>1. /\ UNCHANGED <<ra, network, featuredPool, proxy, published, unsynced, swapped>>
      /\ request[a].stage = "migrating"
  BY DEF MigrateWrites, Stage
<1>2. request[a] \in RequestRows /\ records \in [Records -> [written : Nat, model : {0, 1}]]
  BY DEF SettingsInv, RequestsTyped, SettingsTyped
<1>3. PICK x \in request[a].left :
          /\ records' = [records EXCEPT ![x] = [written |-> request[a].seen[x], model |-> 1]]
          /\ \/ Moves(a, NoRequest)
             \/ Moves(a, [request[a] EXCEPT !.left = request[a].left \ {x}])
  BY DEF MigrateWrites, Finishes
<1>4. records' \in [Records -> [written : Nat, model : {0, 1}]]
  <2>1. x \in Records /\ request[a].seen[x] \in Nat
    <3>1. request[a].left \in RecordSets /\ request[a].seen \in SeenWrites
      BY <1>2 DEF RequestRows
    <3> QED
      BY <1>3, <3>1 DEF RecordSets, SeenWrites
  <2>2. [written |-> request[a].seen[x], model |-> 1] \in [written : Nat, model : {0, 1}]
    BY <2>1
  <2> QED
    BY <1>2, <1>3, <2>1, <2>2
<1>5. PICK r \in RequestRows : Moves(a, r) /\ r.stage \in {"none", "migrating"}
  <2>1. CASE Moves(a, NoRequest)
    BY <2>1, NoRequestFits
  <2>2. CASE Moves(a, [request[a] EXCEPT !.left = request[a].left \ {x}])
    <3>1. PICK r : r = [request[a] EXCEPT !.left = request[a].left \ {x}]
      OBVIOUS
    <3>2. r \in RequestRows /\ r.stage = request[a].stage
      <4>1. request[a].left \ {x} \in RecordSets
        <5>1. request[a].left \in RecordSets
          BY <1>2 DEF RequestRows
        <5> QED
          BY <5>1 DEF RecordSets
      <4> QED
        BY <1>2, <3>1, <4>1 DEF RequestRows
    <3> QED
      BY <1>1, <2>2, <3>1, <3>2
  <2> QED
    BY <1>3, <2>1, <2>2
<1>6. FitsChange(r)
  BY <1>5 DEF FitsChange
<1>7. RequestsTyped' /\ request'[a] = r /\ OthersStay(a)
  BY <1>5, <1>6, RequestMoves DEF SettingsInv, OthersStay
<1>8. SyncInv' /\ ProxyInv' /\ PreviousIsTheLast'
  BY <1>1, <1>5, <1>7, SyncApart, ProxyApart, InitialStages DEF SettingsInv, InSync
<1>9. SettingsTyped'
  BY <1>1, <1>4 DEF SettingsInv, SettingsTyped
<1> QED
  BY <1>7, <1>8, <1>9 DEF SettingsInv

LEMMA RecordGrowsStep == ASSUME NEW x \in Records PROVE SettingsInv /\ RecordGrows(x) => SettingsInv'
<1> SUFFICES ASSUME SettingsInv, RecordGrows(x) PROVE SettingsInv'
  OBVIOUS
<1>1. /\ UNCHANGED <<ra, network, featuredPool, proxy, request, published, unsynced, swapped>>
      /\ records' = [records EXCEPT ![x].written = @ + 1]
  BY DEF RecordGrows
<1>2. records' \in [Records -> [written : Nat, model : {0, 1}]]
  BY <1>1 DEF SettingsInv, SettingsTyped
<1>3. SettingsTyped' /\ RequestsTyped'
  BY <1>1, <1>2 DEF SettingsInv, SettingsTyped, RequestsTyped, FitsChange
<1> QED
  BY <1>1, <1>3 DEF SettingsInv, SyncInv, InSync, ProxyInv, InPublishing, PreviousIsTheLast

LEMMA RequestBreaksStep == ASSUME NEW a \in Admins PROVE SettingsInv /\ RequestBreaks(a) => SettingsInv'
<1> SUFFICES ASSUME SettingsInv, RequestBreaks(a) PROVE SettingsInv'
  OBVIOUS
<1>1. /\ UNCHANGED <<ra, network, featuredPool, proxy, records, published, swapped>>
      /\ Moves(a, NoRequest) /\ unsynced' = (unsynced \/ InSync(a))
  BY DEF RequestBreaks, Finishes, InSync
<1>2. RequestsTyped' /\ request'[a] = NoRequest /\ OthersStay(a)
  BY <1>1, RequestMoves, NoRequestFits DEF SettingsInv, OthersStay
<1>3. ProxyInv' /\ PreviousIsTheLast'
  BY <1>1, <1>2, ProxyApart, NoRequestFits, InitialStages DEF SettingsInv
<1>4. SettingsTyped'
  <2>1. unsynced' \in BOOLEAN
    BY <1>1
  <2> QED
    BY <1>1, <2>1 DEF SettingsInv, SettingsTyped
<1>5. SyncInv'
  <2>1. CASE unsynced'
    BY <2>1 DEF SyncInv
  <2>2. CASE ~unsynced'
    <3>1. ~InSync(a) /\ ~unsynced /\ unsynced' = unsynced
      BY <1>1, <1>4, <2>2 DEF SettingsInv, SettingsTyped
    <3> QED
      BY <1>1, <1>2, <3>1, SyncApart, NoRequestFits, InitialStages DEF SettingsInv
  <2> QED
    BY <2>1, <2>2
<1> QED
  BY <1>2, <1>3, <1>4, <1>5 DEF SettingsInv

LEMMA SettingsStep == SettingsInv /\ [SettingsNext]_settingsVars => SettingsInv'
<1> SUFFICES ASSUME SettingsInv, [SettingsNext]_settingsVars PROVE SettingsInv'
  OBVIOUS
<1>1. CASE UNCHANGED settingsVars
  BY <1>1 DEF settingsVars, SettingsInv, SettingsTyped, RequestsTyped, FitsChange, SyncInv, InSync,
              ProxyInv, InPublishing, PreviousIsTheLast
<1>2. CASE SettingsNext
  <2>1. CASE \E x \in Records : RecordGrows(x)
    BY <2>1, RecordGrowsStep
  <2>2. CASE \E a \in Admins :
         \/ UpdateRa(a) \/ SaveRa(a) \/ ReadNetwork(a) \/ SetNetwork(a) \/ ResetHeader(a)
         \/ LoadRa(a) \/ Sync(a)
    BY <2>2, UpdateRaStep, SaveRaStep, ReadNetworkStep, SetNetworkStep, ResetHeaderStep, LoadRaStep,
       SyncStep
  <2>3. CASE \E a \in Admins :
         \/ SaveDraft(a) \/ PublishReads(a) \/ RollbackReads(a) \/ Publish(a) \/ Rollback(a)
         \/ MigrateReads(a) \/ MigrateWrites(a) \/ RequestBreaks(a)
    <3>1. \A a \in Admins : PublishReads(a) \/ RollbackReads(a) => SettingsInv'
      BY ReadsProxyStep DEF PublishReads, RollbackReads, PubStages
    <3> QED
      BY <2>3, <3>1, SaveDraftStep, PublishStep, RollbackStep, MigrateReadsStep, MigrateWritesStep,
         RequestBreaksStep
  <2> QED
    BY <1>2, <2>1, <2>2, <2>3 DEF SettingsNext
<1> QED
  BY <1>1, <1>2

LEMMA SettingsInvariance == SettingsInit /\ [][SettingsNext]_settingsVars => []SettingsInv
  BY InitSettingsInv, SettingsStep, PTL

LEMMA SettingsInvKeeps == SettingsInv => SettingsTypeOK /\ PoolFollowsNetwork /\ PreviousIsTheLast
<1> SUFFICES ASSUME SettingsInv PROVE SettingsTypeOK /\ PoolFollowsNetwork
  BY DEF SettingsInv
<1>1. SettingsTypeOK
  BY DEF SettingsInv, SettingsTyped, SettingsTypeOK, RaRows, ProxyRows
<1>2. PoolFollowsNetwork
  <2>1. NoneUnderWay => \A a \in Admins : ~InSync(a)
    BY InitialStages DEF NoneUnderWay, InSync
  <2> QED
    BY <2>1 DEF SettingsInv, SyncInv, PoolFollowsNetwork
<1> QED
  BY <1>1, <1>2

-----------------------------------------------------------------------------
(* The processes of the web server.                                         *)

\* What the calls to the web server have got.
TripFields == {"stage", "kind", "at", "to", "version"}
TripsTyped ==
    /\ DOMAIN trip = Trips
    /\ \A c \in Trips : /\ DOMAIN trip[c] = TripFields
                        /\ trip[c].stage \in {"none", "asking", "told", "sent", "answered"}
                        /\ trip[c].stage # "none" => trip[c].at \in Proxies
                        /\ trip[c].stage \in {"told", "sent"} => trip[c].to \in Targets
\* Nothing old is on its way to a process that is up to date.
ToldIsNew ==
    \A c \in Trips : trip[c].stage = "told" /\ trip[c].at \in upToDate => trip[c].to \in {goal, EnvTarget}
TargetInv ==
    /\ goal \in Targets \cup {NoTarget} /\ version \in 0 .. MaxPublishings
    /\ backendBaseCache \in [Proxies -> Targets \cup {NoTarget}] /\ upToDate \subseteq Proxies
    /\ TripsTyped /\ ToldIsNew /\ CallsGoWherePublished

LEMMA NoTripFields == DOMAIN NoTrip = TripFields /\ NoTrip.stage = "none"
  BY DEF NoTrip, TripFields

LEMMA InitTargetInv == TargetInit => TargetInv
<1> SUFFICES ASSUME TargetInit PROVE TargetInv
  OBVIOUS
<1>1. \A c \in Trips : trip[c] = NoTrip
  BY DEF TargetInit
<1>2. TripsTyped /\ ToldIsNew
  BY <1>1, NoTripFields DEF TargetInit, TripsTyped, ToldIsNew
<1>3. \A p \in Proxies : backendBaseCache[p] = NoTarget
  BY DEF TargetInit
<1>4. CallsGoWherePublished /\ upToDate \subseteq Proxies
  BY <1>3 DEF CallsGoWherePublished, TargetInit
<1>5. version \in 0 .. MaxPublishings
  BY TargetAssumption DEF TargetInit
<1> QED
  BY <1>2, <1>4, <1>5 DEF TargetInv, TargetInit

\* One call goes on.
LEMMA TripGoes ==
  ASSUME NEW c \in Trips, NEW q, TripsTyped, Travels(c, q), DOMAIN q = TripFields,
         q.stage \in {"none", "asking", "told", "sent", "answered"},
         q.stage # "none" => q.at \in Proxies, q.stage \in {"told", "sent"} => q.to \in Targets
  PROVE  TripsTyped' /\ trip'[c] = q /\ \A d \in Trips \ {c} : trip'[d] = trip[d]
<1>1. /\ DOMAIN trip' = Trips /\ trip'[c] = q /\ \A d \in Trips \ {c} : trip'[d] = trip[d]
  BY DEF TripsTyped, Travels
<1> QED
  BY <1>1 DEF TripsTyped

LEMMA SetOutStep ==
  ASSUME NEW c \in Trips, NEW p \in Proxies
  PROVE  TargetInv /\ SetOut(c, p) => TargetInv'
<1> SUFFICES ASSUME TargetInv, SetOut(c, p) PROVE TargetInv'
  OBVIOUS
<1>1. UNCHANGED <<goal, backendBaseCache, version, upToDate>>
  BY DEF SetOut
<1>2. PICK kind \in {"call", "publish"} :
         Travels(c, IF backendBaseCache[p] # NoTarget
                    THEN [NoTrip EXCEPT !.stage = "sent", !.kind = kind, !.at = p,
                            !.to = backendBaseCache[p]]
                    ELSE [NoTrip EXCEPT !.stage = "asking", !.kind = kind, !.at = p])
  BY DEF SetOut
<1>3. PICK q : q = IF backendBaseCache[p] # NoTarget
                    THEN [NoTrip EXCEPT !.stage = "sent", !.kind = kind, !.at = p,
                            !.to = backendBaseCache[p]]
                    ELSE [NoTrip EXCEPT !.stage = "asking", !.kind = kind, !.at = p]
  OBVIOUS
<1>4. /\ DOMAIN q = TripFields /\ q.stage \in {"asking", "sent"} /\ q.at = p
      /\ q.stage = "sent" => q.to = backendBaseCache[p] /\ backendBaseCache[p] # NoTarget
  BY <1>3, NoTripFields DEF NoTrip, TripFields
<1>5. q.stage = "sent" => q.to \in Targets
  BY <1>4 DEF TargetInv
<1>6. TripsTyped' /\ trip'[c] = q /\ \A d \in Trips \ {c} : trip'[d] = trip[d]
  BY <1>2, <1>3, <1>4, <1>5, TripGoes DEF TargetInv
<1>7. ToldIsNew'
  BY <1>1, <1>4, <1>6 DEF TargetInv, ToldIsNew
<1> QED
  BY <1>1, <1>6, <1>7 DEF TargetInv, CallsGoWherePublished

LEMMA RuntimeAnswersStep == ASSUME NEW c \in Trips PROVE TargetInv /\ RuntimeAnswers(c) => TargetInv'
<1> SUFFICES ASSUME TargetInv, RuntimeAnswers(c) PROVE TargetInv'
  OBVIOUS
<1>1. UNCHANGED <<goal, backendBaseCache, version, upToDate>> /\ trip[c].stage = "asking"
  BY DEF RuntimeAnswers
<1>2. PICK to \in {goal, EnvTarget} \ {NoTarget} : Travels(c, [trip[c] EXCEPT !.stage = "told", !.to = to])
  BY DEF RuntimeAnswers
<1>3. PICK q : q = [trip[c] EXCEPT !.stage = "told", !.to = to]
  OBVIOUS
<1>4. DOMAIN trip[c] = TripFields /\ trip[c].at \in Proxies
  BY <1>1 DEF TargetInv, TripsTyped
<1>5. DOMAIN q = TripFields /\ q.stage = "told" /\ q.to = to /\ q.at = trip[c].at
  BY <1>3, <1>4 DEF TripFields
<1>6. to \in Targets
  BY <1>2, TargetAssumption DEF TargetInv
<1>7. TripsTyped' /\ trip'[c] = q /\ \A d \in Trips \ {c} : trip'[d] = trip[d]
  BY <1>2, <1>3, <1>4, <1>5, <1>6, TripGoes DEF TargetInv
<1>8. ToldIsNew'
  BY <1>1, <1>2, <1>5, <1>7 DEF TargetInv, ToldIsNew
<1> QED
  BY <1>1, <1>7, <1>8 DEF TargetInv, CallsGoWherePublished

LEMMA KeepStep == ASSUME NEW c \in Trips PROVE TargetInv /\ Keep(c) => TargetInv'
<1> SUFFICES ASSUME TargetInv, Keep(c) PROVE TargetInv'
  OBVIOUS
<1>1. /\ UNCHANGED <<goal, version, upToDate>> /\ trip[c].stage = "told"
      /\ backendBaseCache' = [backendBaseCache EXCEPT ![trip[c].at] = trip[c].to]
      /\ Travels(c, [trip[c] EXCEPT !.stage = "sent"])
  BY DEF Keep
<1>2. DOMAIN trip[c] = TripFields /\ trip[c].at \in Proxies /\ trip[c].to \in Targets
  BY <1>1 DEF TargetInv, TripsTyped
<1>3. PICK q : q = [trip[c] EXCEPT !.stage = "sent"]
  OBVIOUS
<1>4. DOMAIN q = TripFields /\ q.stage = "sent" /\ q.to = trip[c].to /\ q.at = trip[c].at
  BY <1>2, <1>3 DEF TripFields
<1>5. TripsTyped' /\ trip'[c] = q /\ \A d \in Trips \ {c} : trip'[d] = trip[d]
  BY <1>1, <1>2, <1>3, <1>4, TripGoes DEF TargetInv
<1>6. ToldIsNew'
  BY <1>1, <1>4, <1>5 DEF TargetInv, ToldIsNew
<1>7. /\ backendBaseCache' \in [Proxies -> Targets \cup {NoTarget}]
      /\ \A p \in Proxies : backendBaseCache'[p] = IF p = trip[c].at THEN trip[c].to ELSE backendBaseCache[p]
  BY <1>1, <1>2 DEF TargetInv
<1>8. CallsGoWherePublished'
  <2> SUFFICES ASSUME NEW p \in upToDate PROVE backendBaseCache'[p] \in {goal, EnvTarget, NoTarget}
    BY <1>1 DEF CallsGoWherePublished
  <2>1. p \in Proxies
    BY DEF TargetInv
  <2>2. CASE p = trip[c].at
    BY <1>1, <1>7, <2>1, <2>2 DEF TargetInv, ToldIsNew
  <2>3. CASE p # trip[c].at
    BY <1>7, <2>1, <2>3 DEF TargetInv, CallsGoWherePublished
  <2> QED
    BY <2>2, <2>3
<1> QED
  BY <1>1, <1>5, <1>6, <1>7, <1>8 DEF TargetInv

LEMMA PublishingStep == ASSUME NEW c \in Trips PROVE TargetInv /\ Publishing(c) => TargetInv'
<1> SUFFICES ASSUME TargetInv, Publishing(c) PROVE TargetInv'
  OBVIOUS
<1>1. /\ UNCHANGED backendBaseCache /\ trip[c].stage = "sent" /\ version < MaxPublishings
      /\ goal' \in Targets /\ version' = version + 1 /\ upToDate' = {}
      /\ Travels(c, [trip[c] EXCEPT !.stage = "answered", !.version = version + 1])
  BY DEF Publishing
<1>2. DOMAIN trip[c] = TripFields /\ trip[c].at \in Proxies
  BY <1>1 DEF TargetInv, TripsTyped
<1>3. PICK q : q = [trip[c] EXCEPT !.stage = "answered", !.version = version + 1]
  OBVIOUS
<1>4. DOMAIN q = TripFields /\ q.stage = "answered" /\ q.at = trip[c].at
  BY <1>2, <1>3 DEF TripFields
<1>5. TripsTyped'
  BY <1>1, <1>2, <1>3, <1>4, TripGoes DEF TargetInv
<1>6. version' \in 0 .. MaxPublishings
  BY <1>1, TargetAssumption DEF TargetInv
<1> QED
  BY <1>1, <1>5, <1>6 DEF TargetInv, ToldIsNew, CallsGoWherePublished

\* A call is over.
LEMMA TripEnds ==
  ASSUME NEW c \in Trips, TripsTyped, Ends(c)
  PROVE  TripsTyped' /\ trip'[c].stage = "none" /\ \A d \in Trips \ {c} : trip'[d] = trip[d]
  BY TripGoes, NoTripFields DEF Ends

LEMMA ForgetBaseStep == ASSUME NEW c \in Trips PROVE TargetInv /\ ForgetBase(c) => TargetInv'
<1> SUFFICES ASSUME TargetInv, ForgetBase(c) PROVE TargetInv'
  OBVIOUS
<1>1. PICK p : p = trip[c].at
  OBVIOUS
<1>2. /\ UNCHANGED <<goal, version>> /\ trip[c].stage = "answered" /\ Ends(c)
      /\ backendBaseCache' = [backendBaseCache EXCEPT ![p] = NoTarget]
      /\ \/ LooksUp(p) = {} /\ upToDate' = upToDate \cup {p}
         \/ upToDate' = upToDate
  BY <1>1 DEF ForgetBase, Forgets
<1>3. p \in Proxies
  BY <1>1, <1>2 DEF TargetInv, TripsTyped
<1>4. TripsTyped' /\ trip'[c].stage = "none" /\ \A d \in Trips \ {c} : trip'[d] = trip[d]
  BY <1>2, TripEnds DEF TargetInv
<1>5. ToldIsNew'
  <2> SUFFICES ASSUME NEW d \in Trips, trip'[d].stage = "told", trip'[d].at \in upToDate'
               PROVE  trip'[d].to \in {goal, EnvTarget}
    BY <1>2 DEF ToldIsNew
  <2>1. trip'[d] = trip[d]
    BY <1>4
  <2>2. trip[d].at \in upToDate
    <3>1. CASE upToDate' = upToDate
      BY <2>1, <3>1
    <3>2. CASE LooksUp(p) = {} /\ upToDate' = upToDate \cup {p}
      <4>1. trip[d].at # p
        BY <2>1, <3>2 DEF LooksUp
      <4> QED
        BY <2>1, <3>2, <4>1
    <3> QED
      BY <1>2, <3>1, <3>2
  <2> QED
    BY <2>1, <2>2 DEF TargetInv, ToldIsNew
<1>6. /\ backendBaseCache' \in [Proxies -> Targets \cup {NoTarget}] /\ upToDate' \subseteq Proxies
      /\ \A x \in Proxies : backendBaseCache'[x] = IF x = p THEN NoTarget ELSE backendBaseCache[x]
  BY <1>2, <1>3 DEF TargetInv
<1>7. CallsGoWherePublished'
  <2> SUFFICES ASSUME NEW x \in upToDate' PROVE backendBaseCache'[x] \in {goal, EnvTarget, NoTarget}
    BY <1>2 DEF CallsGoWherePublished
  <2>1. CASE x = p
    BY <1>3, <1>6, <2>1
  <2>2. CASE x # p
    BY <1>2, <1>6, <2>2 DEF TargetInv, CallsGoWherePublished
  <2> QED
    BY <2>1, <2>2
<1> QED
  BY <1>2, <1>4, <1>5, <1>6, <1>7 DEF TargetInv

LEMMA ComeBackStep == ASSUME NEW c \in Trips PROVE TargetInv /\ ComeBack(c) => TargetInv'
<1> SUFFICES ASSUME TargetInv, ComeBack(c) PROVE TargetInv'
  OBVIOUS
<1>1. UNCHANGED <<goal, backendBaseCache, version, upToDate>> /\ Ends(c)
  BY DEF ComeBack
<1>2. TripsTyped' /\ trip'[c].stage = "none" /\ \A d \in Trips \ {c} : trip'[d] = trip[d]
  BY <1>1, TripEnds DEF TargetInv
<1>3. ToldIsNew'
  BY <1>1, <1>2 DEF TargetInv, ToldIsNew
<1> QED
  BY <1>1, <1>2, <1>3 DEF TargetInv, CallsGoWherePublished

LEMMA BaseExpiresStep == ASSUME NEW p \in Proxies PROVE TargetInv /\ BaseExpires(p) => TargetInv'
<1> SUFFICES ASSUME TargetInv, BaseExpires(p) PROVE TargetInv'
  OBVIOUS
<1>1. /\ UNCHANGED <<goal, trip, version>>
      /\ backendBaseCache' = [backendBaseCache EXCEPT ![p] = NoTarget]
      /\ \/ LooksUp(p) = {} /\ upToDate' = upToDate \cup {p}
         \/ upToDate' = upToDate
  BY DEF BaseExpires
<1>2. /\ backendBaseCache' \in [Proxies -> Targets \cup {NoTarget}] /\ upToDate' \subseteq Proxies
      /\ \A x \in Proxies : backendBaseCache'[x] = IF x = p THEN NoTarget ELSE backendBaseCache[x]
  BY <1>1 DEF TargetInv
<1>3. ToldIsNew'
  <2> SUFFICES ASSUME NEW d \in Trips, trip[d].stage = "told", trip[d].at \in upToDate'
               PROVE  trip[d].to \in {goal, EnvTarget}
    BY <1>1 DEF ToldIsNew
  <2>1. trip[d].at \in upToDate
    <3>1. CASE upToDate' = upToDate
      BY <3>1
    <3>2. CASE LooksUp(p) = {} /\ upToDate' = upToDate \cup {p}
      <4>1. trip[d].at # p
        BY <3>2 DEF LooksUp
      <4> QED
        BY <3>2, <4>1
    <3> QED
      BY <1>1, <3>1, <3>2
  <2> QED
    BY <2>1 DEF TargetInv, ToldIsNew
<1>4. CallsGoWherePublished'
  <2> SUFFICES ASSUME NEW x \in upToDate' PROVE backendBaseCache'[x] \in {goal, EnvTarget, NoTarget}
    BY <1>1 DEF CallsGoWherePublished
  <2>1. CASE x = p
    BY <1>2, <2>1
  <2>2. CASE x # p
    BY <1>1, <1>2, <2>2 DEF TargetInv, CallsGoWherePublished
  <2> QED
    BY <2>1, <2>2
<1>5. TripsTyped'
  BY <1>1 DEF TargetInv, TripsTyped
<1> QED
  BY <1>1, <1>2, <1>3, <1>4, <1>5 DEF TargetInv

LEMMA TargetStep == TargetInv /\ [TargetNext]_targetVars => TargetInv'
<1> SUFFICES ASSUME TargetInv, [TargetNext]_targetVars PROVE TargetInv'
  OBVIOUS
<1>1. CASE UNCHANGED targetVars
  BY <1>1 DEF targetVars, TargetInv, TripsTyped, ToldIsNew, CallsGoWherePublished
<1>2. CASE TargetNext
  BY <1>2, SetOutStep, RuntimeAnswersStep, KeepStep, PublishingStep, ForgetBaseStep, ComeBackStep,
     BaseExpiresStep DEF TargetNext
<1> QED
  BY <1>1, <1>2

LEMMA TargetInvariance == TargetInit /\ [][TargetNext]_targetVars => []TargetInv
  BY InitTargetInv, TargetStep, PTL

LEMMA TargetInvKeeps == TargetInv => TargetTypeOK /\ CallsGoWherePublished
  BY DEF TargetInv, TargetTypeOK, TripsTyped

-----------------------------------------------------------------------------
(***************************************************************************)
(* The poller.  What its three properties stand on is what each call still *)
(* has to do: whether it polls, whether it still has to adopt or to apply  *)
(* the settings it saved, whether it still owes the settings a pair.  Most *)
(* of it holds until two administrators cross (crossed, tangled); until    *)
(* then a call about pairs is alone, and what holds of all calls follows   *)
(* from what holds of that one.                                            *)
(***************************************************************************)

\* The stages of a call and what they are about.
EarlyStages == {"core", "insert", "settings"}
OwingStages == {"following", "checking", "falling", "featuring", "featured"}
PairStages == OwingStages \cup {"writing", "finding", "upserting", "reloading"}
OtherStages == {"idle", "polling", "saving", "applying", "retiming"}
LateStages == {"reconciling", "polling1", "timing", "syncing", "ready"}
CallStages == EarlyStages \cup PairStages \cup OtherStages \cup LateStages
CallKinds == {"none", "boot", "tick", "poll", "config", "feature", "create", "update", "delete", "sync"}
PairKinds == {"feature", "create", "update", "delete", "sync"}
Thens == {"idle", "retiming", "timing", "polling1", "ready", "reconciling", "reloading"}
Backs == {"idle", "polling1", "ready"}
Fails == {"idle", "syncing", "ready"}
PairRows == Pairs \cup {NoPair}
KeyOrNone == Keys \cup {NoKey}
IdOrNone == Ids \cup {0}
CallRows ==
    [kind : CallKinds, stage : CallStages, snap : Memory, id : IdOrNone, row : PairRows,
     meta : Metas, active : BOOLEAN, next : Memory, key : KeyOrNone, then : Thens,
     back : Backs, fail : Fails]
StoredRows == [exists : {TRUE}, set : Memory] \cup {NoSettings}
PollerTyped ==
    /\ phase \in {"down", "starting", "up"} /\ created \in 0 .. MaxId
    /\ pairs \in [Ids -> PairRows] /\ \A i \in Ids : i > created => pairs[i] = NoPair
    /\ stored \in StoredRows /\ mem \in Memory
    /\ timer \in Intervals \cup {0} /\ isPolling \in BOOLEAN
    /\ fresh \in BOOLEAN /\ crossed \in BOOLEAN /\ tangled \in BOOLEAN
    /\ call \in [Callers -> CallRows]

\* What the calls of requests, of the timer and of start-up may be at.
RequestFits(r) ==
    /\ r.fail = "idle" /\ r.back = "idle" /\ r.then \in {"idle", "retiming", "reloading"}
    /\ r.stage \in PairStages \cup OtherStages
    /\ r.stage \in PairStages \/ r.then = "reloading" => r.kind \in PairKinds
    /\ r.stage = "idle" => r.kind = "none"
    /\ r.stage = "writing" => /\ r.id \in Ids /\ r.row \in Pairs
                              /\ r.kind = "update" => EditAllowed(r.row, r.meta)
                              /\ r.kind = "delete" => ~r.row.core
TickFits(r) == r.stage \in {"idle", "polling"} /\ r.then = "idle"
BootFits(r) ==
    /\ r.stage \in CallStages \ {"following", "writing", "saving", "applying", "retiming"}
    /\ r.then # "retiming"
    /\ r.stage \in EarlyStages => r.fail = "syncing" /\ r.snap.featured = Core.key
    /\ r.stage = "checking" => r.snap.featured = Core.key
CallFits(c, r) ==
    /\ c \in Requests => RequestFits(r)
    /\ c = Tick => TickFits(r)
    /\ c = Boot => BootFits(r)
CallsFit ==
    /\ \A c \in Callers : CallFits(c, call[c])
    /\ phase # "up" => \A c \in Requests : Idle(c)
    /\ phase # "starting" => Idle(Boot)
    /\ phase = "starting" => ~fresh

\* The mark of a poll under way is up while one call polls, and no other does.
PollInv ==
    /\ \A c, d \in Callers : At(c, "polling") /\ At(d, "polling") => c = d
    /\ isPolling <=> \E c \in Callers : At(c, "polling")

\* Start-up has read the settings.
Booted == phase # "down" /\ call[Boot].stage \notin EarlyStages
SameSettings(s, t) == s.interval = t.interval /\ s.ingest = t.ingest
Retimes(c) == At(c, "retiming") \/ (At(c, "polling") /\ call[c].then = "retiming")
\* Whoever applies settings applies those that are stored; with nobody about to, the process
\* has them, and the timer is of them once it was set.
ConfigInv ==
    ~crossed /\ Booted =>
      /\ stored.exists
      /\ \A c, d \in Requests : At(c, "applying") /\ At(d, "applying") => c = d
      /\ \A c \in Requests : At(c, "applying") => SameSettings(call[c].next, stored.set)
      /\ (\A c \in Requests : ~At(c, "applying")) => SameSettings(mem, stored.set)
      /\ fresh /\ (\A c \in Requests : ~Retimes(c)) =>
            timer = IF mem.ingest THEN mem.interval ELSE 0

\* A pair that is tracked, and a call that has yet to bring the featured pair in line.
Tracked(key) == \E i \in Ids : pairs[i].exists /\ pairs[i].active /\ pairs[i].meta.key = key
KeyStands(key) == key # NoKey => Tracked(key)
Owes(c) == call[c].stage \in OwingStages
Nobody == \A c \in Callers : ~Owes(c)
OnePairCall == ~tangled => \A c, d \in PairCalls : c = d
\* Without stored settings either no pair is stored or the configured one is tracked.
CoreFirst ==
    ~crossed /\ ~stored.exists =>
      /\ Existing = {} \/ Tracked(Core.key)
      /\ At(Boot, "settings") => Tracked(Core.key)
\* What a request that is about to write has read, and who may be about to do what.
WritesWhatItRead ==
    ~tangled => \A c \in Requests : At(c, "writing") => pairs[call[c].id] = call[c].row
FindsWhatItFound ==
    ~tangled => \A c \in Callers : At(c, "upserting") => call[c].id = 0 \/ call[c].id \in Existing
\* With no call left that owes it, the featured pair is tracked; and what each stage of such a
\* call may count on.
FeaturedInv ==
    ~tangled /\ ~crossed =>
      /\ Nobody /\ stored.exists => KeyStands(stored.set.featured)
      /\ Nobody /\ Booted => KeyStands(mem.featured)
      /\ Booted /\ (\A c \in Callers : ~At(c, "featured")) =>
            stored.set.featured \in {mem.featured, NoKey}
      /\ \A c \in Callers : At(c, "featured") => stored.set.featured = call[c].key
      /\ \A c \in Callers : At(c, "featuring") \/ At(c, "featured") => KeyStands(call[c].key)
      /\ At(Boot, "checking") => /\ KeyStands(stored.set.featured)
                                 /\ mem.featured \in {stored.set.featured, Core.key}
      /\ \A c \in Requests :
            call[c].stage \in {"writing", "following", "checking"} =>
                call[c].snap.featured = mem.featured
      /\ \A c \in Requests : At(c, "following") =>
            /\ call[c].kind # "delete" /\ call[c].active => Tracked(call[c].meta.key)
            /\ call[c].snap.featured # NoKey /\ call[c].row.meta.key # call[c].snap.featured =>
                  Tracked(call[c].snap.featured)
PairsInv == OnePairCall /\ CoreFirst /\ WritesWhatItRead /\ FindsWhatItFound /\ FeaturedInv
PollerInv == PollerTyped /\ CallsFit /\ PollInv /\ ConfigInv /\ PairsInv

\* The same for one call, while no other has to do with pairs.
BoundStages == OwingStages \cup {"writing", "upserting", "settings"}
Alone(c) ==
    \A d \in Callers \ {c} :
        /\ call[d].stage \notin BoundStages
        /\ d \in Requests => call[d].kind \notin PairKinds
FeaturedFor(c) ==
    /\ ~Owes(c) /\ stored.exists => KeyStands(stored.set.featured)
    /\ ~Owes(c) /\ Booted => KeyStands(mem.featured)
    /\ Booted /\ ~At(c, "featured") => stored.set.featured \in {mem.featured, NoKey}
    /\ At(c, "featured") => stored.set.featured = call[c].key
    /\ At(c, "featuring") \/ At(c, "featured") => KeyStands(call[c].key)
    /\ c = Boot /\ At(c, "checking") =>
          KeyStands(stored.set.featured) /\ mem.featured \in {stored.set.featured, Core.key}
    /\ c \in Requests /\ call[c].stage \in {"writing", "following", "checking"} =>
          call[c].snap.featured = mem.featured
    /\ c \in Requests /\ At(c, "following") =>
          /\ call[c].kind # "delete" /\ call[c].active => Tracked(call[c].meta.key)
          /\ call[c].snap.featured # NoKey /\ call[c].row.meta.key # call[c].snap.featured =>
                Tracked(call[c].snap.featured)
PairsFor(c) ==
    /\ c \in Requests /\ At(c, "writing") => pairs[call[c].id] = call[c].row
    /\ At(c, "upserting") => call[c].id = 0 \/ call[c].id \in Existing
    /\ ~crossed => FeaturedFor(c)

LEMMA PollerConstants ==
  /\ MaxId \in Nat /\ Core \in Metas /\ DefaultInterval \in Intervals /\ Intervals \subseteq Nat \ {0}
  /\ NoKey \notin Keys /\ Boot \notin Requests /\ Tick \notin Requests /\ Boot # Tick
  /\ \A m \in Metas : m.key \in Keys
  /\ Boot \in Callers /\ Tick \in Callers /\ Requests \subseteq Callers
  /\ \A c \in Callers : c \in Requests \/ c = Boot \/ c = Tick
<1>1. \A m \in Metas : m.key \in Keys
  BY DEF Keys
<1>2. /\ Boot \in Callers /\ Tick \in Callers /\ Requests \subseteq Callers
      /\ \A c \in Callers : c \in Requests \/ c = Boot \/ c = Tick
  BY DEF Callers
<1> QED
  BY <1>1, <1>2, PriceAssumption DEF Keys

LEMMA MemoryIs ==
  /\ \A m \in Memory : m.interval \in Intervals /\ m.ingest \in BOOLEAN /\ m.featured \in KeyOrNone
  /\ Defaults \in Memory /\ Defaults.featured = Core.key
  /\ \A m \in Memory, i \in Intervals, b \in BOOLEAN :
       LET n == [m EXCEPT !.interval = i, !.ingest = b] IN
       n \in Memory /\ n.interval = i /\ n.ingest = b /\ n.featured = m.featured
  /\ \A m \in Memory, k \in KeyOrNone :
       LET n == [m EXCEPT !.featured = k] IN
       n \in Memory /\ n.interval = m.interval /\ n.ingest = m.ingest /\ n.featured = k
<1>1. Core.key \in Keys \cup {NoKey}
  BY PollerConstants
<1>2. Defaults \in Memory /\ Defaults.featured = Core.key
  BY <1>1, PollerConstants DEF Defaults, Memory
<1>3. \A m \in Memory : m.interval \in Intervals /\ m.ingest \in BOOLEAN /\ m.featured \in KeyOrNone
  BY DEF Memory, KeyOrNone
<1>4. ASSUME NEW m \in Memory, NEW i \in Intervals, NEW b \in BOOLEAN
      PROVE  LET n == [m EXCEPT !.interval = i, !.ingest = b] IN
             n \in Memory /\ n.interval = i /\ n.ingest = b /\ n.featured = m.featured
  BY DEF Memory
<1>5. ASSUME NEW m \in Memory, NEW k \in KeyOrNone
      PROVE  LET n == [m EXCEPT !.featured = k] IN
             n \in Memory /\ n.interval = m.interval /\ n.ingest = m.ingest /\ n.featured = k
  BY DEF Memory, KeyOrNone
<1> QED
  BY <1>2, <1>3, <1>4, <1>5

LEMMA MemoryFeatures ==
  ASSUME NEW m \in Memory, NEW k \in KeyOrNone
  PROVE  \E n \in Memory : /\ n = [m EXCEPT !.featured = k] /\ n.featured = k
                           /\ n.interval = m.interval /\ n.ingest = m.ingest
<1>1. PICK n : n = [m EXCEPT !.featured = k]
  OBVIOUS
<1>2. n \in Memory /\ n.featured = k /\ n.interval = m.interval /\ n.ingest = m.ingest
  BY <1>1 DEF Memory, KeyOrNone
<1> QED
  BY <1>1, <1>2

LEMMA PairRowsAre ==
  /\ NoPair \in PairRows /\ NoPair.exists = FALSE /\ \A p \in Pairs : p \in PairRows
  /\ \A p \in PairRows : p.exists \/ p = NoPair
  /\ \A p \in PairRows : p.exists =>
       p \in Pairs /\ p.exists = TRUE /\ p.meta \in Metas /\ p.active \in BOOLEAN /\ p.core \in BOOLEAN
  /\ \A m \in Metas, a, k \in BOOLEAN :
       LET p == [exists |-> TRUE, meta |-> m, active |-> a, core |-> k] IN
       p \in Pairs /\ p.exists = TRUE /\ p.meta = m /\ p.active = a /\ p.core = k
<1>1. NoPair \in PairRows /\ NoPair.exists = FALSE /\ \A p \in Pairs : p \in PairRows
  BY DEF NoPair, PairRows
<1>2. \A p \in Pairs : p.exists = TRUE /\ p.meta \in Metas /\ p.active \in BOOLEAN /\ p.core \in BOOLEAN
  BY DEF Pairs
<1>3. \A m \in Metas, a, k \in BOOLEAN :
       LET p == [exists |-> TRUE, meta |-> m, active |-> a, core |-> k] IN
       p \in Pairs /\ p.exists = TRUE /\ p.meta = m /\ p.active = a /\ p.core = k
  BY DEF Pairs
<1>4. \A p \in PairRows : p \in Pairs \/ p = NoPair
  BY DEF PairRows
<1> QED
  BY <1>1, <1>2, <1>3, <1>4

LEMMA StoredIs ==
  /\ NoSettings \in StoredRows /\ NoSettings.exists = FALSE
  /\ \A s \in StoredRows : s.exists \in BOOLEAN /\ (s.exists => s.set \in Memory)
  /\ \A m \in Memory :
       LET s == [exists |-> TRUE, set |-> m] IN s \in StoredRows /\ s.exists = TRUE /\ s.set = m
  /\ \A k : \A s \in StoredRows : s.exists =>
       LET t == [s EXCEPT !.set.featured = k] IN t.exists = TRUE /\ t.set = [s.set EXCEPT !.featured = k]
  /\ \A s \in StoredRows, k \in KeyOrNone : s.exists => [s EXCEPT !.set.featured = k] \in StoredRows
<1>1. NoSettings \in StoredRows /\ NoSettings.exists = FALSE
  BY DEF NoSettings, StoredRows
<1>2. \A s \in StoredRows : s.exists => s \in [exists : {TRUE}, set : Memory]
  <2> SUFFICES ASSUME NEW s \in StoredRows, s.exists PROVE s \in [exists : {TRUE}, set : Memory]
    OBVIOUS
  <2>1. s # NoSettings
    BY <1>1
  <2> QED
    BY <2>1 DEF StoredRows
<1>3. \A m \in Memory :
       LET s == [exists |-> TRUE, set |-> m] IN s \in StoredRows /\ s.exists = TRUE /\ s.set = m
  BY DEF StoredRows
<1>4. \A s \in [exists : {TRUE}, set : Memory] : s.exists = TRUE /\ s.set \in Memory
  OBVIOUS
<1>5. \A s \in StoredRows : s.exists \in BOOLEAN
  BY <1>1, <1>4 DEF StoredRows
<1>6. \A k : \A s \in [exists : {TRUE}, set : Memory] :
        LET t == [s EXCEPT !.set.featured = k] IN t.exists = TRUE /\ t.set = [s.set EXCEPT !.featured = k]
  OBVIOUS
<1>7. ASSUME NEW s \in [exists : {TRUE}, set : Memory], NEW k \in KeyOrNone
      PROVE  [s EXCEPT !.set.featured = k] \in StoredRows
  <2>1. PICK m \in Memory : m = [s.set EXCEPT !.featured = k]
    BY <1>4, MemoryIs
  <2>3. [s EXCEPT !.set.featured = k] = [s EXCEPT !.set = m]
    BY <2>1
  <2>4. [s EXCEPT !.set = m] \in [exists : {TRUE}, set : Memory]
    OBVIOUS
  <2> QED
    BY <2>3, <2>4 DEF StoredRows
<1> QED
  BY <1>1, <1>2, <1>3, <1>4, <1>5, <1>6, <1>7

LEMMA CallFields ==
  \A r \in CallRows :
    /\ r.kind \in CallKinds /\ r.stage \in CallStages /\ r.snap \in Memory /\ r.id \in IdOrNone
    /\ r.row \in PairRows /\ r.meta \in Metas /\ r.active \in BOOLEAN /\ r.next \in Memory
    /\ r.key \in KeyOrNone /\ r.then \in Thens /\ r.back \in Backs /\ r.fail \in Fails
  BY DEF CallRows

LEMMA IdleCallFits ==
  /\ IdleCall \in CallRows
  /\ IdleCall.kind = "none" /\ IdleCall.stage = "idle" /\ IdleCall.then = "idle"
  /\ IdleCall.back = "idle" /\ IdleCall.fail = "idle" /\ IdleCall.snap = Defaults
  /\ \A c \in Callers : CallFits(c, IdleCall)
<1>1. /\ "none" \in CallKinds /\ "idle" \in CallStages /\ "idle" \in Thens /\ "idle" \in Backs
      /\ "idle" \in Fails
  BY DEF CallKinds, CallStages, OtherStages, Thens, Backs, Fails
<1>2. 0 \in IdOrNone /\ NoPair \in PairRows /\ NoKey \in KeyOrNone /\ Core \in Metas /\ Defaults \in Memory
  BY PairRowsAre, PollerConstants, MemoryIs DEF IdOrNone, KeyOrNone
<1>3. IdleCall \in CallRows
  BY <1>1, <1>2 DEF IdleCall, CallRows
<1>4. /\ IdleCall.kind = "none" /\ IdleCall.stage = "idle" /\ IdleCall.then = "idle"
      /\ IdleCall.back = "idle" /\ IdleCall.fail = "idle" /\ IdleCall.snap = Defaults
  BY DEF IdleCall
<1>5. \A c \in Callers : CallFits(c, IdleCall)
  BY <1>4 DEF CallFits, RequestFits, TickFits, BootFits, PairStages, OwingStages, OtherStages,
     EarlyStages, CallStages
<1> QED
  BY <1>3, <1>4, <1>5

-----------------------------------------------------------------------------
\* A step of one call leaves the others as they are.
OthersAsWere(c) == \A d \in Callers \ {c} : call'[d] = call[d]
SameBut(f, r) ==
    /\ f.kind = r.kind /\ f.snap = r.snap /\ f.id = r.id /\ f.row = r.row /\ f.meta = r.meta
    /\ f.active = r.active /\ f.next = r.next /\ f.key = r.key /\ f.then = r.then
    /\ f.back = r.back /\ f.fail = r.fail

LEMMA OneCallMoves ==
  ASSUME NEW c \in Callers, NEW f \in CallRows, call \in [Callers -> CallRows], Does(c, f)
  PROVE  call' \in [Callers -> CallRows] /\ call'[c] = f /\ OthersAsWere(c)
  BY DEF Does, OthersAsWere

LEMMA GoesTo ==
  ASSUME NEW c \in Callers, NEW s \in CallStages, call \in [Callers -> CallRows], Goes(c, s)
  PROVE  \E f \in CallRows : /\ Does(c, f) /\ f.stage = s
                             /\ s = "idle" => f = IdleCall
                             /\ s # "idle" => SameBut(f, call[c])
<1>1. CASE s = "idle"
  BY <1>1, IdleCallFits DEF Goes
<1>2. CASE s # "idle"
  <2>1. PICK f : f = [call[c] EXCEPT !.stage = s]
    OBVIOUS
  <2>2. call[c] \in CallRows
    OBVIOUS
  <2>3. f \in CallRows /\ f.stage = s /\ SameBut(f, call[c])
    BY <2>1, <2>2 DEF CallRows, SameBut
  <2>4. Does(c, f)
    BY <1>2, <2>1 DEF Goes
  <2> QED
    BY <1>2, <2>3, <2>4
<1> QED
  BY <1>1, <1>2

\* A call that has begun, ends, or begins while the process is up.
MayMove(c, f) == ~Idle(c) \/ f = IdleCall \/ c = Tick \/ (c \in Requests /\ phase = "up")
LEMMA FitsOn ==
  ASSUME NEW c \in Callers, NEW f \in CallRows, PollerTyped, CallsFit, Does(c, f), CallFits(c, f),
         MayMove(c, f), UNCHANGED <<phase, fresh>>
  PROVE  CallsFit'
<1>1. call'[c] = f /\ OthersAsWere(c)
  BY OneCallMoves DEF PollerTyped
<1>2. \A d \in Callers : CallFits(d, call'[d])
  BY <1>1 DEF CallsFit, OthersAsWere
<1>3. phase # "up" => \A d \in Requests : call'[d].stage = "idle"
  <2> SUFFICES ASSUME phase # "up", NEW d \in Requests PROVE call'[d].stage = "idle"
    OBVIOUS
  <2>1. d \in Callers /\ call[d].stage = "idle"
    BY PollerConstants DEF CallsFit, Idle
  <2>2. CASE d # c
    BY <1>1, <2>1, <2>2 DEF OthersAsWere
  <2>3. CASE d = c
    BY <1>1, <2>1, <2>3, IdleCallFits, PollerConstants DEF MayMove, Idle
  <2> QED
    BY <2>2, <2>3
<1>4. phase # "starting" => call'[Boot].stage = "idle"
  <2> SUFFICES ASSUME phase # "starting" PROVE call'[Boot].stage = "idle"
    OBVIOUS
  <2>1. Boot \in Callers /\ Boot \notin Requests /\ call[Boot].stage = "idle"
    BY PollerConstants DEF CallsFit, Idle
  <2>2. CASE c # Boot
    BY <1>1, <2>1, <2>2 DEF OthersAsWere
  <2>3. CASE c = Boot
    BY <1>1, <2>1, <2>3, IdleCallFits, PollerConstants DEF MayMove, Idle
  <2> QED
    BY <2>2, <2>3
<1>5. phase = "starting" => ~fresh
  BY DEF CallsFit
<1> QED
  BY <1>2, <1>3, <1>4, <1>5 DEF CallsFit, CallFits, RequestFits, TickFits, BootFits, Idle

LEMMA PollApart ==
  ASSUME NEW c \in Callers, PollInv, OthersAsWere(c), UNCHANGED isPolling,
         At(c, "polling")' <=> At(c, "polling")
  PROVE  PollInv'
<1>1. \A d \in Callers : At(d, "polling")' <=> At(d, "polling")
  BY DEF OthersAsWere, At
<1> QED
  BY <1>1 DEF PollInv

LEMMA PollBegins ==
  ASSUME NEW c \in Callers, PollInv, OthersAsWere(c), ~isPolling, isPolling', At(c, "polling")'
  PROVE  PollInv'
<1>1. \A d \in Callers : At(d, "polling")' <=> d = c
  BY DEF OthersAsWere, At, PollInv
<1> QED
  BY <1>1 DEF PollInv

LEMMA PollIsOver ==
  ASSUME NEW c \in Callers, PollInv, OthersAsWere(c), At(c, "polling"), ~isPolling', ~At(c, "polling")'
  PROVE  PollInv'
<1>1. \A d \in Callers : ~At(d, "polling")'
  BY DEF OthersAsWere, At, PollInv
<1> QED
  BY <1>1 DEF PollInv

\* A step that has nothing to do with the settings.
PlainStage(s) == s \notin {"applying", "retiming"}
StaysBooted(c) == c = Boot /\ call[c].stage \in EarlyStages => call'[c].stage \in EarlyStages \/ crossed'
KeepsSettings ==
    /\ phase = "down" => phase' = "down"
    /\ fresh' => fresh /\ timer' = timer
    /\ mem'.interval = mem.interval /\ mem'.ingest = mem.ingest
    /\ stored.exists => stored'.exists /\ SameSettings(stored'.set, stored.set)
    /\ crossed => crossed'
LEMMA ConfigApart ==
  ASSUME NEW c \in Callers, ConfigInv, OthersAsWere(c), KeepsSettings, StaysBooted(c),
         c \in Requests => /\ ~At(c, "applying") /\ ~At(c, "applying")'
                           /\ Retimes(c) => Retimes(c)'
  PROVE  ConfigInv' /\ (~crossed' /\ Booted' => Booted)
<1>1. ~crossed' /\ Booted' => ~crossed /\ Booted
  <2> SUFFICES ASSUME ~crossed', Booted' PROVE ~crossed /\ Booted
    OBVIOUS
  <2>1. call[Boot].stage \in EarlyStages => call'[Boot].stage \in EarlyStages
    BY PollerConstants DEF StaysBooted, OthersAsWere
  <2> QED
    BY <2>1 DEF Booted, KeepsSettings
<1> SUFFICES ASSUME ~crossed', Booted' PROVE ConfigInv'
  BY <1>1 DEF ConfigInv
<1>2. \A d \in Requests : At(d, "applying")' => At(d, "applying") /\ call'[d] = call[d]
  BY PollerConstants DEF OthersAsWere, At
<1>3. \A d \in Requests : At(d, "applying") => At(d, "applying")'
  BY PollerConstants DEF OthersAsWere, At
<1>4. \A d \in Requests : Retimes(d) => Retimes(d)'
  BY PollerConstants DEF OthersAsWere, At, Retimes
<1>5. /\ stored.exists
      /\ \A d, e \in Requests : At(d, "applying") /\ At(e, "applying") => d = e
      /\ \A d \in Requests : At(d, "applying") => SameSettings(call[d].next, stored.set)
      /\ (\A d \in Requests : ~At(d, "applying")) => SameSettings(mem, stored.set)
      /\ fresh /\ (\A d \in Requests : ~Retimes(d)) =>
            timer = IF mem.ingest THEN mem.interval ELSE 0
  BY <1>1 DEF ConfigInv
<1>6. stored'.exists /\ SameSettings(stored'.set, stored.set)
  BY <1>5 DEF KeepsSettings
<1>7. \A d, e \in Requests : At(d, "applying")' /\ At(e, "applying")' => d = e
  BY <1>2, <1>5
<1>8. \A d \in Requests : At(d, "applying")' => SameSettings(call'[d].next, stored'.set)
  BY <1>2, <1>5, <1>6 DEF SameSettings
<1>9. (\A d \in Requests : ~At(d, "applying")') => SameSettings(mem', stored'.set)
  BY <1>3, <1>5, <1>6 DEF SameSettings, KeepsSettings
<1>10. fresh' /\ (\A d \in Requests : ~Retimes(d)') =>
            timer' = IF mem'.ingest THEN mem'.interval ELSE 0
  BY <1>4, <1>5 DEF KeepsSettings
<1> QED
  BY <1>6, <1>7, <1>8, <1>9, <1>10 DEF ConfigInv

\* Steps that neither poll nor touch the settings.
LEMMA PlainStep ==
  ASSUME NEW c \in Callers, NEW f \in CallRows, PollerTyped, CallsFit, PollInv, ConfigInv,
         Does(c, f), CallFits(c, f), MayMove(c, f), UNCHANGED <<phase, fresh, isPolling>>, KeepsSettings,
         PlainStage(call[c].stage), PlainStage(f.stage), ~At(c, "polling"), f.stage # "polling",
         StaysBooted(c)
  PROVE  /\ call' \in [Callers -> CallRows] /\ call'[c] = f /\ OthersAsWere(c)
         /\ CallsFit' /\ PollInv' /\ ConfigInv' /\ (~crossed' /\ Booted' => Booted)
<1>1. call' \in [Callers -> CallRows] /\ call'[c] = f /\ OthersAsWere(c)
  BY OneCallMoves DEF PollerTyped
<1>2. CallsFit'
  BY FitsOn
<1>3. PollInv'
  BY <1>1, PollApart DEF At
<1>4. ~At(c, "applying") /\ ~At(c, "applying")' /\ ~Retimes(c)
  BY <1>1 DEF PlainStage, At, Retimes
<1>5. ConfigInv' /\ (~crossed' /\ Booted' => Booted)
  BY <1>1, <1>4, ConfigApart
<1> QED
  BY <1>1, <1>2, <1>3, <1>5

-----------------------------------------------------------------------------
LEMMA StageFacts ==
  /\ OwingStages \subseteq PairStages /\ OwingStages \subseteq BoundStages
  /\ "idle" \notin BoundStages /\ "polling" \notin BoundStages
  /\ \A s \in BoundStages : s \in PairStages \/ s = "settings"
  /\ "settings" \notin PairStages \cup OtherStages /\ "idle" \notin PairStages
  /\ \A s \in PairStages : s \notin EarlyStages /\ PlainStage(s) /\ s # "polling"
  /\ \A s \in EarlyStages \cup LateStages : PlainStage(s) /\ s # "polling"
  /\ PlainStage("idle") /\ PlainStage("saving") /\ "none" \notin PairKinds
  BY DEF OwingStages, PairStages, BoundStages, OtherStages, EarlyStages, LateStages, PlainStage, PairKinds

LEMMA PairCallsAre ==
  PairCalls = {c \in Requests : call[c].kind \in PairKinds}
  BY DEF PairCalls, PairKinds

LEMMA UpIsBooted ==
  ASSUME CallsFit
  PROVE  /\ phase = "up" => Booted
         /\ \A c \in Requests : ~Idle(c) => phase = "up"
         /\ ~Idle(Boot) => phase = "starting"
         /\ phase = "starting" => \A c \in Requests : Idle(c)
         /\ \A c \in Callers : call[c].stage \in PairStages =>
              Booted /\ ((c = Boot /\ ~Idle(Boot)) \/ c \in PairCalls)
<1>1. phase = "up" => Booted
  BY DEF CallsFit, Booted, Idle, EarlyStages
<1>2. /\ \A c \in Requests : ~Idle(c) => phase = "up"
      /\ ~Idle(Boot) => phase = "starting"
      /\ phase = "starting" => \A c \in Requests : Idle(c)
  BY DEF CallsFit
<1>3. ASSUME NEW c \in Callers, call[c].stage \in PairStages
      PROVE  Booted /\ ((c = Boot /\ ~Idle(Boot)) \/ c \in PairCalls)
  <2>1. ~Idle(c)
    BY <1>3, StageFacts DEF Idle
  <2>2. CASE c \in Requests
    <3>1. call[c].kind \in PairKinds
      BY <1>3, <2>2 DEF CallsFit, CallFits, RequestFits
    <3> QED
      BY <1>1, <1>2, <2>1, <2>2, <3>1, PairCallsAre
  <2>3. CASE c = Boot
    BY <1>2, <1>3, <2>1, <2>3, StageFacts DEF Booted
  <2>4. c # Tick
    <3>1. CASE c = Tick
      <4>1. call[c].stage \in {"idle", "polling"}
        BY <3>1 DEF CallsFit, CallFits, TickFits
      <4> QED
        BY <1>3, <4>1, StageFacts
    <3> QED
      BY <3>1
  <2> QED
    BY <2>2, <2>3, <2>4, PollerConstants
<1> QED
  BY <1>1, <1>2, <1>3

\* Requests that rest, the timer, and a start-up that rests have nothing to do with pairs.
LEMMA Unbound ==
  ASSUME CallsFit
  PROVE  /\ \A c \in Requests :
              call[c].kind \notin PairKinds => call[c].stage \notin BoundStages
         /\ \A c \in Requests : Idle(c) => call[c].kind \notin PairKinds
         /\ call[Tick].stage \notin BoundStages
         /\ Idle(Boot) => call[Boot].stage \notin BoundStages
<1>1. \A c \in Requests : call[c].kind \notin PairKinds => call[c].stage \notin BoundStages
  <2> SUFFICES ASSUME NEW c \in Requests, call[c].stage \in BoundStages
               PROVE  call[c].kind \in PairKinds
    OBVIOUS
  <2>1. RequestFits(call[c])
    BY PollerConstants DEF CallsFit, CallFits
  <2> QED
    BY <2>1, StageFacts DEF RequestFits
<1>2. \A c \in Requests : Idle(c) => call[c].kind \notin PairKinds
  <2> SUFFICES ASSUME NEW c \in Requests, Idle(c) PROVE call[c].kind \notin PairKinds
    OBVIOUS
  <2>1. RequestFits(call[c])
    BY PollerConstants DEF CallsFit, CallFits
  <2> QED
    BY <2>1, StageFacts DEF RequestFits, Idle
<1>3. call[Tick].stage \notin BoundStages
  <2>1. TickFits(call[Tick])
    BY PollerConstants DEF CallsFit, CallFits
  <2> QED
    BY <2>1, StageFacts DEF TickFits
<1>4. Idle(Boot) => call[Boot].stage \notin BoundStages
  BY StageFacts DEF Idle
<1> QED
  BY <1>1, <1>2, <1>3, <1>4

LEMMA AloneCaller ==
  ASSUME NEW c \in Callers, CallsFit, OnePairCall, ~tangled,
         (c = Boot /\ ~Idle(Boot)) \/ c \in PairCalls
  PROVE  Alone(c)
<1>1. CASE c = Boot /\ ~Idle(Boot)
  BY <1>1, UpIsBooted, Unbound, PollerConstants DEF Alone
<1>2. CASE c \in PairCalls
  <2>1. c \in Requests /\ ~Idle(c)
    BY <1>2, PairCallsAre, Unbound
  <2>2. Idle(Boot)
    BY <2>1, UpIsBooted
  <2>3. \A d \in Requests \ {c} : call[d].kind \notin PairKinds
    BY <1>2, PairCallsAre DEF OnePairCall
  <2> QED
    BY <2>1, <2>2, <2>3, Unbound, PollerConstants DEF Alone
<1> QED
  BY <1>1, <1>2

LEMMA AloneBegins ==
  ASSUME NEW c \in Requests, CallsFit, phase = "up", Overlaps(c), ~tangled'
  PROVE  ~tangled /\ Alone(c)
<1>1. ~tangled /\ \A d \in Requests \ {c} : call[d].kind \notin PairKinds
  BY PairCallsAre DEF Overlaps
<1>2. Idle(Boot)
  BY UpIsBooted
<1> QED
  BY <1>1, <1>2, Unbound, PollerConstants DEF Alone

LEMMA PairsNow ==
  ASSUME NEW c \in Callers, PairsInv, ~tangled, Alone(c)
  PROVE  PairsFor(c)
<1>1. ~Owes(c) => Nobody
  BY StageFacts DEF Alone, Owes, Nobody
<1>2. ~At(c, "featured") => \A d \in Callers : ~At(d, "featured")
  BY DEF Alone, At, BoundStages, OwingStages
<1>3. ~crossed => FeaturedFor(c)
  BY <1>1, <1>2 DEF PairsInv, FeaturedInv, FeaturedFor
<1> QED
  BY <1>3 DEF PairsInv, PairsFor, WritesWhatItRead, FindsWhatItFound

LEMMA PairsNext ==
  ASSUME NEW c \in Callers, OthersAsWere(c), CoreFirst', ~tangled' => Alone(c) /\ PairsFor(c)'
  PROVE  PairsInv'
<1> SUFFICES ASSUME ~tangled' PROVE PairsInv'
  BY DEF PairsInv, OnePairCall, WritesWhatItRead, FindsWhatItFound, FeaturedInv
<1>1. \A d \in Callers \ {c} :
        /\ call'[d].stage \notin BoundStages
        /\ d \in Requests => call'[d].kind \notin PairKinds
  BY DEF Alone, OthersAsWere
<1>2. OnePairCall'
  <2>1. PairCalls' = {d \in Requests : call'[d].kind \in PairKinds}
    BY DEF PairCalls, PairKinds
  <2> QED
    BY <1>1, <2>1, PollerConstants DEF OnePairCall
<1>3. \A d \in Callers \ {c} :
        /\ ~At(d, "writing")' /\ ~At(d, "upserting")' /\ ~At(d, "following")'
        /\ ~At(d, "checking")' /\ ~At(d, "featuring")' /\ ~At(d, "featured")'
        /\ ~Owes(d)'
  BY <1>1 DEF At, Owes, BoundStages, OwingStages
<1>4. \A d \in Callers \ {c} : call'[d].stage \notin {"writing", "following", "checking"}
  BY <1>1 DEF BoundStages, OwingStages
<1>5. WritesWhatItRead' /\ FindsWhatItFound'
  BY <1>3, PollerConstants DEF WritesWhatItRead, FindsWhatItFound, PairsFor
<1>6. FeaturedInv'
  <2> SUFFICES ASSUME ~crossed' PROVE FeaturedInv'
    BY DEF FeaturedInv
  <2>1. FeaturedFor(c)'
    BY DEF PairsFor
  <2>2. Nobody' => ~Owes(c)'
    BY DEF Nobody
  <2>3. At(Boot, "checking")' => c = Boot
    BY <1>3, PollerConstants
  <2>4. /\ \A d \in Callers : At(d, "featured")' => d = c
        /\ \A d \in Callers : At(d, "featuring")' => d = c
        /\ \A d \in Requests : At(d, "following")' => d = c
        /\ \A d \in Requests : call'[d].stage \in {"writing", "following", "checking"} => d = c
    BY <1>3, <1>4, PollerConstants
  <2>5. (\A d \in Callers : ~At(d, "featured")') => ~At(c, "featured")'
    OBVIOUS
  <2> QED
    BY <2>1, <2>2, <2>3, <2>4, <2>5 DEF FeaturedInv, FeaturedFor
<1> QED
  BY <1>2, <1>5, <1>6 DEF PairsInv

LEMMA CoreLater ==
  ASSUME ConfigInv, Booted, crossed => crossed', stored.exists => stored'.exists
  PROVE  CoreFirst'
  BY DEF ConfigInv, CoreFirst

LEMMA PairsApart ==
  ASSUME NEW c \in Callers, PairsInv, OthersAsWere(c), UNCHANGED pairs,
         ~crossed' => stored'.exists = stored.exists /\ stored'.set.featured = stored.set.featured,
         mem'.featured = mem.featured, tangled => tangled', crossed => crossed',
         ~crossed' /\ Booted' => Booted,
         call'[c].stage \notin BoundStages, call[c].stage \notin OwingStages \/ tangled',
         call'[c].kind \in PairKinds => call[c].kind \in PairKinds
  PROVE  PairsInv'
<1>1. \A d \in Callers : call'[d].stage \in BoundStages => d # c /\ call'[d] = call[d]
  BY DEF OthersAsWere
<1>2. Existing' = Existing /\ \A key : Tracked(key)' <=> Tracked(key)
  BY DEF Existing, Tracked
<1>3. CoreFirst'
  <2> SUFFICES ASSUME ~crossed', ~stored'.exists
               PROVE  /\ Existing' = {} \/ Tracked(Core.key)'
                      /\ At(Boot, "settings")' => Tracked(Core.key)'
    BY DEF CoreFirst
  <2>1. At(Boot, "settings")' => At(Boot, "settings")
    BY <1>1, PollerConstants DEF At, BoundStages
  <2> QED
    BY <1>2, <2>1 DEF PairsInv, CoreFirst
<1> SUFFICES ASSUME ~tangled' PROVE PairsInv'
  BY <1>3 DEF PairsInv, OnePairCall, WritesWhatItRead, FindsWhatItFound, FeaturedInv
<1>4. OnePairCall'
  <2>1. PairCalls' = {d \in Requests : call'[d].kind \in PairKinds}
    BY DEF PairCalls, PairKinds
  <2>2. \A d \in Requests : call'[d].kind \in PairKinds => d \in PairCalls
    BY PairCallsAre, PollerConstants DEF OthersAsWere
  <2> QED
    BY <2>1, <2>2 DEF PairsInv, OnePairCall
<1>5. WritesWhatItRead' /\ FindsWhatItFound'
  BY <1>1, <1>2, PollerConstants
     DEF PairsInv, WritesWhatItRead, FindsWhatItFound, At, BoundStages
<1>6. FeaturedInv'
  <2> SUFFICES ASSUME ~crossed' PROVE FeaturedInv'
    BY DEF FeaturedInv
  <2>1. \A d \in Callers : Owes(d)' <=> Owes(d)
    BY <1>1, StageFacts DEF Owes, OthersAsWere
  <2>2. Nobody' <=> Nobody
    BY <2>1 DEF Nobody
  <2>3. /\ \A d \in Callers : At(d, "featured")' <=> At(d, "featured")
        /\ \A d \in Callers : At(d, "featuring")' <=> At(d, "featuring")
        /\ \A d \in Callers : At(d, "checking")' <=> At(d, "checking")
        /\ \A d \in Callers : At(d, "following")' <=> At(d, "following")
    BY DEF At, OthersAsWere, BoundStages, OwingStages
  <2>4. \A d \in Callers : call'[d].stage \in {"writing", "following", "checking", "featuring", "featured"} =>
            call'[d] = call[d]
    BY <1>1 DEF BoundStages, OwingStages
  <2>5. stored'.exists = stored.exists /\ stored'.set.featured = stored.set.featured
    OBVIOUS
  <2>6. PICK k, m : k = stored.set.featured /\ m = mem.featured
    OBVIOUS
  <2>7. /\ Nobody /\ stored.exists => KeyStands(k)
        /\ Nobody /\ Booted => KeyStands(m)
        /\ Booted /\ (\A d \in Callers : ~At(d, "featured")) => k \in {m, NoKey}
        /\ \A d \in Callers : At(d, "featured") => k = call[d].key
        /\ \A d \in Callers : At(d, "featuring") \/ At(d, "featured") => KeyStands(call[d].key)
        /\ At(Boot, "checking") => KeyStands(k) /\ m \in {k, Core.key}
        /\ \A d \in Requests :
              call[d].stage \in {"writing", "following", "checking"} => call[d].snap.featured = m
        /\ \A d \in Requests : At(d, "following") =>
              /\ call[d].kind # "delete" /\ call[d].active => Tracked(call[d].meta.key)
              /\ call[d].snap.featured # NoKey /\ call[d].row.meta.key # call[d].snap.featured =>
                    Tracked(call[d].snap.featured)
    BY <2>6 DEF PairsInv, FeaturedInv
  <2>8. /\ Nobody' /\ stored'.exists => KeyStands(k)
        /\ Nobody' /\ Booted' => KeyStands(m)
        /\ Booted' /\ (\A d \in Callers : ~At(d, "featured")') => k \in {m, NoKey}
    BY <2>2, <2>3, <2>5, <2>7
  <2>9. /\ \A d \in Callers : At(d, "featured")' => k = call'[d].key
        /\ \A d \in Callers : At(d, "featuring")' \/ At(d, "featured")' => KeyStands(call'[d].key)
    <3>1. \A d \in Callers : At(d, "featured")' \/ At(d, "featuring")' => call'[d] = call[d]
      BY <2>4 DEF At
    <3> QED
      BY <2>3, <2>7, <3>1
  <2>10. At(Boot, "checking")' => KeyStands(k) /\ m \in {k, Core.key}
    BY <2>3, <2>7, PollerConstants
  <2>11. \A d \in Requests :
              call'[d].stage \in {"writing", "following", "checking"} => call'[d].snap.featured = m
    BY <2>4, <2>7, PollerConstants
  <2>12. \A d \in Requests : At(d, "following")' =>
              /\ call'[d].kind # "delete" /\ call'[d].active => Tracked(call'[d].meta.key)
              /\ call'[d].snap.featured # NoKey /\ call'[d].row.meta.key # call'[d].snap.featured =>
                    Tracked(call'[d].snap.featured)
    <3>1. \A d \in Requests : At(d, "following")' => call'[d] = call[d] /\ At(d, "following")
      BY <2>4, PollerConstants DEF At
    <3> QED
      BY <2>7, <3>1
  <2>13. stored'.set.featured = k /\ mem'.featured = m
    BY <2>5, <2>6
  <2> QED
    BY <2>8, <2>9, <2>10, <2>11, <2>12, <2>13 DEF FeaturedInv, KeyStands, Tracked
<1> QED
  BY <1>3, <1>4, <1>5, <1>6 DEF PairsInv

-----------------------------------------------------------------------------
LEMMA CallNames ==
  /\ "none" \in CallKinds /\ "boot" \in CallKinds /\ "tick" \in CallKinds /\ "poll" \in CallKinds
  /\ "config" \in CallKinds /\ "feature" \in CallKinds /\ "create" \in CallKinds
  /\ "update" \in CallKinds /\ "delete" \in CallKinds /\ "sync" \in CallKinds
  /\ \A s \in EarlyStages \cup PairStages \cup OtherStages \cup LateStages : s \in CallStages
  /\ "core" \in EarlyStages /\ "insert" \in EarlyStages /\ "settings" \in EarlyStages
  /\ "following" \in PairStages /\ "checking" \in PairStages /\ "falling" \in PairStages
  /\ "featuring" \in PairStages /\ "featured" \in PairStages /\ "writing" \in PairStages
  /\ "finding" \in PairStages /\ "upserting" \in PairStages /\ "reloading" \in PairStages
  /\ "idle" \in OtherStages /\ "polling" \in OtherStages /\ "saving" \in OtherStages
  /\ "applying" \in OtherStages /\ "retiming" \in OtherStages
  /\ \A s \in {"reconciling", "polling1", "timing", "syncing", "ready"} : s \in LateStages
  /\ \A t \in Thens : t \in CallStages
  /\ \A t \in {"idle", "retiming", "timing", "polling1", "ready", "reconciling", "reloading"} : t \in Thens
<1>1. \A t \in Thens : t \in CallStages
  BY DEF Thens, CallStages, PairStages, OtherStages, LateStages
<1> QED
  BY <1>1 DEF CallKinds, CallStages, EarlyStages, PairStages, OwingStages, OtherStages, LateStages, Thens

LEMMA CallsRow ==
  ASSUME mem \in Memory, NEW k \in CallKinds, NEW s \in CallStages
  PROVE  LET f == Calls(k, s) IN
         /\ f \in CallRows /\ f.kind = k /\ f.stage = s /\ f.snap = mem
         /\ f.then = "idle" /\ f.back = "idle" /\ f.fail = "idle"
<1>1. PICK f : f = [IdleCall EXCEPT !.kind = k, !.stage = s, !.snap = mem]
  OBVIOUS
<1>2. /\ f \in CallRows /\ f.kind = k /\ f.stage = s /\ f.snap = mem
      /\ f.then = IdleCall.then /\ f.back = IdleCall.back /\ f.fail = IdleCall.fail
  BY <1>1, IdleCallFits DEF CallRows
<1> QED
  BY <1>1, <1>2, IdleCallFits DEF Calls

LEMMA KeepsAll ==
  ASSUME UNCHANGED <<phase, timer, fresh, mem, stored>>, crossed => crossed'
  PROVE  KeepsSettings
  BY DEF KeepsSettings, SameSettings

\* A poll that begins, ends or is found to be under way already.
LEMMA PollStep ==
  ASSUME NEW c \in Callers, NEW f \in CallRows, PollerInv, Does(c, f), CallFits(c, f), MayMove(c, f),
         UNCHANGED <<phase, pairs, created, stored, mem, timer, fresh, crossed, tangled>>,
         isPolling' \in BOOLEAN, PollInv', StaysBooted(c),
         c \in Requests => /\ ~At(c, "applying") /\ f.stage # "applying"
                           /\ Retimes(c) => \/ f.stage = "retiming"
                                            \/ f.stage = "polling" /\ f.then = "retiming",
         f.stage \notin BoundStages, call[c].stage \notin OwingStages,
         f.kind \in PairKinds => call[c].kind \in PairKinds
  PROVE  PollerInv'
<1>1. call' \in [Callers -> CallRows] /\ call'[c] = f /\ OthersAsWere(c)
  BY OneCallMoves DEF PollerInv, PollerTyped
<1>2. CallsFit'
  BY FitsOn DEF PollerInv
<1>3. KeepsSettings
  BY KeepsAll
<1>4. ConfigInv' /\ (~crossed' /\ Booted' => Booted)
  <2>1. c \in Requests => /\ ~At(c, "applying") /\ ~At(c, "applying")'
                          /\ Retimes(c) => Retimes(c)'
    BY <1>1 DEF At, Retimes
  <2> QED
    BY <1>1, <1>3, <2>1, ConfigApart DEF PollerInv
<1>5. PairsInv'
  BY <1>1, <1>4, PairsApart DEF PollerInv
<1>6. PollerTyped'
  BY <1>1 DEF PollerInv, PollerTyped
<1> QED
  BY <1>2, <1>4, <1>5, <1>6 DEF PollerInv

LEMMA TimerFiresStep == ASSUME PollerInv, TimerFires PROVE PollerInv'
<1>1. PICK f : f = [IdleCall EXCEPT !.kind = "tick", !.stage = "polling"]
  OBVIOUS
<1>2. f \in CallRows /\ f.kind = "tick" /\ f.stage = "polling" /\ f.then = IdleCall.then
  BY <1>1, IdleCallFits, CallNames DEF CallRows
<1>3. /\ UNCHANGED <<phase, pairs, created, stored, mem, timer, fresh, crossed, tangled>>
      /\ Does(Tick, f) /\ ~isPolling /\ isPolling' = TRUE /\ Idle(Tick)
  BY <1>1 DEF TimerFires, priceTables, priceHistory, priceCounts
<1>4. Tick \in Callers /\ Tick \notin Requests /\ Tick # Boot
  BY PollerConstants
<1>5. CallFits(Tick, f) /\ MayMove(Tick, f)
  BY <1>2, <1>4, IdleCallFits DEF CallFits, TickFits, MayMove
<1>6. call'[Tick] = f /\ OthersAsWere(Tick)
  BY <1>2, <1>3, <1>4, OneCallMoves DEF PollerInv, PollerTyped
<1>7. PollInv'
  BY <1>2, <1>3, <1>4, <1>6, PollBegins DEF PollerInv, At
<1>8. f.stage \notin BoundStages /\ f.kind \notin PairKinds /\ call[Tick].stage \notin OwingStages
  BY <1>2, <1>3 DEF BoundStages, OwingStages, PairKinds, Idle
<1> QED
  BY <1>2, <1>3, <1>4, <1>5, <1>7, <1>8, PollStep DEF StaysBooted

LEMMA ThenFits ==
  ASSUME NEW c \in Callers, CallFits(c, call[c]), call[c] \in CallRows, NEW f \in CallRows,
         f.stage = call[c].then, f.stage = "idle" => f = IdleCall,
         f.stage # "idle" => SameBut(f, call[c]), ~Idle(c)
  PROVE  /\ CallFits(c, f) /\ f.stage \notin BoundStages \cup EarlyStages \cup {"polling", "applying"}
         /\ c \in Requests /\ f.stage # "idle" => f.stage \in {"retiming", "reloading"}
<1>1. f.stage \in Thens
  BY DEF CallRows
<1>2. f.stage \notin BoundStages \cup EarlyStages \cup {"polling", "applying"}
  BY <1>1 DEF Thens, BoundStages, OwingStages, EarlyStages
<1>3. CASE f.stage = "idle"
  BY <1>2, <1>3, IdleCallFits
<1>4. CASE f.stage # "idle"
  <2>1. SameBut(f, call[c])
    BY <1>4
  <2>2. c \in Requests => RequestFits(f) /\ f.stage \in {"retiming", "reloading"}
    <3> SUFFICES ASSUME c \in Requests
                 PROVE  RequestFits(f) /\ f.stage \in {"retiming", "reloading"}
      OBVIOUS
    <3>1. RequestFits(call[c])
      BY DEF CallFits
    <3>2. f.stage \in {"retiming", "reloading"}
      BY <1>4, <3>1 DEF RequestFits
    <3>3. "retiming" \notin PairStages /\ f.stage # "writing" /\ f.stage \in PairStages \cup OtherStages
      BY <3>2 DEF PairStages, OwingStages, OtherStages
    <3> QED
      BY <1>4, <2>1, <3>1, <3>2, <3>3 DEF RequestFits, SameBut
  <2>3. c = Tick => TickFits(f)
    BY <1>4 DEF CallFits, TickFits
  <2>4. c = Boot => BootFits(f)
    <3> SUFFICES ASSUME c = Boot PROVE BootFits(f)
      OBVIOUS
    <3>1. BootFits(call[c])
      BY DEF CallFits
    <3>2. f.stage \in Thens \ {"retiming"}
      BY <1>1, <3>1 DEF BootFits
    <3>3. f.stage \in CallStages \ {"following", "writing", "saving", "applying", "retiming", "checking"}
      BY <3>2, CallNames DEF Thens
    <3> QED
      BY <1>2, <2>1, <3>1, <3>3 DEF BootFits, SameBut
  <2> QED
    BY <1>2, <2>2, <2>3, <2>4 DEF CallFits
<1> QED
  BY <1>3, <1>4

LEMMA PollEndsStep == ASSUME NEW c \in Callers, PollerInv, PollEnds(c) PROVE PollerInv'
<1>1. /\ UNCHANGED <<phase, pairs, created, stored, mem, timer, fresh, crossed, tangled>>
      /\ call[c].stage = "polling" /\ isPolling' = FALSE /\ Goes(c, call[c].then)
  BY DEF PollEnds, At, Returns, priceTables, priceHistory, priceCounts
<1>2. call \in [Callers -> CallRows] /\ call[c] \in CallRows /\ CallFits(c, call[c])
  BY DEF PollerInv, PollerTyped, CallsFit
<1>3. call[c].then \in Thens /\ call[c].then \in CallStages
  BY <1>2, CallFields, CallNames
<1>4. PICK f \in CallRows : /\ Does(c, f) /\ f.stage = call[c].then
                            /\ f.stage = "idle" => f = IdleCall
                            /\ f.stage # "idle" => SameBut(f, call[c])
  BY <1>1, <1>2, <1>3, GoesTo
<1>5. /\ CallFits(c, f) /\ f.stage \notin BoundStages \cup EarlyStages \cup {"polling", "applying"}
  BY <1>1, <1>2, <1>4, ThenFits DEF Idle
<1>6. call'[c] = f /\ OthersAsWere(c)
  BY <1>2, <1>4, OneCallMoves
<1>7. PollInv'
  BY <1>1, <1>5, <1>6, PollIsOver DEF PollerInv, At
<1>8. MayMove(c, f) /\ StaysBooted(c)
  BY <1>1 DEF MayMove, Idle, StaysBooted, EarlyStages
<1>9. /\ ~At(c, "applying") /\ f.stage # "applying"
      /\ Retimes(c) => f.stage = "retiming"
  BY <1>1, <1>4, <1>5 DEF At, Retimes
<1>10. call[c].stage \notin OwingStages /\ (f.kind \in PairKinds => call[c].kind \in PairKinds)
  BY <1>1, <1>4, IdleCallFits, StageFacts DEF OwingStages, SameBut
<1> QED
  BY <1>1, <1>4, <1>5, <1>7, <1>8, <1>9, <1>10, PollStep

LEMMA SyncNowStep == ASSUME NEW c \in Requests, PollerInv, SyncNow(c) PROVE PollerInv'
<1>1. PICK f : f = Calls("poll", "polling")
  OBVIOUS
<1>2. /\ UNCHANGED <<phase, pairs, created, stored, mem, timer, fresh, crossed, tangled>>
      /\ phase = "up" /\ Idle(c) /\ ~isPolling /\ isPolling' = TRUE /\ Does(c, f)
  BY <1>1 DEF SyncNow, Begins, priceTables, priceHistory
<1>3. /\ f \in CallRows /\ f.kind = "poll" /\ f.stage = "polling"
      /\ f.then = "idle" /\ f.back = "idle" /\ f.fail = "idle"
  BY <1>1, CallsRow, CallNames DEF PollerInv, PollerTyped
<1>4. c \in Callers /\ c # Tick /\ c # Boot
  BY PollerConstants
<1>5. CallFits(c, f) /\ MayMove(c, f)
  BY <1>2, <1>3, <1>4, StageFacts, CallNames DEF CallFits, RequestFits, MayMove, PairStages, OwingStages
<1>6. call'[c] = f /\ OthersAsWere(c)
  BY <1>2, <1>3, <1>4, OneCallMoves DEF PollerInv, PollerTyped
<1>7. PollInv'
  BY <1>2, <1>3, <1>4, <1>6, PollBegins DEF PollerInv, At
<1>8. /\ f.stage \notin BoundStages /\ f.kind \notin PairKinds /\ call[c].stage \notin OwingStages
      /\ ~At(c, "applying") /\ ~Retimes(c)
  BY <1>2, <1>3 DEF BoundStages, OwingStages, PairKinds, Idle, At, Retimes
<1> QED
  BY <1>2, <1>3, <1>4, <1>5, <1>7, <1>8, PollStep DEF StaysBooted

LEMMA PollOnceMoves ==
  ASSUME NEW c \in Callers, NEW t \in Thens, PollerTyped, PollInv, PollOnce(c, t), ~At(c, "polling")
  PROVE  \E f \in CallRows :
           /\ Does(c, f) /\ PollInv' /\ isPolling' \in BOOLEAN
           /\ \/ /\ f.stage = t /\ (t = "idle" => f = IdleCall)
                 /\ t # "idle" => SameBut(f, call[c])
              \/ /\ f.stage = "polling" /\ f.then = t /\ f.kind = call[c].kind
                 /\ f.snap = call[c].snap /\ f.back = call[c].back /\ f.fail = call[c].fail
<1>1. call \in [Callers -> CallRows] /\ call[c] \in CallRows /\ t \in CallStages /\ isPolling \in BOOLEAN
  BY CallNames DEF PollerTyped
<1>2. CASE isPolling
  <2>1. PICK f \in CallRows : /\ Does(c, f) /\ f.stage = t
                              /\ t = "idle" => f = IdleCall
                              /\ t # "idle" => SameBut(f, call[c])
    BY <1>1, <1>2, GoesTo DEF PollOnce
  <2>2. call'[c] = f /\ OthersAsWere(c) /\ isPolling' = isPolling
    BY <1>1, <1>2, <2>1, OneCallMoves DEF PollOnce
  <2>3. t # "polling"
    BY DEF Thens
  <2>4. PollInv'
    BY <2>1, <2>2, <2>3, PollApart DEF At
  <2> QED
    BY <1>1, <2>1, <2>2, <2>4
<1>3. CASE ~isPolling
  <2>1. PICK f : f = [call[c] EXCEPT !.stage = "polling", !.then = t]
    OBVIOUS
  <2>2. /\ f \in CallRows /\ f.stage = "polling" /\ f.then = t /\ f.kind = call[c].kind
        /\ f.snap = call[c].snap /\ f.back = call[c].back /\ f.fail = call[c].fail
    BY <1>1, <2>1, CallNames DEF CallRows
  <2>3. Does(c, f) /\ isPolling' = TRUE
    BY <1>3, <2>1 DEF PollOnce
  <2>4. call'[c] = f /\ OthersAsWere(c)
    BY <1>1, <2>2, <2>3, OneCallMoves
  <2>5. PollInv'
    BY <1>3, <2>2, <2>3, <2>4, PollBegins DEF At
  <2> QED
    BY <2>2, <2>3, <2>5
<1> QED
  BY <1>2, <1>3

\* Going on to what a call does after a poll, or polling first.
LEMMA GoesOrPolls ==
  ASSUME NEW c \in Callers, NEW t \in Thens, PollerTyped, PollInv, ~At(c, "polling"),
         PollOnce(c, t) \/ (Goes(c, t) /\ UNCHANGED isPolling)
  PROVE  \E f \in CallRows :
           /\ Does(c, f) /\ PollInv' /\ isPolling' \in BOOLEAN
           /\ \/ /\ f.stage = t /\ (t = "idle" => f = IdleCall)
                 /\ t # "idle" => SameBut(f, call[c])
              \/ /\ f.stage = "polling" /\ f.then = t /\ f.kind = call[c].kind
                 /\ f.snap = call[c].snap /\ f.back = call[c].back /\ f.fail = call[c].fail
<1>1. CASE PollOnce(c, t)
  BY <1>1, PollOnceMoves
<1>2. CASE Goes(c, t) /\ UNCHANGED isPolling
  <2>1. call \in [Callers -> CallRows] /\ t \in CallStages /\ isPolling \in BOOLEAN
    BY CallNames DEF PollerTyped
  <2>2. PICK f \in CallRows : /\ Does(c, f) /\ f.stage = t
                              /\ t = "idle" => f = IdleCall
                              /\ t # "idle" => SameBut(f, call[c])
    BY <1>2, <2>1, GoesTo
  <2>3. call'[c] = f /\ OthersAsWere(c)
    BY <2>1, <2>2, OneCallMoves
  <2>4. t # "polling"
    BY DEF Thens
  <2>5. PollInv'
    BY <1>2, <2>2, <2>3, <2>4, PollApart DEF At
  <2> QED
    BY <1>2, <2>1, <2>2, <2>5
<1> QED
  BY <1>1, <1>2

LEMMA ReloadPairStep == ASSUME NEW c \in Callers, PollerInv, ReloadPair(c) PROVE PollerInv'
<1>1. /\ UNCHANGED <<phase, pairs, created, stored, mem, timer, fresh, crossed, tangled>>
      /\ call[c].stage = "reloading"
      /\ PollOnce(c, call[c].back) \/ (Goes(c, call[c].back) /\ UNCHANGED isPolling)
  BY DEF ReloadPair, At, priceTables, priceHistory, priceCounts
<1>2. call[c] \in CallRows /\ CallFits(c, call[c])
  BY DEF PollerInv, PollerTyped, CallsFit
<1>3. PICK t \in Backs : t = call[c].back
  BY <1>2, CallFields
<1>4. t \in Thens /\ t # "retiming"
  BY DEF Backs, Thens
<1>5. ~At(c, "polling") /\ ~At(c, "applying") /\ ~Retimes(c) /\ ~Idle(c)
  BY <1>1 DEF At, Retimes, Idle
<1>6. PICK f \in CallRows :
           /\ Does(c, f) /\ PollInv' /\ isPolling' \in BOOLEAN
           /\ \/ /\ f.stage = t /\ (t = "idle" => f = IdleCall)
                 /\ t # "idle" => SameBut(f, call[c])
              \/ /\ f.stage = "polling" /\ f.then = t /\ f.kind = call[c].kind
                 /\ f.snap = call[c].snap /\ f.back = call[c].back /\ f.fail = call[c].fail
  BY <1>1, <1>3, <1>4, <1>5, GoesOrPolls DEF PollerInv
<1>7. /\ f.stage \in Backs \cup {"polling"}
      /\ f.stage \notin BoundStages /\ f.stage \notin EarlyStages /\ f.stage # "applying"
  <2>1. f.stage \in Backs \cup {"polling"}
    BY <1>6
  <2> QED
    BY <2>1 DEF Backs, BoundStages, OwingStages, EarlyStages
<1>8. c # Tick
  BY <1>1, <1>2 DEF CallFits, TickFits
<1>9. c \in Requests => RequestFits(f) /\ f.stage # "applying"
  <2> SUFFICES ASSUME c \in Requests PROVE RequestFits(f)
    BY <1>7
  <2>1. RequestFits(call[c]) /\ t = "idle"
    BY <1>2, <1>3 DEF CallFits, RequestFits
  <2>2. CASE f = IdleCall
    BY <2>2, IdleCallFits DEF CallFits
  <2>3. CASE f.stage = "polling" /\ f.then = t /\ f.back = call[c].back /\ f.fail = call[c].fail
    BY <2>1, <2>3 DEF RequestFits, PairStages, OwingStages, OtherStages
  <2> QED
    BY <1>6, <2>1, <2>2, <2>3
<1>10. c = Boot => BootFits(f)
  <2> SUFFICES ASSUME c = Boot PROVE BootFits(f)
    OBVIOUS
  <2>1. BootFits(call[c])
    BY <1>2 DEF CallFits
  <2>2. f.then # "retiming"
    BY <1>4, <1>6, <2>1, IdleCallFits DEF BootFits, SameBut
  <2>3. f.stage \in CallStages \ {"following", "writing", "saving", "applying", "retiming", "checking"}
    BY <1>7, CallNames DEF Backs
  <2> QED
    BY <1>7, <2>2, <2>3 DEF BootFits
<1>11. CallFits(c, f) /\ MayMove(c, f)
  BY <1>5, <1>8, <1>9, <1>10 DEF CallFits, MayMove
<1>12. call[c].stage \notin OwingStages /\ (f.kind \in PairKinds => call[c].kind \in PairKinds)
  BY <1>1, <1>6, IdleCallFits, StageFacts DEF OwingStages, SameBut
<1>13. StaysBooted(c)
  BY <1>1 DEF StaysBooted, EarlyStages
<1> QED
  BY <1>1, <1>5, <1>6, <1>7, <1>9, <1>11, <1>12, <1>13, PollStep

\* Steps of start-up.
LEMMA BootMay ==
  ASSUME CallsFit, ~Idle(Boot)
  PROVE  /\ phase = "starting" /\ ~fresh /\ Boot \in Callers /\ Boot \notin Requests
         /\ \A f : MayMove(Boot, f) /\ (CallFits(Boot, f) <=> BootFits(f))
         /\ BootFits(call[Boot])
<1>1. phase = "starting" /\ ~fresh /\ Boot \in Callers /\ Boot \notin Requests /\ Boot # Tick
  BY PollerConstants DEF CallsFit
<1>2. \A f : MayMove(Boot, f) /\ (CallFits(Boot, f) <=> BootFits(f))
  BY <1>1 DEF MayMove, CallFits
<1> QED
  BY <1>1, <1>2 DEF CallsFit

LEMMA FirstPollStep == ASSUME PollerInv, FirstPoll PROVE PollerInv'
<1>1. /\ UNCHANGED <<phase, pairs, created, stored, mem, timer, fresh, crossed, tangled>>
      /\ call[Boot].stage = "polling1"
      /\ PollOnce(Boot, "timing") \/ (Goes(Boot, "timing") /\ UNCHANGED isPolling)
  BY DEF FirstPoll, At, priceTables, priceHistory, priceCounts
<1>2. ~Idle(Boot) /\ CallsFit
  BY <1>1 DEF Idle, PollerInv
<1>3. Boot \in Callers /\ Boot \notin Requests /\ BootFits(call[Boot])
  BY <1>2, BootMay
<1>4. ~At(Boot, "polling") /\ "timing" \in Thens
  BY <1>1, CallNames DEF At
<1>5. PICK f \in CallRows :
           /\ Does(Boot, f) /\ PollInv' /\ isPolling' \in BOOLEAN
           /\ \/ f.stage = "timing" /\ SameBut(f, call[Boot])
              \/ /\ f.stage = "polling" /\ f.then = "timing" /\ f.kind = call[Boot].kind
                 /\ f.snap = call[Boot].snap /\ f.back = call[Boot].back /\ f.fail = call[Boot].fail
  <2>1. "timing" # "idle"
    OBVIOUS
  <2> QED
    BY <1>1, <1>3, <1>4, <2>1, GoesOrPolls DEF PollerInv
<1>6. f.stage \in {"timing", "polling"} /\ f.then # "retiming" /\ f.kind = call[Boot].kind
  BY <1>3, <1>5 DEF BootFits, SameBut
<1>7. /\ f.stage \in CallStages \ {"following", "writing", "saving", "applying", "retiming", "checking"}
      /\ f.stage \notin EarlyStages /\ f.stage \notin BoundStages
  BY <1>6, CallNames DEF BoundStages, OwingStages, EarlyStages
<1>8. CallFits(Boot, f) /\ MayMove(Boot, f)
  BY <1>2, <1>6, <1>7, BootMay DEF BootFits
<1>9. call[Boot].stage \notin OwingStages /\ StaysBooted(Boot)
  BY <1>1 DEF OwingStages, StaysBooted, EarlyStages
<1> QED
  BY <1>1, <1>3, <1>5, <1>6, <1>7, <1>8, <1>9, PollStep

LEMMA FirstTimerStep == ASSUME PollerInv, FirstTimer PROVE PollerInv'
<1>1. /\ UNCHANGED <<phase, pairs, created, stored, mem, isPolling, fresh, crossed, tangled>>
      /\ call[Boot].stage = "timing"
      /\ timer' = IF call[Boot].snap.ingest THEN call[Boot].snap.interval ELSE 0
      /\ Does(Boot, [call[Boot] EXCEPT !.stage = "syncing", !.fail = "ready"])
  BY DEF FirstTimer, At, priceTables, priceHistory, priceCounts
<1>2. ~Idle(Boot) /\ CallsFit
  BY <1>1 DEF Idle, PollerInv
<1>3. Boot \in Callers /\ Boot \notin Requests /\ BootFits(call[Boot]) /\ ~fresh
  BY <1>2, BootMay
<1>4. call[Boot] \in CallRows
  BY <1>3 DEF PollerInv, PollerTyped
<1>5. PICK f : f = [call[Boot] EXCEPT !.stage = "syncing", !.fail = "ready"]
  OBVIOUS
<1>6. "ready" \in Fails /\ "syncing" \in CallStages
  BY CallNames DEF Fails
<1>7. f \in CallRows /\ f.stage = "syncing" /\ f.then = call[Boot].then /\ f.kind = call[Boot].kind
  BY <1>4, <1>5, <1>6 DEF CallRows
<1>8. f.stage \in CallStages \ ({"following", "writing", "saving", "applying", "retiming", "checking"} \cup EarlyStages)
  BY <1>6, <1>7 DEF EarlyStages
<1>9. CallFits(Boot, f) /\ MayMove(Boot, f)
  BY <1>2, <1>3, <1>7, <1>8, BootMay DEF BootFits
<1>10. timer' \in Intervals \cup {0}
  <2>1. call[Boot].snap \in Memory
    BY <1>4, CallFields
  <2>2. call[Boot].snap.interval \in Intervals
    BY <2>1, MemoryIs
  <2> QED
    BY <1>1, <2>2
<1>11. KeepsSettings
  BY <1>1, <1>3 DEF KeepsSettings, SameSettings
<1>12. /\ call' \in [Callers -> CallRows] /\ call'[Boot] = f /\ OthersAsWere(Boot)
       /\ CallsFit' /\ PollInv' /\ ConfigInv' /\ (~crossed' /\ Booted' => Booted)
  <2>1. PlainStage(call[Boot].stage) /\ PlainStage(f.stage) /\ ~At(Boot, "polling") /\ f.stage # "polling"
    BY <1>1, <1>7 DEF PlainStage, At
  <2>2. StaysBooted(Boot)
    BY <1>1 DEF StaysBooted, EarlyStages
  <2> QED
    BY <1>1, <1>3, <1>5, <1>7, <1>9, <1>11, <2>1, <2>2, PlainStep DEF PollerInv
<1>13. f.stage \notin BoundStages /\ call[Boot].stage \notin OwingStages
  BY <1>1, <1>7 DEF BoundStages, OwingStages
<1>14. PairsInv'
  BY <1>1, <1>3, <1>7, <1>12, <1>13, PairsApart DEF PollerInv
<1>15. PollerTyped'
  BY <1>1, <1>10, <1>12 DEF PollerInv, PollerTyped
<1> QED
  BY <1>12, <1>14, <1>15 DEF PollerInv

LEMMA ReadyStep == ASSUME PollerInv, Ready PROVE PollerInv'
<1>1. /\ UNCHANGED <<pairs, created, stored, mem, timer, isPolling, fresh, crossed, tangled>>
      /\ call[Boot].stage = "ready" /\ phase' = "up" /\ Does(Boot, IdleCall)
  BY DEF Ready, At, Goes, priceTables, priceHistory, priceCounts
<1>2. ~Idle(Boot) /\ CallsFit
  BY <1>1 DEF Idle, PollerInv
<1>3. /\ Boot \in Callers /\ Boot \notin Requests /\ phase = "starting"
      /\ IdleCall \in CallRows /\ IdleCall.stage = "idle" /\ IdleCall.kind = "none"
  BY <1>2, BootMay, IdleCallFits
<1>4. call' \in [Callers -> CallRows] /\ call'[Boot] = IdleCall /\ OthersAsWere(Boot)
  BY <1>1, <1>3, OneCallMoves DEF PollerInv, PollerTyped
<1>5. CallsFit'
  <2>1. \A d \in Callers : CallFits(d, call'[d])
    BY <1>2, <1>4, IdleCallFits DEF CallsFit, OthersAsWere
  <2>2. call'[Boot].stage = "idle"
    BY <1>3, <1>4
  <2> QED
    BY <1>1, <2>1, <2>2 DEF CallsFit, CallFits, RequestFits, TickFits, BootFits, Idle
<1>6. PollInv'
  BY <1>1, <1>3, <1>4, PollApart DEF PollerInv, At
<1>7. KeepsSettings
  BY <1>1, <1>3 DEF KeepsSettings, SameSettings
<1>8. ConfigInv' /\ (~crossed' /\ Booted' => Booted)
  <2>1. StaysBooted(Boot)
    BY <1>1 DEF StaysBooted, EarlyStages
  <2> QED
    BY <1>3, <1>4, <1>7, <2>1, ConfigApart DEF PollerInv
<1>9. PairsInv'
  <2>1. IdleCall.stage \notin BoundStages /\ call[Boot].stage \notin OwingStages /\ IdleCall.kind \notin PairKinds
    BY <1>1, <1>3, StageFacts DEF OwingStages
  <2> QED
    BY <1>1, <1>3, <1>4, <1>8, <2>1, PairsApart DEF PollerInv
<1>10. PollerTyped'
  BY <1>1, <1>4 DEF PollerInv, PollerTyped
<1> QED
  BY <1>5, <1>6, <1>8, <1>9, <1>10 DEF PollerInv

LEMMA FirstSyncStep == ASSUME PollerInv, FirstSync PROVE PollerInv'
<1>1. /\ UNCHANGED <<phase, pairs, created, stored, mem, timer, isPolling, fresh, crossed, tangled>>
      /\ call[Boot].stage = "syncing"
  BY DEF FirstSync, At, priceTables, priceProcess, priceHistory, priceCounts
<1>2. ~Idle(Boot) /\ CallsFit
  BY <1>1 DEF Idle, PollerInv
<1>3. Boot \in Callers /\ Boot \notin Requests /\ BootFits(call[Boot])
  BY <1>2, BootMay
<1>4. call \in [Callers -> CallRows] /\ call[Boot] \in CallRows /\ mem \in Memory
  BY <1>3 DEF PollerInv, PollerTyped
<1>5. PICK f \in CallRows : Does(Boot, f) /\ f.stage \in {"ready", "finding"} /\ f.then # "retiming"
  <2>1. CASE Goes(Boot, "ready")
    <3>1. "ready" \in CallStages
      BY CallNames
    <3>2. PICK f \in CallRows : Does(Boot, f) /\ f.stage = "ready" /\ SameBut(f, call[Boot])
      BY <1>3, <1>4, <2>1, <3>1, GoesTo
    <3> QED
      BY <1>3, <3>2 DEF SameBut, BootFits
  <2>2. CASE \E meta \in Fitting :
             Does(Boot, [IdleCall EXCEPT !.kind = "boot", !.stage = "finding", !.snap = mem,
                           !.meta = meta, !.back = "ready", !.fail = "ready"])
    <3>1. PICK meta \in Fitting :
             Does(Boot, [IdleCall EXCEPT !.kind = "boot", !.stage = "finding", !.snap = mem,
                           !.meta = meta, !.back = "ready", !.fail = "ready"])
      BY <2>2
    <3>2. meta \in Metas /\ "ready" \in Backs /\ "ready" \in Fails
      BY DEF Fitting, Backs, Fails
    <3>3. PICK f : f = [IdleCall EXCEPT !.kind = "boot", !.stage = "finding", !.snap = mem,
                           !.meta = meta, !.back = "ready", !.fail = "ready"]
      OBVIOUS
    <3>4. f \in CallRows /\ f.stage = "finding" /\ f.then = IdleCall.then
      BY <1>4, <3>2, <3>3, IdleCallFits, CallNames DEF CallRows
    <3> QED
      BY <3>1, <3>3, <3>4, IdleCallFits
  <2> QED
    BY <2>1, <2>2 DEF FirstSync
<1>6. f.stage \in CallStages \ ({"following", "writing", "saving", "applying", "retiming", "checking"} \cup EarlyStages)
  BY <1>5, CallNames DEF EarlyStages
<1>7. CallFits(Boot, f) /\ MayMove(Boot, f)
  BY <1>2, <1>5, <1>6, BootMay DEF BootFits
<1>8. /\ call' \in [Callers -> CallRows] /\ call'[Boot] = f /\ OthersAsWere(Boot)
      /\ CallsFit' /\ PollInv' /\ ConfigInv' /\ (~crossed' /\ Booted' => Booted)
  <2>1. PlainStage(call[Boot].stage) /\ PlainStage(f.stage) /\ ~At(Boot, "polling") /\ f.stage # "polling"
    BY <1>1, <1>5 DEF PlainStage, At
  <2>2. StaysBooted(Boot) /\ KeepsSettings
    BY <1>1, KeepsAll DEF StaysBooted, EarlyStages
  <2> QED
    BY <1>1, <1>3, <1>5, <1>7, <2>1, <2>2, PlainStep DEF PollerInv
<1>9. PairsInv'
  <2>1. f.stage \notin BoundStages /\ call[Boot].stage \notin OwingStages
    BY <1>1, <1>5 DEF BoundStages, OwingStages
  <2>2. ~tangled' => Alone(Boot)
    BY <1>1, <1>2, <1>3, AloneCaller DEF PollerInv, PairsInv
  <2>3. ~tangled' => PairsFor(Boot)
    BY <1>1, <1>3, <2>2, PairsNow DEF PollerInv
  <2>4. ~tangled' => PairsFor(Boot)'
    <3> SUFFICES ASSUME ~tangled' PROVE PairsFor(Boot)'
      OBVIOUS
    <3>1. PairsFor(Boot)
      BY <2>3
    <3>2. f.stage \notin {"upserting", "featured", "featuring", "checking", "following"} \cup OwingStages
      BY <1>5 DEF OwingStages
    <3> QED
      BY <1>1, <1>3, <1>8, <2>1, <3>1, <3>2
         DEF PairsFor, FeaturedFor, At, Owes, KeyStands, Tracked, OwingStages
  <2>5. Booted
    <3>1. call[Boot].stage \notin EarlyStages /\ phase = "starting"
      BY <1>1, <1>2, BootMay DEF EarlyStages
    <3> QED
      BY <3>1 DEF Booted
  <2>6. CoreFirst'
    BY <1>1, <2>5, CoreLater DEF PollerInv
  <2> QED
    BY <1>3, <1>8, <2>2, <2>4, <2>6, PairsNext
<1>10. PollerTyped'
  BY <1>1, <1>8 DEF PollerInv, PollerTyped
<1> QED
  BY <1>8, <1>9, <1>10 DEF PollerInv

LEMMA StartPollingStep == ASSUME NEW c \in Requests, PollerInv, StartPolling(c) PROVE PollerInv'
<1>1. /\ UNCHANGED <<phase, pairs, created, stored, mem, isPolling, crossed, tangled>>
      /\ call[c].stage = "retiming" /\ timer' = IF mem.ingest THEN mem.interval ELSE 0
      /\ fresh' = TRUE /\ Does(c, IdleCall)
  BY DEF StartPolling, At, Goes, priceTables
<1>2. /\ c \in Callers /\ c # Boot /\ c # Tick /\ IdleCall \in CallRows
      /\ IdleCall.stage = "idle" /\ IdleCall.kind = "none"
  BY PollerConstants, IdleCallFits
<1>3. call' \in [Callers -> CallRows] /\ call'[c] = IdleCall /\ OthersAsWere(c)
  BY <1>1, <1>2, OneCallMoves DEF PollerInv, PollerTyped
<1>4. phase = "up"
  BY <1>1, UpIsBooted DEF PollerInv, Idle
<1>5. CallsFit'
  <2>1. \A d \in Callers : CallFits(d, call'[d])
    BY <1>3, IdleCallFits DEF PollerInv, CallsFit, OthersAsWere
  <2>2. Idle(Boot)'
    BY <1>2, <1>3, <1>4, PollerConstants DEF PollerInv, CallsFit, Idle, OthersAsWere
  <2> QED
    BY <1>1, <1>4, <2>1, <2>2 DEF CallsFit, CallFits, RequestFits, TickFits, BootFits, Idle
<1>6. PollInv'
  BY <1>1, <1>2, <1>3, PollApart DEF PollerInv, At
<1>7. Booted' => Booted
  BY <1>1, <1>2, <1>3, PollerConstants DEF Booted, OthersAsWere
<1>8. ConfigInv'
  <2> SUFFICES ASSUME ~crossed', Booted' PROVE ConfigInv'
    BY DEF ConfigInv
  <2>1. \A d \in Requests : (At(d, "applying")' <=> At(d, "applying")) /\ (At(d, "applying")' => call'[d] = call[d])
    BY <1>1, <1>2, <1>3, PollerConstants DEF At, OthersAsWere
  <2> QED
    BY <1>1, <1>7, <2>1, PollerConstants DEF PollerInv, ConfigInv
<1>9. PairsInv'
  <2>1. IdleCall.stage \notin BoundStages /\ call[c].stage \notin OwingStages /\ IdleCall.kind \notin PairKinds
    BY <1>1, <1>2, StageFacts DEF OwingStages
  <2> QED
    BY <1>1, <1>2, <1>3, <1>7, <2>1, PairsApart DEF PollerInv
<1>10. PollerTyped'
  <2>1. timer' \in Intervals \cup {0}
    BY <1>1, MemoryIs DEF PollerInv, PollerTyped
  <2> QED
    BY <1>1, <1>3, <2>1 DEF PollerInv, PollerTyped
<1> QED
  BY <1>5, <1>6, <1>8, <1>9, <1>10 DEF PollerInv

LEMMA QueryFailsStep == ASSUME NEW c \in Callers, PollerInv, QueryFails(c) PROVE PollerInv'
<1>1. /\ UNCHANGED <<phase, pairs, created, stored, mem, timer, isPolling, fresh>>
      /\ call[c].stage \in Statements
      /\ crossed' = (crossed \/ call[c].fail = "syncing")
      /\ tangled' = (tangled \/ HalfDone(c))
  BY DEF QueryFails, priceTables, priceProcess
<1>2. /\ call[c].stage \notin {"applying", "retiming", "polling", "idle"}
      /\ call[c].stage \in OwingStages => HalfDone(c)
  BY <1>1 DEF Statements, OwingStages, HalfDone
<1>3. call \in [Callers -> CallRows] /\ call[c] \in CallRows /\ CallFits(c, call[c])
  BY DEF PollerInv, PollerTyped, CallsFit
<1>4. PICK e \in Fails : e = call[c].fail
  BY <1>3, CallFields
<1>5. PICK f \in CallRows : /\ Does(c, f) /\ CallFits(c, f)
                            /\ f.stage \in {"idle", "syncing", "ready"} /\ f.kind \in {"none", "boot"}
  <2>1. CASE e = "idle"
    <3>1. Does(c, IdleCall)
      BY <1>1, <1>4, <2>1 DEF QueryFails, Goes
    <3> QED
      BY <3>1, IdleCallFits
  <2>2. CASE e # "idle"
    <3>1. e \in {"syncing", "ready"}
      BY <2>2 DEF Fails
    <3>2. PICK f : f = [IdleCall EXCEPT !.kind = "boot", !.stage = e, !.fail = "ready"]
      OBVIOUS
    <3>3. Does(c, f)
      BY <1>1, <1>4, <2>2, <3>2 DEF QueryFails
    <3>4. e \in CallStages /\ "ready" \in Fails
      BY <3>1, CallNames DEF Fails
    <3>5. f \in CallRows /\ f.kind = "boot" /\ f.stage = e /\ f.then = IdleCall.then
      BY <3>2, <3>4, IdleCallFits, CallNames DEF CallRows
    <3>6. c \notin Requests
      BY <1>3, <1>4, <2>2 DEF CallFits, RequestFits
    <3>7. c # Tick
      BY <1>2, <1>3 DEF CallFits, TickFits
    <3>8. f.stage \in CallStages \ ({"following", "writing", "saving", "applying", "retiming", "checking"} \cup EarlyStages)
      BY <3>1, <3>4, <3>5 DEF EarlyStages
    <3>9. f.then # "retiming"
      BY <3>5, IdleCallFits
    <3>10. CallFits(c, f)
      BY <3>6, <3>7, <3>8, <3>9 DEF CallFits, BootFits
    <3> QED
      BY <3>1, <3>3, <3>5, <3>10
  <2> QED
    BY <2>1, <2>2
<1>6. StaysBooted(c) /\ KeepsSettings /\ MayMove(c, f)
  <2>1. StaysBooted(c)
    BY <1>1, <1>3 DEF StaysBooted, CallFits, BootFits
  <2>2. MayMove(c, f)
    BY <1>2 DEF MayMove, Idle
  <2> QED
    BY <1>1, <2>1, <2>2, KeepsAll
<1>7. /\ call' \in [Callers -> CallRows] /\ call'[c] = f /\ OthersAsWere(c)
      /\ CallsFit' /\ PollInv' /\ ConfigInv' /\ (~crossed' /\ Booted' => Booted)
  <2>1. PlainStage(call[c].stage) /\ PlainStage(f.stage) /\ ~At(c, "polling") /\ f.stage # "polling"
    BY <1>2, <1>5 DEF PlainStage, At
  <2> QED
    BY <1>1, <1>5, <1>6, <2>1, PlainStep DEF PollerInv
<1>8. PairsInv'
  <2>1. /\ f.stage \notin BoundStages /\ (call[c].stage \notin OwingStages \/ tangled')
        /\ f.kind \notin PairKinds
    BY <1>1, <1>2, <1>5 DEF BoundStages, OwingStages, PairKinds
  <2> QED
    BY <1>1, <1>7, <2>1, PairsApart DEF PollerInv
<1>9. PollerTyped'
  <2>1. crossed' \in BOOLEAN /\ tangled' \in BOOLEAN
    BY <1>1
  <2> QED
    BY <1>1, <1>7, <2>1 DEF PollerInv, PollerTyped
<1> QED
  BY <1>7, <1>8, <1>9 DEF PollerInv

\* Steps of the administrator's settings.
LEMMA ConfigBeginsStep == ASSUME NEW c \in Requests, PollerInv, ConfigBegins(c) PROVE PollerInv'
<1>1. /\ UNCHANGED <<phase, pairs, created, stored, mem, timer, isPolling, fresh, crossed, tangled>>
      /\ phase = "up" /\ call[c].stage = "idle"
  BY DEF ConfigBegins, Begins, Idle, SamePrices, priceTables, priceProcess, priceHistory
<1>2. PICK i \in Intervals, on \in BOOLEAN :
          Does(c, [Calls("config", "saving") EXCEPT !.next = [mem EXCEPT !.interval = i, !.ingest = on]])
  BY DEF ConfigBegins
<1>3. PICK g : g = Calls("config", "saving")
  OBVIOUS
<1>4. mem \in Memory
  BY DEF PollerInv, PollerTyped
<1>5. g \in CallRows /\ g.kind = "config" /\ g.stage = "saving" /\ g.then = "idle" /\ g.back = "idle" /\ g.fail = "idle"
  BY <1>3, <1>4, CallsRow, CallNames
<1>6. PICK next \in Memory : next = [mem EXCEPT !.interval = i, !.ingest = on]
  BY <1>4, MemoryIs
<1>7. PICK f : f = [g EXCEPT !.next = next]
  OBVIOUS
<1>8. /\ f \in CallRows /\ f.kind = "config" /\ f.stage = "saving" /\ f.then = "idle" /\ f.back = "idle"
      /\ f.fail = "idle" /\ Does(c, f)
  BY <1>2, <1>3, <1>5, <1>6, <1>7 DEF CallRows
<1>9. c \in Callers /\ c # Boot /\ c # Tick
  BY PollerConstants
<1>10. f.stage \in PairStages \cup OtherStages /\ f.stage \notin PairStages
  BY <1>8, CallNames DEF PairStages, OwingStages
<1>11. CallFits(c, f) /\ MayMove(c, f)
  BY <1>1, <1>8, <1>9, <1>10 DEF CallFits, RequestFits, MayMove
<1>12. /\ call' \in [Callers -> CallRows] /\ call'[c] = f /\ OthersAsWere(c)
       /\ CallsFit' /\ PollInv' /\ ConfigInv' /\ (~crossed' /\ Booted' => Booted)
  <2>1. PlainStage(call[c].stage) /\ PlainStage(f.stage) /\ ~At(c, "polling") /\ f.stage # "polling"
    BY <1>1, <1>8 DEF PlainStage, At
  <2>2. StaysBooted(c) /\ KeepsSettings
    BY <1>1, <1>9, KeepsAll DEF StaysBooted
  <2> QED
    BY <1>1, <1>8, <1>9, <1>11, <2>1, <2>2, PlainStep DEF PollerInv
<1>13. PairsInv'
  <2>1. f.stage \notin BoundStages /\ call[c].stage \notin OwingStages /\ f.kind \notin PairKinds
    BY <1>1, <1>8 DEF BoundStages, OwingStages, PairKinds
  <2> QED
    BY <1>1, <1>8, <1>9, <1>12, <2>1, PairsApart DEF PollerInv
<1>14. PollerTyped'
  BY <1>1, <1>12 DEF PollerInv, PollerTyped
<1> QED
  BY <1>12, <1>13, <1>14 DEF PollerInv

LEMMA ConfigSavesStep == ASSUME NEW c \in Requests, PollerInv, ConfigSaves(c) PROVE PollerInv'
<1>1. /\ UNCHANGED <<phase, pairs, created, mem, timer, isPolling, fresh, tangled>>
      /\ call[c].stage = "saving" /\ Goes(c, "applying")
      /\ stored' = [exists |-> TRUE,
                    set |-> [call[c].next EXCEPT
                               !.featured = IF stored.exists THEN stored.set.featured ELSE NoKey]]
      /\ crossed' = (crossed \/ \E d \in Requests \ {c} : At(d, "applying"))
  BY DEF ConfigSaves, At, priceProcess
<1>2. c \in Callers /\ c # Boot /\ c # Tick
  BY PollerConstants
<1>3. call \in [Callers -> CallRows] /\ call[c] \in CallRows /\ CallFits(c, call[c]) /\ stored \in StoredRows
  BY <1>2 DEF PollerInv, PollerTyped, CallsFit
<1>4. PICK f \in CallRows : Does(c, f) /\ f.stage = "applying" /\ SameBut(f, call[c])
  BY <1>1, <1>2, <1>3, CallNames, GoesTo
<1>5. call' \in [Callers -> CallRows] /\ call'[c] = f /\ OthersAsWere(c)
  BY <1>2, <1>3, <1>4, OneCallMoves
<1>6. phase = "up" /\ Booted
  BY <1>1, UpIsBooted DEF PollerInv, Idle
<1>7. CallsFit'
  <2>1. "applying" \notin PairStages /\ "saving" \notin PairStages
    BY DEF PairStages, OwingStages
  <2>2. RequestFits(f)
    BY <1>1, <1>2, <1>3, <1>4, <2>1, CallNames DEF CallFits, RequestFits, SameBut
  <2>3. CallFits(c, f) /\ MayMove(c, f)
    BY <1>2, <1>6, <2>2 DEF CallFits, MayMove
  <2> QED
    BY <1>1, <1>2, <1>4, <2>3, FitsOn DEF PollerInv
<1>8. PollInv'
  BY <1>1, <1>2, <1>4, <1>5, PollApart DEF PollerInv, At
<1>9. PICK k \in KeyOrNone : /\ k = IF stored.exists THEN stored.set.featured ELSE NoKey
                             /\ stored.exists => k = stored.set.featured
  BY <1>3, StoredIs, MemoryIs DEF KeyOrNone
<1>10. call[c].next \in Memory
  BY <1>3, CallFields
<1>11. PICK next \in Memory : /\ next = [call[c].next EXCEPT !.featured = k]
                              /\ next.interval = call[c].next.interval
                              /\ next.ingest = call[c].next.ingest /\ next.featured = k
  BY <1>10, MemoryFeatures
<1>12. /\ stored' \in StoredRows /\ stored'.exists = TRUE /\ stored'.set = next
       /\ stored.exists => stored'.set.featured = stored.set.featured
  BY <1>1, <1>9, <1>11, StoredIs
<1>13. ConfigInv'
  <2> SUFFICES ASSUME ~crossed' PROVE ConfigInv'
    BY DEF ConfigInv
  <2>1. \A d \in Requests : At(d, "applying")' => d = c
    BY <1>1, <1>5, PollerConstants DEF At, OthersAsWere
  <2>2. SameSettings(call'[c].next, stored'.set) /\ At(c, "applying")'
    BY <1>4, <1>5, <1>11, <1>12 DEF SameSettings, SameBut, At
  <2>3. \A d \in Requests : Retimes(d) => Retimes(d)'
    BY <1>1, <1>5, PollerConstants DEF Retimes, At, OthersAsWere
  <2>4. fresh' /\ (\A d \in Requests : ~Retimes(d)') =>
            timer' = IF mem'.ingest THEN mem'.interval ELSE 0
    BY <1>1, <1>6, <2>3 DEF PollerInv, ConfigInv
  <2> QED
    BY <1>12, <2>1, <2>2, <2>4 DEF ConfigInv
<1>14. PairsInv'
  <2>1. f.stage \notin BoundStages /\ call[c].stage \notin OwingStages
    BY <1>1, <1>4 DEF BoundStages, OwingStages
  <2>2. ~crossed' => stored.exists
    BY <1>1, <1>6 DEF PollerInv, ConfigInv
  <2>3. ~crossed' => stored'.exists = stored.exists /\ stored'.set.featured = stored.set.featured
    BY <1>3, <1>12, <2>2, StoredIs
  <2>4. crossed => crossed'
    BY <1>1
  <2>5. call'[c].kind \in PairKinds => call[c].kind \in PairKinds
    BY <1>4, <1>5 DEF SameBut
  <2> QED
    BY <1>1, <1>2, <1>4, <1>5, <1>6, <2>1, <2>3, <2>4, <2>5, PairsApart DEF PollerInv
<1>15. PollerTyped'
  <2>1. crossed' \in BOOLEAN
    BY <1>1
  <2> QED
    BY <1>1, <1>5, <1>12, <2>1 DEF PollerInv, PollerTyped
<1> QED
  BY <1>7, <1>8, <1>13, <1>14, <1>15 DEF PollerInv

LEMMA ConfigAppliesStep == ASSUME NEW c \in Requests, PollerInv, ConfigApplies(c) PROVE PollerInv'
<1>1. PICK snap, next : snap = call[c].snap /\ next = call[c].next
  OBVIOUS
<1>2. /\ UNCHANGED <<phase, pairs, created, stored, tangled>>
      /\ call[c].stage = "applying" /\ mem' = [next EXCEPT !.featured = mem.featured]
      /\ crossed' = (crossed \/ snap.interval # mem.interval \/ snap.ingest # mem.ingest)
  BY <1>1 DEF ConfigApplies, At, priceTables
<1>3. \/ /\ ~next.ingest
         /\ timer' = 0 /\ fresh' = TRUE /\ Goes(c, "idle") /\ UNCHANGED isPolling
      \/ /\ next.ingest /\ ~snap.ingest
         /\ PollOnce(c, "retiming") /\ UNCHANGED <<timer, fresh>>
      \/ /\ next.ingest /\ snap.ingest /\ next.interval # snap.interval
         /\ timer' = next.interval /\ fresh' = TRUE /\ Goes(c, "idle") /\ UNCHANGED isPolling
      \/ /\ next.ingest /\ snap.ingest /\ next.interval = snap.interval
         /\ Goes(c, "idle") /\ UNCHANGED <<timer, fresh, isPolling>>
  BY <1>1 DEF ConfigApplies
<1>4. c \in Callers /\ c # Boot /\ c # Tick
  BY PollerConstants
<1>5. call \in [Callers -> CallRows] /\ call[c] \in CallRows /\ CallFits(c, call[c]) /\ mem \in Memory
  BY <1>4 DEF PollerInv, PollerTyped, CallsFit
<1>6. /\ mem' \in Memory /\ next.interval \in Intervals /\ next.ingest \in BOOLEAN
      /\ mem'.interval = next.interval /\ mem'.ingest = next.ingest /\ mem'.featured = mem.featured
  <2>1. next \in Memory /\ mem.featured \in KeyOrNone
    BY <1>1, <1>5, CallFields, MemoryIs
  <2>2. PICK k \in KeyOrNone : k = mem.featured
    BY <2>1
  <2>3. PICK n \in Memory : /\ n = [next EXCEPT !.featured = k] /\ n.featured = k
                            /\ n.interval = next.interval /\ n.ingest = next.ingest
    BY <2>1, MemoryFeatures
  <2>4. mem' = n /\ next.interval \in Intervals /\ next.ingest \in BOOLEAN
    BY <1>2, <2>1, <2>2, <2>3, MemoryIs
  <2> QED
    BY <2>2, <2>3, <2>4
<1>7. ~At(c, "polling")
  BY <1>2 DEF At
<1>8. PICK f \in CallRows :
        /\ Does(c, f) /\ PollInv' /\ isPolling' \in BOOLEAN
        /\ \/ /\ f.stage \in {"idle", "retiming"}
              /\ f.stage = "idle" => f = IdleCall
              /\ f.stage # "idle" => SameBut(f, call[c])
           \/ /\ f.stage = "polling" /\ f.then = "retiming" /\ f.kind = call[c].kind
              /\ f.back = call[c].back /\ f.fail = call[c].fail
        /\ next.ingest /\ ~snap.ingest =>
              f.stage = "retiming" \/ (f.stage = "polling" /\ f.then = "retiming")
  <2>1. CASE next.ingest /\ ~snap.ingest
    <3>1. PollOnce(c, "retiming") /\ "retiming" \in Thens
      BY <1>3, <2>1, CallNames
    <3>2. PICK f \in CallRows :
           /\ Does(c, f) /\ PollInv' /\ isPolling' \in BOOLEAN
           /\ \/ /\ f.stage = "retiming" /\ ("retiming" = "idle" => f = IdleCall)
                 /\ "retiming" # "idle" => SameBut(f, call[c])
              \/ /\ f.stage = "polling" /\ f.then = "retiming" /\ f.kind = call[c].kind
                 /\ f.snap = call[c].snap /\ f.back = call[c].back /\ f.fail = call[c].fail
      BY <1>4, <1>7, <3>1, PollOnceMoves DEF PollerInv
    <3> QED
      BY <3>2
  <2>2. CASE ~(next.ingest /\ ~snap.ingest)
    <3>1. Does(c, IdleCall) /\ isPolling' = isPolling
      BY <1>3, <2>2 DEF Goes
    <3>2. call'[c] = IdleCall /\ OthersAsWere(c)
      BY <1>4, <1>5, <3>1, IdleCallFits, OneCallMoves
    <3>3. PollInv'
      BY <1>4, <1>7, <3>1, <3>2, IdleCallFits, PollApart DEF PollerInv, At
    <3> QED
      BY <2>2, <3>1, <3>3, IdleCallFits DEF PollerInv, PollerTyped
  <2> QED
    BY <2>1, <2>2
<1>9. call' \in [Callers -> CallRows] /\ call'[c] = f /\ OthersAsWere(c)
  BY <1>4, <1>5, <1>8, OneCallMoves
<1>10. phase = "up" /\ Booted
  BY <1>2, UpIsBooted DEF PollerInv, Idle
<1>11. /\ f.stage \notin PairStages /\ f.stage \in OtherStages /\ f.stage # "applying"
       /\ f.stage \notin BoundStages
  BY <1>8 DEF PairStages, OwingStages, OtherStages, BoundStages
<1>12. CallsFit'
  <2>1. RequestFits(call[c])
    BY <1>5 DEF CallFits
  <2>2. RequestFits(f)
    <3>1. CASE f = IdleCall
      BY <1>4, <3>1, IdleCallFits DEF CallFits
    <3>2. CASE f.stage = "retiming" /\ SameBut(f, call[c])
      BY <1>11, <2>1, <3>2, CallNames DEF RequestFits, SameBut
    <3>3. CASE f.stage = "polling" /\ f.then = "retiming" /\ f.back = call[c].back /\ f.fail = call[c].fail
      BY <1>11, <2>1, <3>3 DEF RequestFits
    <3> QED
      BY <1>8, <3>1, <3>2, <3>3
  <2>3. CallFits(c, f)
    BY <1>4, <2>2 DEF CallFits
  <2>4. \A d \in Callers : CallFits(d, call'[d])
    BY <1>9, <2>3 DEF PollerInv, CallsFit, OthersAsWere
  <2>5. Idle(Boot)'
    BY <1>4, <1>9, <1>10, PollerConstants DEF PollerInv, CallsFit, Idle, OthersAsWere
  <2> QED
    BY <1>2, <1>10, <2>4, <2>5 DEF CallsFit, CallFits, RequestFits, TickFits, BootFits, Idle
<1>13. ConfigInv'
  <2> SUFFICES ASSUME ~crossed' PROVE ConfigInv'
    BY DEF ConfigInv
  <2>1. ~crossed /\ snap.interval = mem.interval /\ snap.ingest = mem.ingest
    BY <1>2
  <2>2. /\ stored.exists
        /\ \A d, e \in Requests : At(d, "applying") /\ At(e, "applying") => d = e
        /\ SameSettings(next, stored.set)
        /\ fresh /\ (\A d \in Requests : ~Retimes(d)) =>
              timer = IF mem.ingest THEN mem.interval ELSE 0
    BY <1>1, <1>2, <1>10, <2>1 DEF PollerInv, ConfigInv, At
  <2>3. \A d \in Requests : ~At(d, "applying")'
    BY <1>2, <1>9, <1>11, <2>2, PollerConstants DEF At, OthersAsWere
  <2>4. SameSettings(mem', stored'.set)
    BY <1>2, <1>6, <2>2 DEF SameSettings
  <2>5. fresh' /\ (\A d \in Requests : ~Retimes(d)') =>
            timer' = IF mem'.ingest THEN mem'.interval ELSE 0
    <3> SUFFICES ASSUME fresh', \A d \in Requests : ~Retimes(d)'
                 PROVE  timer' = IF mem'.ingest THEN mem'.interval ELSE 0
      OBVIOUS
    <3>1. CASE ~next.ingest
      BY <1>3, <1>6, <3>1
    <3>2. CASE next.ingest /\ ~snap.ingest
      <4>1. Retimes(c)'
        BY <1>8, <1>9, <3>2 DEF Retimes, At
      <4> QED
        BY <4>1
    <3>3. CASE next.ingest /\ snap.ingest /\ next.interval # snap.interval
      BY <1>3, <1>6, <3>3
    <3>4. CASE next.ingest /\ snap.ingest /\ next.interval = snap.interval
      <4>1. timer' = timer /\ fresh
        BY <1>3, <3>4
      <4>2. \A d \in Requests : ~Retimes(d)
        BY <1>2, <1>9, PollerConstants DEF Retimes, At, OthersAsWere
      <4> QED
        BY <1>6, <2>1, <2>2, <3>4, <4>1, <4>2
    <3> QED
      BY <3>1, <3>2, <3>3, <3>4
  <2> QED
    BY <1>2, <2>2, <2>3, <2>4, <2>5 DEF ConfigInv
<1>14. PairsInv'
  <2>1. call[c].stage \notin OwingStages
    BY <1>2 DEF OwingStages
  <2>2. call'[c].kind \in PairKinds => call[c].kind \in PairKinds
    BY <1>8, <1>9, IdleCallFits, StageFacts DEF SameBut
  <2>3. crossed => crossed'
    BY <1>2
  <2> QED
    BY <1>2, <1>4, <1>6, <1>9, <1>10, <1>11, <2>1, <2>2, <2>3, PairsApart DEF PollerInv
<1>15. PollerTyped'
  <2>1. timer' \in Intervals \cup {0} /\ fresh' \in BOOLEAN
    BY <1>3, <1>6 DEF PollerInv, PollerTyped
  <2>2. crossed' \in BOOLEAN
    BY <1>2
  <2> QED
    BY <1>2, <1>6, <1>8, <1>9, <2>1, <2>2 DEF PollerInv, PollerTyped
<1> QED
  BY <1>8, <1>12, <1>13, <1>14, <1>15 DEF PollerInv

-----------------------------------------------------------------------------
\* A request about pairs begins.
LEMMA BeginsStep ==
  ASSUME NEW c \in Requests, NEW f \in CallRows, PollerInv, phase = "up", Idle(c),
         Overlaps(c), Does(c, f), RequestFits(f),
         UNCHANGED <<phase, pairs, created, stored, mem, timer, isPolling, fresh, crossed>>,
         f.stage \in {"featuring", "writing", "finding"}, f.snap = mem,
         f.stage = "writing" => pairs[f.id] = f.row,
         f.stage = "featuring" => KeyStands(f.key)
  PROVE  PollerInv'
<1>1. c \in Callers /\ c # Boot /\ c # Tick /\ call[c].stage = "idle"
  BY PollerConstants DEF Idle
<1>2. CallFits(c, f) /\ MayMove(c, f)
  BY <1>1 DEF CallFits, MayMove
<1>3. /\ call' \in [Callers -> CallRows] /\ call'[c] = f /\ OthersAsWere(c)
      /\ CallsFit' /\ PollInv' /\ ConfigInv' /\ (~crossed' /\ Booted' => Booted)
  <2>1. PlainStage(call[c].stage) /\ PlainStage(f.stage) /\ ~At(c, "polling") /\ f.stage # "polling"
    BY <1>1 DEF PlainStage, At
  <2>2. StaysBooted(c) /\ KeepsSettings
    BY <1>1, KeepsAll DEF StaysBooted
  <2> QED
    BY <1>1, <1>2, <2>1, <2>2, PlainStep DEF PollerInv
<1>4. ~tangled' => ~tangled /\ Alone(c) /\ PairsFor(c)
  <2>1. ~tangled' => ~tangled /\ Alone(c)
    BY AloneBegins DEF PollerInv
  <2> QED
    BY <1>1, <2>1, PairsNow DEF PollerInv
<1>5. Booted
  BY UpIsBooted DEF PollerInv
<1>6. ~tangled' => PairsFor(c)'
  <2> SUFFICES ASSUME ~tangled' PROVE PairsFor(c)'
    OBVIOUS
  <2>1. ~Owes(c) /\ ~At(c, "featured") /\ ~At(c, "following")
    BY <1>1 DEF Owes, At, OwingStages
  <2>2. ~At(c, "following")' /\ ~At(c, "featured")' /\ ~At(c, "upserting")' /\ ~At(c, "checking")'
    BY <1>3 DEF At
  <2>3. At(c, "writing")' => pairs'[call'[c].id] = call'[c].row
    BY <1>3 DEF At
  <2>4. ~crossed' => FeaturedFor(c)'
    <3> SUFFICES ASSUME ~crossed' PROVE FeaturedFor(c)'
      OBVIOUS
    <3>1. FeaturedFor(c)
      BY <1>4 DEF PairsFor
    <3>2. /\ stored.exists => KeyStands(stored.set.featured)
          /\ KeyStands(mem.featured)
          /\ stored.set.featured \in {mem.featured, NoKey}
      BY <1>5, <2>1, <3>1 DEF FeaturedFor
    <3>3. /\ stored'.exists => KeyStands(stored.set.featured)'
          /\ KeyStands(mem.featured)'
          /\ stored'.set.featured \in {mem'.featured, NoKey}
      BY <3>2 DEF KeyStands, Tracked
    <3>4. At(c, "featuring")' => KeyStands(call[c].key)'
      BY <1>3 DEF At, KeyStands, Tracked
    <3>5. call'[c].snap.featured = mem'.featured
      BY <1>3
    <3> QED
      BY <1>1, <2>2, <3>3, <3>4, <3>5 DEF FeaturedFor, KeyStands, Tracked
  <2> QED
    BY <2>2, <2>3, <2>4 DEF PairsFor
<1>7. PairsInv'
  <2>1. CoreFirst'
    BY <1>5, CoreLater DEF PollerInv
  <2> QED
    BY <1>1, <1>3, <1>4, <1>6, <2>1, PairsNext
<1>8. PollerTyped'
  <2>1. tangled' \in BOOLEAN
    BY DEF Overlaps
  <2> QED
    BY <1>3, <2>1 DEF PollerInv, PollerTyped
<1> QED
  BY <1>3, <1>7, <1>8 DEF PollerInv

LEMMA FeatureBeginsStep == ASSUME NEW c \in Requests, PollerInv, FeatureBegins(c) PROVE PollerInv'
<1>1. PICK i \in Active : Does(c, [Calls("feature", "featuring") EXCEPT !.key = pairs[i].meta.key])
  BY DEF FeatureBegins
<1>2. /\ UNCHANGED <<phase, pairs, created, stored, mem, timer, isPolling, fresh, crossed>>
      /\ phase = "up" /\ Idle(c) /\ Overlaps(c)
  BY DEF FeatureBegins, Begins, priceTables, priceProcess
<1>3. i \in Ids /\ pairs[i].exists /\ pairs[i].active /\ pairs[i] \in PairRows
  BY DEF Active, Existing, PollerInv, PollerTyped
<1>4. PICK k \in Keys : k = pairs[i].meta.key
  BY <1>3, PairRowsAre, PollerConstants
<1>5. Tracked(k)
  BY <1>3, <1>4 DEF Tracked
<1>6. PICK g : g = Calls("feature", "featuring")
  OBVIOUS
<1>7. /\ g \in CallRows /\ g.kind = "feature" /\ g.stage = "featuring" /\ g.snap = mem
      /\ g.then = "idle" /\ g.back = "idle" /\ g.fail = "idle"
  BY <1>6, CallsRow, CallNames DEF PollerInv, PollerTyped
<1>8. PICK f : f = [g EXCEPT !.key = k]
  OBVIOUS
<1>9. k \in KeyOrNone
  BY DEF KeyOrNone
<1>10. /\ f \in CallRows /\ f.kind = "feature" /\ f.stage = "featuring" /\ f.snap = mem
       /\ f.then = "idle" /\ f.back = "idle" /\ f.fail = "idle" /\ f.key = k
  BY <1>7, <1>8, <1>9 DEF CallRows
<1>11. RequestFits(f)
  BY <1>10, CallNames DEF RequestFits, PairKinds
<1>12. Does(c, f)
  BY <1>1, <1>4, <1>6, <1>8
<1> QED
  BY <1>2, <1>5, <1>10, <1>11, <1>12, BeginsStep DEF KeyStands

LEMMA UpdateBeginsStep == ASSUME NEW c \in Requests, PollerInv, UpdateBegins(c) PROVE PollerInv'
<1>1. PICK i \in Existing, meta \in Metas, active \in BOOLEAN :
          /\ EditAllowed(pairs[i], meta)
          /\ Does(c, [Calls("update", "writing") EXCEPT
                        !.id = i, !.row = pairs[i], !.meta = meta, !.active = active])
  BY DEF UpdateBegins
<1>2. /\ UNCHANGED <<phase, pairs, created, stored, mem, timer, isPolling, fresh, crossed>>
      /\ phase = "up" /\ Idle(c) /\ Overlaps(c)
  BY DEF UpdateBegins, Begins, SamePairs, priceTables, priceProcess
<1>3. i \in Ids /\ pairs[i].exists /\ pairs[i] \in PairRows
  BY DEF Existing, PollerInv, PollerTyped
<1>4. PICK p \in Pairs : p = pairs[i] /\ p \in PairRows
  BY <1>3, PairRowsAre
<1>5. PICK g : g = Calls("update", "writing")
  OBVIOUS
<1>6. /\ g \in CallRows /\ g.kind = "update" /\ g.stage = "writing" /\ g.snap = mem
      /\ g.then = "idle" /\ g.back = "idle" /\ g.fail = "idle"
  BY <1>5, CallsRow, CallNames DEF PollerInv, PollerTyped
<1>7. PICK f : f = [g EXCEPT !.id = i, !.row = p, !.meta = meta, !.active = active]
  OBVIOUS
<1>8. i \in IdOrNone
  BY <1>3 DEF IdOrNone
<1>9. /\ f \in CallRows /\ f.kind = "update" /\ f.stage = "writing" /\ f.snap = mem
      /\ f.then = "idle" /\ f.back = "idle" /\ f.fail = "idle"
      /\ f.id = i /\ f.row = p /\ f.meta = meta
  BY <1>4, <1>6, <1>7, <1>8 DEF CallRows
<1>10. RequestFits(f)
  BY <1>1, <1>3, <1>4, <1>9, CallNames DEF RequestFits, PairKinds
<1>11. Does(c, f)
  BY <1>1, <1>4, <1>5, <1>7
<1> QED
  BY <1>2, <1>4, <1>9, <1>10, <1>11, BeginsStep

LEMMA DeleteBeginsStep == ASSUME NEW c \in Requests, PollerInv, DeleteBegins(c) PROVE PollerInv'
<1>1. PICK i \in Existing :
          /\ ~pairs[i].core
          /\ Does(c, [Calls("delete", "writing") EXCEPT !.id = i, !.row = pairs[i]])
  BY DEF DeleteBegins
<1>2. /\ UNCHANGED <<phase, pairs, created, stored, mem, timer, isPolling, fresh, crossed>>
      /\ phase = "up" /\ Idle(c) /\ Overlaps(c)
  BY DEF DeleteBegins, Begins, SamePairs, priceTables, priceProcess
<1>3. i \in Ids /\ pairs[i].exists /\ pairs[i] \in PairRows
  BY DEF Existing, PollerInv, PollerTyped
<1>4. PICK p \in Pairs : p = pairs[i] /\ p \in PairRows
  BY <1>3, PairRowsAre
<1>5. PICK g : g = Calls("delete", "writing")
  OBVIOUS
<1>6. /\ g \in CallRows /\ g.kind = "delete" /\ g.stage = "writing" /\ g.snap = mem
      /\ g.then = "idle" /\ g.back = "idle" /\ g.fail = "idle"
  BY <1>5, CallsRow, CallNames DEF PollerInv, PollerTyped
<1>7. PICK f : f = [g EXCEPT !.id = i, !.row = p]
  OBVIOUS
<1>8. i \in IdOrNone
  BY <1>3 DEF IdOrNone
<1>9. /\ f \in CallRows /\ f.kind = "delete" /\ f.stage = "writing" /\ f.snap = mem
      /\ f.then = "idle" /\ f.back = "idle" /\ f.fail = "idle"
      /\ f.id = i /\ f.row = p
  BY <1>4, <1>6, <1>7, <1>8 DEF CallRows
<1>10. RequestFits(f)
  BY <1>1, <1>3, <1>4, <1>9, CallNames DEF RequestFits, PairKinds
<1>11. Does(c, f)
  BY <1>1, <1>4, <1>5, <1>7
<1> QED
  BY <1>2, <1>4, <1>9, <1>10, <1>11, BeginsStep

LEMMA SyncPairStep == ASSUME NEW c \in Requests, PollerInv, SyncPair(c) PROVE PollerInv'
<1>1. PICK meta \in Fitting : Does(c, [Calls("sync", "finding") EXCEPT !.meta = meta])
  BY DEF SyncPair
<1>2. /\ UNCHANGED <<phase, pairs, created, stored, mem, timer, isPolling, fresh, crossed>>
      /\ phase = "up" /\ Idle(c) /\ Overlaps(c)
  BY DEF SyncPair, Begins, SamePairs, priceTables, priceProcess
<1>3. PICK g : g = Calls("sync", "finding")
  OBVIOUS
<1>4. /\ g \in CallRows /\ g.kind = "sync" /\ g.stage = "finding" /\ g.snap = mem
      /\ g.then = "idle" /\ g.back = "idle" /\ g.fail = "idle"
  BY <1>3, CallsRow, CallNames DEF PollerInv, PollerTyped
<1>5. PICK f : f = [g EXCEPT !.meta = meta]
  OBVIOUS
<1>6. meta \in Metas
  BY DEF Fitting
<1>7. /\ f \in CallRows /\ f.kind = "sync" /\ f.stage = "finding" /\ f.snap = mem
      /\ f.then = "idle" /\ f.back = "idle" /\ f.fail = "idle"
  BY <1>4, <1>5, <1>6 DEF CallRows
<1>8. RequestFits(f)
  BY <1>7, CallNames DEF RequestFits, PairKinds
<1>9. Does(c, f)
  BY <1>1, <1>3, <1>5
<1> QED
  BY <1>2, <1>7, <1>8, <1>9, BeginsStep

-----------------------------------------------------------------------------
\* A step of a call that has to do with pairs: what holds of it alone has to hold after.
LEMMA OwnStep ==
  ASSUME NEW c \in Callers, NEW f \in CallRows, PollerInv, call[c].stage \in PairStages,
         Does(c, f), CallFits(c, f), f.stage \notin {"applying", "polling"},
         UNCHANGED <<phase, timer, isPolling, fresh, crossed>>, KeepsSettings,
         tangled' \in BOOLEAN, tangled => tangled', created' \in 0 .. MaxId,
         pairs' \in [Ids -> PairRows], \A i \in Ids : i > created' => pairs'[i] = NoPair,
         stored' \in StoredRows, mem' \in Memory,
         call'[c] = f /\ Booted /\ ~tangled' /\ Alone(c) /\ PairsFor(c) => PairsFor(c)'
  PROVE  PollerInv'
<1>1. Booted /\ ((c = Boot /\ ~Idle(Boot)) \/ c \in PairCalls)
  BY UpIsBooted DEF PollerInv
<1>2. /\ ~Idle(c) /\ ~At(c, "polling") /\ ~At(c, "applying") /\ ~At(c, "retiming")
      /\ call[c].stage \notin EarlyStages
  BY StageFacts DEF Idle, At, PlainStage
<1>3. MayMove(c, f)
  BY <1>2 DEF MayMove
<1>4. call' \in [Callers -> CallRows] /\ call'[c] = f /\ OthersAsWere(c)
  BY OneCallMoves DEF PollerInv, PollerTyped
<1>5. CallsFit'
  BY <1>3, FitsOn DEF PollerInv
<1>6. PollInv'
  BY <1>2, <1>4, PollApart DEF PollerInv, At
<1>7. ConfigInv'
  <2>1. ~At(c, "applying")' /\ ~Retimes(c)
    BY <1>2, <1>4 DEF At, Retimes
  <2>2. StaysBooted(c)
    BY <1>2 DEF StaysBooted
  <2> QED
    BY <1>2, <1>4, <2>1, <2>2, ConfigApart DEF PollerInv
<1>8. ~tangled' => Alone(c) /\ PairsFor(c)'
  <2>1. ~tangled' => Alone(c)
    BY <1>1, AloneCaller DEF PollerInv, PairsInv
  <2>2. ~tangled' => PairsFor(c)
    BY <2>1, PairsNow DEF PollerInv
  <2> QED
    BY <1>1, <1>4, <2>1, <2>2
<1>9. CoreFirst'
  BY <1>1, CoreLater DEF PollerInv, KeepsSettings
<1>10. PairsInv'
  BY <1>4, <1>8, <1>9, PairsNext
<1>11. PollerTyped'
  BY <1>4 DEF PollerInv, PollerTyped
<1> QED
  BY <1>5, <1>6, <1>7, <1>10, <1>11 DEF PollerInv

LEMMA StageFits ==
  ASSUME NEW c \in Callers, NEW r \in CallRows, CallFits(c, r), r.stage \in PairStages,
         NEW f \in CallRows, f.kind = r.kind, f.then \in {r.then, "reloading"}, f.back = r.back,
         f.fail = r.fail, f.stage \in PairStages \ {"writing"},
         c \notin Requests => f.stage \notin {"following", "checking"}
  PROVE  CallFits(c, f)
<1>1. c # Tick
  <2>1. CASE c = Tick
    <3>1. r.stage \in {"idle", "polling"}
      BY <2>1 DEF CallFits, TickFits
    <3> QED
      BY <3>1, StageFacts
  <2> QED
    BY <2>1
<1>2. f.stage \in CallStages /\ PlainStage(f.stage) /\ f.stage \notin EarlyStages /\ f.stage # "idle"
  BY CallNames, StageFacts
<1>3. c \in Requests => RequestFits(f)
  <2> SUFFICES ASSUME c \in Requests PROVE RequestFits(f)
    OBVIOUS
  <2>1. RequestFits(r)
    BY DEF CallFits
  <2> QED
    BY <1>2, <2>1 DEF RequestFits
<1>4. c = Boot => BootFits(f)
  <2> SUFFICES ASSUME c = Boot PROVE BootFits(f)
    OBVIOUS
  <2>1. BootFits(r) /\ f.stage \notin {"following", "checking"}
    BY PollerConstants DEF CallFits
  <2>2. f.stage \notin {"writing", "saving", "applying", "retiming"}
    <3>1. "saving" \notin PairStages
      BY DEF PairStages, OwingStages
    <3> QED
      BY <1>2, <3>1 DEF PlainStage
  <2> QED
    BY <1>2, <2>1, <2>2 DEF BootFits
<1> QED
  BY <1>1, <1>3, <1>4 DEF CallFits

\* Whose settings are about to be written.
LEMMA FeatureSavesStep == ASSUME NEW c \in Callers, PollerInv, FeatureSaves(c) PROVE PollerInv'
<1>1. /\ UNCHANGED <<phase, pairs, created, mem, timer, isPolling, fresh, crossed>>
      /\ call[c].stage = "featuring" /\ Goes(c, "featured") /\ Overlaps(c)
      /\ stored' = IF stored.exists
                     THEN [stored EXCEPT !.set.featured = call[c].key]
                     ELSE [exists |-> TRUE, set |-> [call[c].snap EXCEPT !.featured = call[c].key]]
  BY DEF FeatureSaves, At, priceProcess, priceCounts
<1>2. call \in [Callers -> CallRows] /\ call[c] \in CallRows /\ CallFits(c, call[c]) /\ stored \in StoredRows
  BY DEF PollerInv, PollerTyped, CallsFit
<1>3. PICK f \in CallRows : Does(c, f) /\ f.stage = "featured" /\ SameBut(f, call[c])
  BY <1>1, <1>2, CallNames, GoesTo
<1>4. PICK k \in KeyOrNone, m \in Memory : k = call[c].key /\ m = call[c].snap
  BY <1>2, CallFields
<1>5. CallFits(c, f) /\ call[c].stage \in PairStages
  BY <1>1, <1>2, <1>3, CallNames, StageFits DEF SameBut
<1>6. /\ stored' \in StoredRows /\ stored'.exists = TRUE /\ stored'.set.featured = k
      /\ stored.exists => SameSettings(stored'.set, stored.set)
  <2>1. CASE stored.exists
    <3>1. stored' = [stored EXCEPT !.set.featured = k]
      BY <1>1, <1>4, <2>1
    <3>2. PICK s \in Memory : s = stored.set
      BY <1>2, <2>1, StoredIs
    <3>3. PICK n \in Memory : /\ n = [s EXCEPT !.featured = k] /\ n.featured = k
                              /\ n.interval = s.interval /\ n.ingest = s.ingest
      BY MemoryFeatures
    <3>4. stored' \in StoredRows /\ stored'.exists = TRUE /\ stored'.set = n
      BY <1>2, <2>1, <3>1, <3>2, <3>3, StoredIs
    <3> QED
      BY <3>2, <3>3, <3>4 DEF SameSettings
  <2>2. CASE ~stored.exists
    <3>1. PICK n \in Memory : /\ n = [m EXCEPT !.featured = k] /\ n.featured = k
                              /\ n.interval = m.interval /\ n.ingest = m.ingest
      BY MemoryFeatures
    <3>2. stored' = [exists |-> TRUE, set |-> n]
      BY <1>1, <1>4, <2>2, <3>1
    <3> QED
      BY <2>2, <3>1, <3>2, StoredIs
  <2> QED
    BY <2>1, <2>2
<1>7. KeepsSettings /\ tangled' \in BOOLEAN /\ (tangled => tangled')
  BY <1>1, <1>6 DEF KeepsSettings, Overlaps
<1>8. call'[c] = f /\ Booted /\ ~tangled' /\ Alone(c) /\ PairsFor(c) => PairsFor(c)'
  <2> SUFFICES ASSUME call'[c] = f, PairsFor(c) PROVE PairsFor(c)'
    OBVIOUS
  <2>1. /\ ~At(c, "writing")' /\ ~At(c, "upserting")' /\ ~At(c, "checking")' /\ ~At(c, "following")'
        /\ ~At(c, "featuring")' /\ Owes(c)' /\ call'[c].stage \notin {"writing", "following", "checking"}
    BY <1>3 DEF At, Owes, OwingStages
  <2>2. ~crossed' => FeaturedFor(c)'
    <3> SUFFICES ASSUME ~crossed' PROVE FeaturedFor(c)'
      OBVIOUS
    <3>1. KeyStands(k)
      BY <1>1, <1>4 DEF PairsFor, FeaturedFor, At
    <3>2. KeyStands(call[c].key)' /\ stored'.set.featured = call'[c].key
      BY <1>1, <1>3, <1>4, <1>6, <3>1 DEF KeyStands, Tracked, SameBut
    <3>3. At(c, "featured")'
      BY <1>3 DEF At
    <3> QED
      BY <2>1, <3>2, <3>3 DEF FeaturedFor
  <2> QED
    BY <2>1, <2>2 DEF PairsFor
<1>9. /\ created' \in 0 .. MaxId /\ pairs' \in [Ids -> PairRows] /\ mem' \in Memory
      /\ \A i \in Ids : i > created' => pairs'[i] = NoPair
  BY <1>1 DEF PollerInv, PollerTyped
<1> QED
  BY <1>1, <1>3, <1>5, <1>6, <1>7, <1>8, <1>9, OwnStep

LEMMA FeatureAppliesStep == ASSUME NEW c \in Callers, PollerInv, FeatureApplies(c) PROVE PollerInv'
<1>1. /\ UNCHANGED <<phase, pairs, created, stored, timer, isPolling, fresh, crossed, tangled>>
      /\ call[c].stage = "featured" /\ Goes(c, call[c].then)
      /\ mem' = [mem EXCEPT !.featured = call[c].key]
  BY DEF FeatureApplies, At, Returns, priceTables, priceHistory, priceCounts
<1>2. call \in [Callers -> CallRows] /\ call[c] \in CallRows /\ CallFits(c, call[c]) /\ mem \in Memory
  BY DEF PollerInv, PollerTyped, CallsFit
<1>3. call[c].then \in CallStages
  BY <1>2, CallFields, CallNames
<1>4. PICK f \in CallRows : /\ Does(c, f) /\ f.stage = call[c].then
                            /\ f.stage = "idle" => f = IdleCall
                            /\ f.stage # "idle" => SameBut(f, call[c])
  BY <1>1, <1>2, <1>3, GoesTo
<1>5. CallFits(c, f) /\ f.stage \notin BoundStages \cup EarlyStages \cup {"polling", "applying"}
  BY <1>1, <1>2, <1>4, ThenFits DEF Idle
<1>6. PICK k \in KeyOrNone : k = call[c].key
  BY <1>2, CallFields
<1>7. mem' \in Memory /\ mem'.featured = k /\ mem'.interval = mem.interval /\ mem'.ingest = mem.ingest
  BY <1>1, <1>2, <1>6, MemoryFeatures
<1>8. KeepsSettings
  BY <1>1, <1>7 DEF KeepsSettings, SameSettings
<1>9. call'[c] = f /\ Booted /\ ~tangled' /\ Alone(c) /\ PairsFor(c) => PairsFor(c)'
  <2> SUFFICES ASSUME call'[c] = f, PairsFor(c) PROVE PairsFor(c)'
    OBVIOUS
  <2>1. /\ ~At(c, "writing")' /\ ~At(c, "upserting")' /\ ~At(c, "checking")' /\ ~At(c, "following")'
        /\ ~At(c, "featuring")' /\ ~At(c, "featured")'
        /\ call'[c].stage \notin {"writing", "following", "checking"}
    BY <1>5 DEF At, BoundStages, OwingStages
  <2>2. ~crossed' => FeaturedFor(c)'
    <3> SUFFICES ASSUME ~crossed' PROVE FeaturedFor(c)'
      OBVIOUS
    <3>1. KeyStands(k) /\ stored.set.featured = k
      BY <1>1, <1>6 DEF PairsFor, FeaturedFor, At
    <3>2. KeyStands(stored.set.featured)' /\ KeyStands(mem.featured)' /\ stored'.set.featured = mem'.featured
      BY <1>1, <1>7, <3>1 DEF KeyStands, Tracked
    <3> QED
      BY <2>1, <3>2 DEF FeaturedFor
  <2> QED
    BY <2>1, <2>2 DEF PairsFor
<1>10. /\ created' \in 0 .. MaxId /\ pairs' \in [Ids -> PairRows] /\ stored' \in StoredRows
       /\ \A i \in Ids : i > created' => pairs'[i] = NoPair
       /\ tangled' \in BOOLEAN /\ (tangled => tangled')
  BY <1>1 DEF PollerInv, PollerTyped
<1>11. call[c].stage \in PairStages
  BY <1>1, CallNames
<1> QED
  BY <1>1, <1>4, <1>5, <1>7, <1>8, <1>9, <1>10, <1>11, OwnStep

\* A step of such a call that only moves the call on.
LEMMA OwnMove ==
  ASSUME NEW c \in Callers, NEW f \in CallRows, PollerInv, call[c].stage \in PairStages,
         Does(c, f), CallFits(c, f), f.stage \notin {"applying", "polling"},
         UNCHANGED <<phase, pairs, created, stored, mem, timer, isPolling, fresh, crossed, tangled>>,
         call'[c] = f /\ Booted /\ ~tangled' /\ Alone(c) /\ PairsFor(c) => PairsFor(c)'
  PROVE  PollerInv'
<1>1. KeepsSettings
  BY KeepsAll
<1>2. /\ tangled' \in BOOLEAN /\ (tangled => tangled') /\ created' \in 0 .. MaxId
      /\ pairs' \in [Ids -> PairRows] /\ \A i \in Ids : i > created' => pairs'[i] = NoPair
      /\ stored' \in StoredRows /\ mem' \in Memory
  BY DEF PollerInv, PollerTyped
<1> QED
  BY <1>1, <1>2, OwnStep

LEMMA CheckFeaturedStep == ASSUME NEW c \in Callers, PollerInv, CheckFeatured(c) PROVE PollerInv'
<1>1. /\ UNCHANGED <<phase, pairs, created, stored, mem, timer, isPolling, fresh, crossed, tangled>>
      /\ call[c].stage = "checking"
      /\ \/ ByKey(call[c].snap.featured) \cap Active # {} /\ Goes(c, call[c].then)
         \/ Goes(c, "falling")
  BY DEF CheckFeatured, At, Returns, priceTables, priceProcess, priceHistory, priceCounts
<1>2. call \in [Callers -> CallRows] /\ call[c] \in CallRows /\ CallFits(c, call[c])
  BY DEF PollerInv, PollerTyped, CallsFit
<1>3. call[c].stage \in PairStages /\ "falling" \in PairStages /\ "falling" \in CallStages
  BY <1>1, CallNames
<1>4. CASE ByKey(call[c].snap.featured) \cap Active # {} /\ Goes(c, call[c].then)
  <2>1. call[c].then \in CallStages
    BY <1>2, CallFields, CallNames
  <2>2. PICK f \in CallRows : /\ Does(c, f) /\ f.stage = call[c].then
                              /\ f.stage = "idle" => f = IdleCall
                              /\ f.stage # "idle" => SameBut(f, call[c])
    BY <1>2, <1>4, <2>1, GoesTo
  <2>3. CallFits(c, f) /\ f.stage \notin BoundStages \cup EarlyStages \cup {"polling", "applying"}
    BY <1>1, <1>2, <2>2, ThenFits DEF Idle
  <2>4. Tracked(call[c].snap.featured)
    BY <1>4 DEF ByKey, Active, Existing, Tracked
  <2>5. call'[c] = f /\ Booted /\ ~tangled' /\ Alone(c) /\ PairsFor(c) => PairsFor(c)'
    <3> SUFFICES ASSUME call'[c] = f, Booted, PairsFor(c) PROVE PairsFor(c)'
      OBVIOUS
    <3>1. /\ ~At(c, "writing")' /\ ~At(c, "upserting")' /\ ~At(c, "checking")' /\ ~At(c, "following")'
          /\ ~At(c, "featuring")' /\ ~At(c, "featured")'
          /\ call'[c].stage \notin {"writing", "following", "checking"}
      BY <2>3 DEF At, BoundStages, OwingStages
    <3>2. ~crossed' => FeaturedFor(c)'
      <4> SUFFICES ASSUME ~crossed' PROVE FeaturedFor(c)'
        OBVIOUS
      <4>1. FeaturedFor(c) /\ ~At(c, "featured")
        BY <1>1 DEF PairsFor, At
      <4>2. stored.set.featured \in {mem.featured, NoKey}
        BY <4>1 DEF FeaturedFor
      <4>3. KeyStands(stored.set.featured) /\ KeyStands(mem.featured)
        <5>1. CASE c \in Requests
          <6>1. call[c].snap.featured = mem.featured
            BY <1>1, <4>1, <5>1 DEF FeaturedFor
          <6> QED
            BY <2>4, <4>2, <6>1 DEF KeyStands
        <5>2. CASE c = Boot
          <6>1. call[c].snap.featured = Core.key
            BY <1>1, <1>2, <5>2 DEF CallFits, BootFits
          <6>2. KeyStands(stored.set.featured) /\ mem.featured \in {stored.set.featured, Core.key}
            BY <1>1, <4>1, <5>2 DEF FeaturedFor, At
          <6> QED
            BY <2>4, <6>1, <6>2 DEF KeyStands
        <5>3. c # Tick
          BY <1>1, <1>2 DEF CallFits, TickFits
        <5> QED
          BY <5>1, <5>2, <5>3, PollerConstants
      <4>4. KeyStands(stored.set.featured)' /\ KeyStands(mem.featured)'
        BY <1>1, <4>3 DEF KeyStands, Tracked
      <4>5. stored'.set.featured \in {mem'.featured, NoKey}
        BY <1>1, <4>2
      <4> QED
        BY <3>1, <4>4, <4>5 DEF FeaturedFor
    <3> QED
      BY <3>1, <3>2 DEF PairsFor
  <2> QED
    BY <1>1, <1>3, <2>2, <2>3, <2>5, OwnMove
<1>5. CASE Goes(c, "falling")
  <2>1. PICK f \in CallRows : Does(c, f) /\ f.stage = "falling" /\ SameBut(f, call[c])
    BY <1>2, <1>3, <1>5, GoesTo
  <2>2. CallFits(c, f)
    BY <1>2, <1>3, <2>1, StageFits DEF SameBut
  <2>3. call'[c] = f /\ Booted /\ ~tangled' /\ Alone(c) /\ PairsFor(c) => PairsFor(c)'
    <3> SUFFICES ASSUME call'[c] = f, Booted, PairsFor(c) PROVE PairsFor(c)'
      OBVIOUS
    <3>1. /\ ~At(c, "writing")' /\ ~At(c, "upserting")' /\ ~At(c, "checking")' /\ ~At(c, "following")'
          /\ ~At(c, "featuring")' /\ ~At(c, "featured")' /\ Owes(c)'
          /\ call'[c].stage \notin {"writing", "following", "checking"}
      BY <2>1 DEF At, Owes, OwingStages
    <3>2. ~crossed' => FeaturedFor(c)'
      <4> SUFFICES ASSUME ~crossed' PROVE FeaturedFor(c)'
        OBVIOUS
      <4>1. FeaturedFor(c) /\ ~At(c, "featured")
        BY <1>1 DEF PairsFor, At
      <4>2. stored'.set.featured \in {mem'.featured, NoKey}
        BY <1>1, <4>1 DEF FeaturedFor
      <4> QED
        BY <3>1, <4>2 DEF FeaturedFor
    <3> QED
      BY <3>1, <3>2 DEF PairsFor
  <2> QED
    BY <1>1, <1>3, <2>1, <2>2, <2>3, OwnMove
<1> QED
  BY <1>1, <1>4, <1>5

\* The pair that is fallen back on is one of those there are.
LEMMA PreferredIs ==
  ASSUME NEW ids \in SUBSET Ids, ids # {}
  PROVE  Preferred(ids) \in ids
<1>1. Ids \subseteq Nat
  BY PollerConstants DEF Ids
<1>2. PICK named : named = {i \in ids : pairs[i].meta.key = Core.key}
  OBVIOUS
<1>3. PICK core : core = {i \in ids : pairs[i].core}
  OBVIOUS
<1>4. PICK S : S = IF named # {} THEN named ELSE IF core # {} THEN core ELSE ids
  OBVIOUS
<1>5. S \subseteq ids /\ S # {}
  BY <1>2, <1>3, <1>4
<1>6. Min(S) \in S
  BY <1>1, <1>5, SmallestOf
<1> QED
  BY <1>2, <1>3, <1>4, <1>5, <1>6 DEF Preferred

LEMMA FallBackStep == ASSUME NEW c \in Callers, PollerInv, FallBack(c) PROVE PollerInv'
<1>1. /\ UNCHANGED <<phase, pairs, created, stored, mem, timer, isPolling, fresh, crossed, tangled>>
      /\ call[c].stage = "falling"
      /\ Does(c, [call[c] EXCEPT !.stage = "featuring",
                    !.key = IF Active = {} THEN NoKey ELSE pairs[Preferred(Active)].meta.key])
  BY DEF FallBack, At, priceTables, priceProcess, priceHistory, priceCounts
<1>2. call[c] \in CallRows /\ CallFits(c, call[c])
  BY DEF PollerInv, PollerTyped, CallsFit
<1>3. PICK k : k = IF Active = {} THEN NoKey ELSE pairs[Preferred(Active)].meta.key
  OBVIOUS
<1>4. k \in KeyOrNone /\ KeyStands(k)
  <2>1. CASE Active = {}
    BY <1>3, <2>1 DEF KeyOrNone, KeyStands
  <2>2. CASE Active # {}
    <3>1. Active \subseteq Ids
      BY DEF Active, Existing
    <3>2. PICK i \in Active : i = Preferred(Active)
      BY <2>2, <3>1, PreferredIs
    <3>3. pairs[i].exists /\ pairs[i].active /\ pairs[i] \in PairRows /\ i \in Ids
      BY <3>1 DEF Active, Existing, PollerInv, PollerTyped
    <3>4. k = pairs[i].meta.key
      BY <1>3, <2>2, <3>2
    <3>5. k \in Keys
      BY <3>3, <3>4, PairRowsAre, PollerConstants
    <3> QED
      BY <3>3, <3>4, <3>5 DEF KeyOrNone, KeyStands, Tracked
  <2> QED
    BY <2>1, <2>2
<1>5. PICK f : f = [call[c] EXCEPT !.stage = "featuring", !.key = k]
  OBVIOUS
<1>6. "featuring" \in PairStages /\ "featuring" \in CallStages /\ call[c].stage \in PairStages
  BY <1>1, CallNames
<1>7. /\ f \in CallRows /\ f.stage = "featuring" /\ f.key = k /\ f.kind = call[c].kind
      /\ f.then = call[c].then /\ f.back = call[c].back /\ f.fail = call[c].fail
  BY <1>2, <1>4, <1>5, <1>6 DEF CallRows
<1>8. CallFits(c, f)
  BY <1>2, <1>6, <1>7, StageFits
<1>9. Does(c, f)
  BY <1>1, <1>3, <1>5
<1>10. call'[c] = f /\ Booted /\ ~tangled' /\ Alone(c) /\ PairsFor(c) => PairsFor(c)'
  <2> SUFFICES ASSUME call'[c] = f, Booted, PairsFor(c) PROVE PairsFor(c)'
    OBVIOUS
  <2>1. /\ ~At(c, "writing")' /\ ~At(c, "upserting")' /\ ~At(c, "checking")' /\ ~At(c, "following")'
        /\ ~At(c, "featured")' /\ Owes(c)'
        /\ call'[c].stage \notin {"writing", "following", "checking"}
    BY <1>7 DEF At, Owes, OwingStages
  <2>2. ~crossed' => FeaturedFor(c)'
    <3> SUFFICES ASSUME ~crossed' PROVE FeaturedFor(c)'
      OBVIOUS
    <3>1. FeaturedFor(c) /\ ~At(c, "featured")
      BY <1>1 DEF PairsFor, At
    <3>2. stored'.set.featured \in {mem'.featured, NoKey}
      BY <1>1, <3>1 DEF FeaturedFor
    <3>3. KeyStands(call[c].key)'
      BY <1>1, <1>4, <1>7 DEF KeyStands, Tracked
    <3> QED
      BY <2>1, <3>2, <3>3 DEF FeaturedFor
  <2> QED
    BY <2>1, <2>2 DEF PairsFor
<1> QED
  BY <1>1, <1>6, <1>7, <1>8, <1>9, <1>10, OwnMove

LEMMA FindPairStep == ASSUME NEW c \in Callers, PollerInv, FindPair(c) PROVE PollerInv'
<1>1. PICK found : found = IF ByKey(call[c].meta.key) # {} THEN ByKey(call[c].meta.key)
                           ELSE ByPool(call[c].meta.pool)
  OBVIOUS
<1>2. /\ UNCHANGED <<phase, pairs, created, stored, mem, timer, isPolling, fresh, crossed, tangled>>
      /\ call[c].stage = "finding"
      /\ Does(c, [call[c] EXCEPT !.stage = "upserting", !.id = IF found = {} THEN 0 ELSE Min(found)])
  BY <1>1 DEF FindPair, At, priceTables, priceProcess, priceHistory, priceCounts
<1>3. call[c] \in CallRows /\ CallFits(c, call[c])
  BY DEF PollerInv, PollerTyped, CallsFit
<1>4. PICK id : id = IF found = {} THEN 0 ELSE Min(found)
  OBVIOUS
<1>5. id \in IdOrNone /\ (id = 0 \/ id \in Existing)
  <2>1. found \subseteq Existing /\ Existing \subseteq Ids /\ Ids \subseteq Nat
    BY <1>1, PollerConstants DEF ByKey, ByPool, Existing, Ids
  <2>2. found # {} => Min(found) \in found
    BY <2>1, SmallestOf
  <2> QED
    BY <1>4, <2>1, <2>2 DEF IdOrNone
<1>6. PICK f : f = [call[c] EXCEPT !.stage = "upserting", !.id = id]
  OBVIOUS
<1>7. "upserting" \in PairStages /\ "upserting" \in CallStages /\ call[c].stage \in PairStages
  BY <1>2, CallNames
<1>8. /\ f \in CallRows /\ f.stage = "upserting" /\ f.id = id /\ f.kind = call[c].kind
      /\ f.then = call[c].then /\ f.back = call[c].back /\ f.fail = call[c].fail
  BY <1>3, <1>5, <1>6, <1>7 DEF CallRows
<1>9. CallFits(c, f)
  BY <1>3, <1>7, <1>8, StageFits
<1>10. Does(c, f)
  BY <1>2, <1>4, <1>6
<1>11. call'[c] = f /\ Booted /\ ~tangled' /\ Alone(c) /\ PairsFor(c) => PairsFor(c)'
  <2> SUFFICES ASSUME call'[c] = f, Booted, PairsFor(c) PROVE PairsFor(c)'
    OBVIOUS
  <2>1. /\ ~At(c, "writing")' /\ ~At(c, "checking")' /\ ~At(c, "following")'
        /\ ~At(c, "featured")' /\ ~At(c, "featuring")'
        /\ call'[c].stage \notin {"writing", "following", "checking"}
    BY <1>8 DEF At
  <2>2. call'[c].id = 0 \/ call'[c].id \in Existing'
    BY <1>2, <1>5, <1>8 DEF Existing
  <2>3. ~crossed' => FeaturedFor(c)'
    <3> SUFFICES ASSUME ~crossed' PROVE FeaturedFor(c)'
      OBVIOUS
    <3>1. FeaturedFor(c) /\ ~At(c, "featured") /\ ~Owes(c)
      BY <1>2 DEF PairsFor, At, Owes, OwingStages
    <3>2. /\ stored.set.featured \in {mem.featured, NoKey} /\ KeyStands(mem.featured)
          /\ stored.exists => KeyStands(stored.set.featured)
      BY <3>1 DEF FeaturedFor
    <3>3. /\ stored'.set.featured \in {mem'.featured, NoKey} /\ KeyStands(mem.featured)'
          /\ stored'.exists => KeyStands(stored.set.featured)'
      BY <1>2, <3>2 DEF KeyStands, Tracked
    <3> QED
      BY <2>1, <3>3 DEF FeaturedFor
  <2> QED
    BY <2>1, <2>2, <2>3 DEF PairsFor
<1> QED
  BY <1>2, <1>7, <1>8, <1>9, <1>10, <1>11, OwnMove

LEMMA FollowUpStep == ASSUME NEW c \in Requests, PollerInv, FollowUp(c) PROVE PollerInv'
<1>1. PICK r : r = call[c]
  OBVIOUS
<1>2. /\ UNCHANGED <<phase, pairs, created, stored, mem, timer, isPolling, fresh, crossed, tangled>>
      /\ r.stage = "following"
      /\ \/ Goes(c, "checking")
         \/ /\ r.kind # "delete" /\ r.active
            /\ Does(c, [r EXCEPT !.stage = "featuring", !.key = r.meta.key])
         \/ /\ \/ r.snap.featured # r.row.meta.key
               \/ r.kind # "delete" /\ r.active /\ r.meta.key = r.row.meta.key
            /\ Goes(c, "idle")
  BY <1>1 DEF FollowUp, At, priceTables, priceProcess, priceHistory, priceCounts
<1>3. c \in Callers /\ c # Boot /\ c # Tick
  BY PollerConstants
<1>4. call \in [Callers -> CallRows] /\ r \in CallRows /\ CallFits(c, r)
  BY <1>1, <1>3 DEF PollerInv, PollerTyped, CallsFit
<1>5. /\ r.stage \in PairStages /\ "checking" \in PairStages /\ "featuring" \in PairStages
      /\ "checking" \in CallStages /\ "featuring" \in CallStages /\ "idle" \in CallStages
  BY <1>2, CallNames
<1>6. PairsFor(c) /\ ~crossed /\ Booted =>
        /\ stored.set.featured \in {mem.featured, NoKey} /\ r.snap.featured = mem.featured
        /\ r.kind # "delete" /\ r.active => Tracked(r.meta.key)
        /\ r.snap.featured # NoKey /\ r.row.meta.key # r.snap.featured => Tracked(r.snap.featured)
  BY <1>1, <1>2 DEF PairsFor, FeaturedFor, At
<1>7. CASE Goes(c, "checking")
  <2>1. PICK f \in CallRows : Does(c, f) /\ f.stage = "checking" /\ SameBut(f, r)
    BY <1>1, <1>3, <1>4, <1>5, <1>7, GoesTo
  <2>2. CallFits(c, f)
    BY <1>3, <1>4, <1>5, <2>1, StageFits DEF SameBut
  <2>3. call'[c] = f /\ Booted /\ ~tangled' /\ Alone(c) /\ PairsFor(c) => PairsFor(c)'
    <3> SUFFICES ASSUME call'[c] = f, Booted, PairsFor(c) PROVE PairsFor(c)'
      OBVIOUS
    <3>1. /\ ~At(c, "writing")' /\ ~At(c, "upserting")' /\ ~At(c, "following")'
          /\ ~At(c, "featuring")' /\ ~At(c, "featured")' /\ Owes(c)'
      BY <2>1 DEF At, Owes, OwingStages
    <3>2. ~crossed' => FeaturedFor(c)'
      BY <1>2, <1>3, <1>6, <2>1, <3>1 DEF FeaturedFor, SameBut
    <3> QED
      BY <3>1, <3>2 DEF PairsFor
  <2> QED
    BY <1>1, <1>2, <1>3, <1>5, <2>1, <2>2, <2>3, OwnMove
<1>8. CASE /\ r.kind # "delete" /\ r.active
           /\ Does(c, [r EXCEPT !.stage = "featuring", !.key = r.meta.key])
  <2>1. PICK k \in KeyOrNone : k = r.meta.key
    BY <1>4, CallFields, PollerConstants DEF KeyOrNone
  <2>2. PICK f : f = [r EXCEPT !.stage = "featuring", !.key = k]
    OBVIOUS
  <2>3. /\ f \in CallRows /\ f.stage = "featuring" /\ f.key = k /\ f.kind = r.kind
        /\ f.then = r.then /\ f.back = r.back /\ f.fail = r.fail
    BY <1>4, <1>5, <2>2 DEF CallRows
  <2>4. CallFits(c, f) /\ Does(c, f)
    BY <1>3, <1>4, <1>5, <1>8, <2>1, <2>2, <2>3, StageFits
  <2>5. call'[c] = f /\ Booted /\ ~tangled' /\ Alone(c) /\ PairsFor(c) => PairsFor(c)'
    <3> SUFFICES ASSUME call'[c] = f, Booted, PairsFor(c) PROVE PairsFor(c)'
      OBVIOUS
    <3>1. /\ ~At(c, "writing")' /\ ~At(c, "upserting")' /\ ~At(c, "following")' /\ ~At(c, "checking")'
          /\ ~At(c, "featured")' /\ Owes(c)' /\ call'[c].stage \notin {"writing", "following", "checking"}
      BY <2>3 DEF At, Owes, OwingStages
    <3>2. ~crossed' => FeaturedFor(c)'
      <4> SUFFICES ASSUME ~crossed' PROVE FeaturedFor(c)'
        OBVIOUS
      <4>1. Tracked(k) /\ stored.set.featured \in {mem.featured, NoKey}
        BY <1>2, <1>6, <1>8, <2>1
      <4>2. KeyStands(call[c].key)' /\ stored'.set.featured \in {mem'.featured, NoKey}
        BY <1>2, <2>3, <4>1 DEF KeyStands, Tracked
      <4> QED
        BY <1>3, <3>1, <4>2 DEF FeaturedFor
    <3> QED
      BY <3>1, <3>2 DEF PairsFor
  <2> QED
    BY <1>1, <1>2, <1>3, <1>5, <2>3, <2>4, <2>5, OwnMove
<1>9. CASE /\ \/ r.snap.featured # r.row.meta.key
              \/ r.kind # "delete" /\ r.active /\ r.meta.key = r.row.meta.key
           /\ Goes(c, "idle")
  <2>1. Does(c, IdleCall) /\ IdleCall \in CallRows /\ IdleCall.stage = "idle" /\ CallFits(c, IdleCall)
    BY <1>3, <1>9, IdleCallFits DEF Goes
  <2>2. call'[c] = IdleCall /\ Booted /\ ~tangled' /\ Alone(c) /\ PairsFor(c) => PairsFor(c)'
    <3> SUFFICES ASSUME call'[c] = IdleCall, Booted, PairsFor(c) PROVE PairsFor(c)'
      OBVIOUS
    <3>1. /\ ~At(c, "writing")' /\ ~At(c, "upserting")' /\ ~At(c, "following")' /\ ~At(c, "checking")'
          /\ ~At(c, "featured")' /\ ~At(c, "featuring")'
          /\ call'[c].stage \notin {"writing", "following", "checking"}
      BY <2>1 DEF At
    <3>2. ~crossed' => FeaturedFor(c)'
      <4> SUFFICES ASSUME ~crossed' PROVE FeaturedFor(c)'
        OBVIOUS
      <4>1. KeyStands(mem.featured) /\ stored.set.featured \in {mem.featured, NoKey}
        BY <1>2, <1>6, <1>9 DEF KeyStands
      <4>2. KeyStands(mem.featured)' /\ KeyStands(stored.set.featured)'
        BY <1>2, <4>1 DEF KeyStands, Tracked
      <4>3. stored'.set.featured \in {mem'.featured, NoKey}
        BY <1>2, <4>1
      <4> QED
        BY <1>3, <3>1, <4>2, <4>3 DEF FeaturedFor
    <3> QED
      BY <3>1, <3>2 DEF PairsFor
  <2> QED
    BY <1>1, <1>2, <1>3, <1>5, <2>1, <2>2, OwnMove
<1> QED
  BY <1>2, <1>7, <1>8, <1>9

-----------------------------------------------------------------------------
\* What is tracked after a row was written.
LEMMA TrackedStays ==
  ASSUME NEW i \in Ids, NEW p \in PairRows, NEW key, pairs \in [Ids -> PairRows],
         pairs' = [pairs EXCEPT ![i] = p], Tracked(key),
         pairs[i].exists /\ pairs[i].active /\ pairs[i].meta.key = key =>
             p.exists /\ p.active /\ p.meta.key = key
  PROVE  Tracked(key)'
<1>1. PICK j \in Ids : pairs[j].exists /\ pairs[j].active /\ pairs[j].meta.key = key
  BY DEF Tracked
<1>2. pairs'[i] = p /\ \A k \in Ids \ {i} : pairs'[k] = pairs[k]
  OBVIOUS
<1>3. pairs'[j].exists /\ pairs'[j].active /\ pairs'[j].meta.key = key
  BY <1>1, <1>2
<1> QED
  BY <1>3 DEF Tracked

LEMMA InsertedIs ==
  ASSUME PollerTyped, NEW meta \in Metas, NEW active \in BOOLEAN, NEW core \in BOOLEAN,
         Inserted(meta, active, core)
  PROVE  /\ created' \in 0 .. MaxId /\ pairs' \in [Ids -> PairRows]
         /\ \A i \in Ids : i > created' => pairs'[i] = NoPair
         /\ \A key : Tracked(key) => Tracked(key)'
         /\ active => Tracked(meta.key)'
         /\ \A i \in Ids : pairs'[i] = pairs[i] \/ (~pairs[i].exists /\ i = created')
<1>1. created \in 0 .. MaxId /\ created < MaxId /\ MaxId \in Nat /\ created' = created + 1
  BY PollerConstants DEF PollerTyped, Inserted
<1>2. PICK i \in Ids : i = created + 1
  BY <1>1 DEF Ids
<1>3. PICK p : p = [exists |-> TRUE, meta |-> meta, active |-> active, core |-> core]
  OBVIOUS
<1>4. p \in Pairs /\ p \in PairRows /\ p.exists = TRUE /\ p.meta = meta /\ p.active = active
  BY <1>3, PairRowsAre
<1>5. pairs \in [Ids -> PairRows] /\ pairs' = [pairs EXCEPT ![i] = p]
  BY <1>2, <1>3 DEF PollerTyped, Inserted
<1>6. pairs[i] = NoPair /\ ~pairs[i].exists
  <2>1. i > created
    BY <1>1, <1>2
  <2> QED
    BY <2>1, PairRowsAre DEF PollerTyped
<1>7. pairs' \in [Ids -> PairRows] /\ pairs'[i] = p /\ \A j \in Ids \ {i} : pairs'[j] = pairs[j]
  BY <1>4, <1>5
<1>8. \A j \in Ids : j > created' => pairs'[j] = NoPair
  <2> SUFFICES ASSUME NEW j \in Ids, j > created' PROVE pairs'[j] = NoPair
    OBVIOUS
  <2>1. j # i /\ j > created
    BY <1>1, <1>2 DEF Ids
  <2> QED
    BY <1>7, <2>1 DEF PollerTyped
<1>9. \A key : Tracked(key) => Tracked(key)'
  BY <1>4, <1>5, <1>6, TrackedStays
<1>10. active => Tracked(meta.key)'
  <2>1. active => pairs'[i].exists /\ pairs'[i].active /\ pairs'[i].meta.key = meta.key
    BY <1>4, <1>7
  <2> QED
    BY <2>1 DEF Tracked
<1>11. \A j \in Ids : pairs'[j] = pairs[j] \/ (~pairs[j].exists /\ j = created')
  BY <1>1, <1>2, <1>6, <1>7
<1>12. created' \in 0 .. MaxId
  BY <1>1
<1> QED
  BY <1>7, <1>8, <1>9, <1>10, <1>11, <1>12

LEMMA CreatePairStep == ASSUME NEW c \in Requests, PollerInv, CreatePair(c) PROVE PollerInv'
<1>1. PICK meta \in Metas, active \in BOOLEAN :
          /\ Inserted(meta, active, FALSE)
          /\ IF mem.featured = NoKey
               THEN Does(c, [Calls("create", "checking") EXCEPT !.meta = meta])
               ELSE UNCHANGED call
  BY DEF CreatePair
<1>2. /\ UNCHANGED <<phase, stored, mem, timer, isPolling, fresh, crossed>>
      /\ phase = "up" /\ Idle(c) /\ Overlaps(c)
  BY DEF CreatePair, Begins, priceProcess
<1>3. c \in Callers /\ c # Boot /\ c # Tick /\ call[c].stage = "idle"
  BY <1>2, PollerConstants DEF Idle
<1>4. call \in [Callers -> CallRows] /\ call[c] \in CallRows /\ CallFits(c, call[c]) /\ mem \in Memory
  BY <1>3 DEF PollerInv, PollerTyped, CallsFit
<1>5. /\ created' \in 0 .. MaxId /\ pairs' \in [Ids -> PairRows]
      /\ \A i \in Ids : i > created' => pairs'[i] = NoPair
      /\ \A key : Tracked(key) => Tracked(key)'
  <2>1. FALSE \in BOOLEAN
    OBVIOUS
  <2> QED
    BY <1>1, <2>1, InsertedIs DEF PollerInv
<1>6. PICK f \in CallRows : /\ Does(c, f) /\ CallFits(c, f) /\ f.stage \in {"idle", "checking"}
                            /\ f.stage = "checking" => f.snap = mem
  <2>1. CASE mem.featured = NoKey
    <3>1. PICK g : g = Calls("create", "checking")
      OBVIOUS
    <3>2. /\ g \in CallRows /\ g.kind = "create" /\ g.stage = "checking" /\ g.snap = mem
          /\ g.then = "idle" /\ g.back = "idle" /\ g.fail = "idle"
      BY <1>4, <3>1, CallsRow, CallNames
    <3>3. PICK f : f = [g EXCEPT !.meta = meta]
      OBVIOUS
    <3>4. /\ f \in CallRows /\ f.kind = "create" /\ f.stage = "checking" /\ f.snap = mem
          /\ f.then = "idle" /\ f.back = "idle" /\ f.fail = "idle"
      BY <3>2, <3>3 DEF CallRows
    <3>5. RequestFits(f)
      BY <3>4, CallNames DEF RequestFits, PairKinds
    <3>6. Does(c, f) /\ CallFits(c, f)
      BY <1>1, <1>3, <2>1, <3>1, <3>3, <3>5 DEF CallFits
    <3> QED
      BY <3>4, <3>6
  <2>2. CASE mem.featured # NoKey
    <3>1. call' = call
      BY <1>1, <2>2
    <3>2. Does(c, call[c])
      BY <1>4, <3>1 DEF Does
    <3> QED
      BY <1>3, <1>4, <3>2
  <2> QED
    BY <2>1, <2>2
<1>7. /\ call' \in [Callers -> CallRows] /\ call'[c] = f /\ OthersAsWere(c)
      /\ CallsFit' /\ PollInv' /\ ConfigInv' /\ (~crossed' /\ Booted' => Booted)
  <2>1. PlainStage(call[c].stage) /\ PlainStage(f.stage) /\ ~At(c, "polling") /\ f.stage # "polling"
    BY <1>3, <1>6 DEF PlainStage, At
  <2>2. StaysBooted(c) /\ KeepsSettings /\ MayMove(c, f)
    BY <1>2, <1>3, KeepsAll DEF StaysBooted, MayMove
  <2> QED
    BY <1>2, <1>3, <1>6, <2>1, <2>2, PlainStep DEF PollerInv
<1>8. ~tangled' => ~tangled /\ Alone(c) /\ PairsFor(c)
  <2>1. ~tangled' => ~tangled /\ Alone(c)
    BY <1>2, AloneBegins DEF PollerInv
  <2> QED
    BY <1>3, <2>1, PairsNow DEF PollerInv
<1>9. Booted
  BY <1>2, UpIsBooted DEF PollerInv
<1>10. ~tangled' => PairsFor(c)'
  <2> SUFFICES ASSUME ~tangled' PROVE PairsFor(c)'
    OBVIOUS
  <2>1. ~Owes(c) /\ ~At(c, "featured")
    BY <1>3 DEF Owes, At, OwingStages
  <2>2. /\ ~At(c, "following")' /\ ~At(c, "featured")' /\ ~At(c, "upserting")'
        /\ ~At(c, "writing")' /\ ~At(c, "featuring")'
    BY <1>6, <1>7 DEF At
  <2>3. ~crossed' => FeaturedFor(c)'
    <3> SUFFICES ASSUME ~crossed' PROVE FeaturedFor(c)'
      OBVIOUS
    <3>1. FeaturedFor(c)
      BY <1>2, <1>8 DEF PairsFor
    <3>2. /\ stored.exists => KeyStands(stored.set.featured)
          /\ KeyStands(mem.featured)
          /\ stored.set.featured \in {mem.featured, NoKey}
      BY <1>9, <2>1, <3>1 DEF FeaturedFor
    <3>3. PICK k, m : k = stored.set.featured /\ m = mem.featured
      OBVIOUS
    <3>4. (stored.exists => KeyStands(k)') /\ KeyStands(m)'
      BY <1>5, <3>2, <3>3 DEF KeyStands
    <3>5. stored'.set.featured = k /\ mem'.featured = m /\ k \in {m, NoKey} /\ stored'.exists = stored.exists
      BY <1>2, <3>2, <3>3
    <3>6. call'[c].stage \in {"writing", "following", "checking"} => call'[c].snap.featured = mem'.featured
      BY <1>2, <1>6, <1>7
    <3>7. (stored'.exists => KeyStands(stored.set.featured)') /\ KeyStands(mem.featured)'
      BY <3>4, <3>5 DEF KeyStands, Tracked
    <3> QED
      BY <1>3, <2>2, <3>5, <3>6, <3>7 DEF FeaturedFor
  <2> QED
    BY <2>2, <2>3 DEF PairsFor
<1>11. PairsInv'
  <2>1. CoreFirst'
    BY <1>2, <1>9, CoreLater DEF PollerInv
  <2> QED
    BY <1>3, <1>7, <1>8, <1>10, <2>1, PairsNext
<1>12. PollerTyped'
  <2>1. tangled' \in BOOLEAN
    BY <1>2 DEF Overlaps
  <2> QED
    BY <1>2, <1>5, <1>7, <2>1 DEF PollerInv, PollerTyped
<1> QED
  BY <1>7, <1>11, <1>12 DEF PollerInv

\* An update or a deletion: what follows of it is known.
LEMMA WritesStep ==
  ASSUME NEW c \in Requests, NEW p \in PairRows, PollerInv, call[c].stage = "writing",
         UNCHANGED <<created, phase, stored, mem, timer, isPolling, fresh, crossed>>,
         Overlaps(c), Goes(c, "following"),
         pairs' = [pairs EXCEPT ![call[c].id] = p],
         p.exists => pairs[call[c].id].exists,
         call[c].kind # "delete" /\ call[c].active /\ ~tangled =>
             p.exists /\ p.active /\ p.meta.key = call[c].meta.key
  PROVE  PollerInv'
<1>1. c \in Callers /\ c # Boot /\ c # Tick
  BY PollerConstants
<1>2. call \in [Callers -> CallRows] /\ call[c] \in CallRows /\ CallFits(c, call[c])
  BY <1>1 DEF PollerInv, PollerTyped, CallsFit
<1>3. PICK i \in Ids : i = call[c].id
  BY <1>2 DEF CallFits, RequestFits
<1>4. PICK f \in CallRows : Does(c, f) /\ f.stage = "following" /\ SameBut(f, call[c])
  BY <1>1, <1>2, CallNames, GoesTo
<1>5. CallFits(c, f) /\ call[c].stage \in PairStages
  BY <1>1, <1>2, <1>4, CallNames, StageFits DEF SameBut
<1>6. pairs \in [Ids -> PairRows] /\ pairs' = [pairs EXCEPT ![i] = p] /\ pairs' \in [Ids -> PairRows]
  BY <1>3 DEF PollerInv, PollerTyped
<1>7. pairs'[i] = p /\ \A j \in Ids \ {i} : pairs'[j] = pairs[j]
  BY <1>6
<1>8. \A j \in Ids : j > created' => pairs'[j] = NoPair
  <2> SUFFICES ASSUME NEW j \in Ids, j > created' PROVE pairs'[j] = NoPair
    OBVIOUS
  <2>1. pairs[j] = NoPair
    BY DEF PollerInv, PollerTyped
  <2>2. CASE j = i
    <3>1. ~p.exists
      BY <1>3, <2>1, <2>2, PairRowsAre
    <3> QED
      BY <1>7, <2>2, <3>1, PairRowsAre
  <2> QED
    BY <1>7, <2>1, <2>2
<1>9. KeepsSettings /\ tangled' \in BOOLEAN /\ (tangled => tangled')
  BY KeepsAll DEF Overlaps
<1>10. call'[c] = f /\ Booted /\ ~tangled' /\ Alone(c) /\ PairsFor(c) => PairsFor(c)'
  <2> SUFFICES ASSUME call'[c] = f, Booted, ~tangled', PairsFor(c) PROVE PairsFor(c)'
    OBVIOUS
  <2>1. /\ ~At(c, "writing")' /\ ~At(c, "upserting")' /\ ~At(c, "checking")'
        /\ ~At(c, "featuring")' /\ ~At(c, "featured")' /\ Owes(c)'
    BY <1>4 DEF At, Owes, OwingStages
  <2>2. pairs[i] = call[c].row /\ ~tangled
    BY <1>3, <1>9 DEF PairsFor, At
  <2>3. ~crossed' => FeaturedFor(c)'
    <3> SUFFICES ASSUME ~crossed' PROVE FeaturedFor(c)'
      OBVIOUS
    <3>1. FeaturedFor(c) /\ ~Owes(c) /\ ~At(c, "featured")
      BY DEF PairsFor, At, Owes, OwingStages
    <3>2. PICK k, m : k = call[c].meta.key /\ m = mem.featured
      OBVIOUS
    <3>3. /\ stored.set.featured \in {m, NoKey} /\ KeyStands(m) /\ call[c].snap.featured = m
      BY <3>1, <3>2 DEF FeaturedFor
    <3>4. m # NoKey /\ call[c].row.meta.key # m => Tracked(m)'
      <4> SUFFICES ASSUME m # NoKey, call[c].row.meta.key # m PROVE Tracked(m)'
        OBVIOUS
      <4>1. Tracked(m)
        BY <3>3 DEF KeyStands
      <4>2. pairs[i].meta.key # m
        BY <2>2
      <4> QED
        BY <1>6, <4>1, <4>2, TrackedStays
    <3>5. call[c].kind # "delete" /\ call[c].active => Tracked(k)'
      <4> SUFFICES ASSUME call[c].kind # "delete", call[c].active PROVE Tracked(k)'
        OBVIOUS
      <4>1. pairs'[i].exists /\ pairs'[i].active /\ pairs'[i].meta.key = k
        BY <1>7, <2>2, <3>2
      <4> QED
        BY <4>1 DEF Tracked
    <3>6. /\ call'[c].kind = call[c].kind /\ call'[c].active = call[c].active
          /\ call'[c].meta.key = k /\ call'[c].snap.featured = m /\ call'[c].row = call[c].row
      BY <1>4, <3>2, <3>3 DEF SameBut
    <3>7. /\ call'[c].kind # "delete" /\ call'[c].active => Tracked(call[c].meta.key)'
          /\ call'[c].snap.featured # NoKey /\ call'[c].row.meta.key # call'[c].snap.featured =>
                Tracked(call[c].snap.featured)'
      BY <3>4, <3>5, <3>6 DEF Tracked
    <3>8. stored'.set.featured \in {mem'.featured, NoKey} /\ call'[c].snap.featured = mem'.featured
      BY <3>2, <3>3, <3>6
    <3> QED
      BY <1>1, <2>1, <3>7, <3>8 DEF FeaturedFor
  <2> QED
    BY <2>1, <2>3 DEF PairsFor
<1>11. created' \in 0 .. MaxId /\ stored' \in StoredRows /\ mem' \in Memory
  BY DEF PollerInv, PollerTyped
<1> QED
  BY <1>1, <1>4, <1>5, <1>6, <1>8, <1>9, <1>10, <1>11, OwnStep

LEMMA UpdateWritesStep == ASSUME NEW c \in Requests, PollerInv, UpdateWrites(c) PROVE PollerInv'
<1>1. /\ call[c].stage = "writing" /\ call[c].kind = "update" /\ Overlaps(c) /\ Goes(c, "following")
      /\ UNCHANGED <<created, phase, stored, mem, timer, isPolling, fresh, crossed>>
  BY DEF UpdateWrites, At, priceProcess, priceCounts
<1>2. c \in Callers
  BY PollerConstants
<1>3. call[c] \in CallRows /\ CallFits(c, call[c]) /\ PairsInv /\ pairs \in [Ids -> PairRows]
  BY <1>2 DEF PollerInv, PollerTyped, CallsFit
<1>4. PICK i \in Ids : i = call[c].id
  BY <1>1, <1>3 DEF CallFits, RequestFits
<1>5. PICK meta \in Metas, active \in BOOLEAN : meta = call[c].meta /\ active = call[c].active
  BY <1>3, CallFields
<1>6. pairs[i] \in PairRows
  BY <1>3
<1>7. CASE pairs[i].exists
  <2>1. pairs[i] \in Pairs
    BY <1>6, <1>7, PairRowsAre
  <2>2. PICK p : p = [pairs[i] EXCEPT !.meta = meta, !.active = active]
    OBVIOUS
  <2>3. p \in Pairs /\ p.exists = TRUE /\ p.active = active /\ p.meta = meta
    BY <2>1, <2>2 DEF Pairs
  <2>4. pairs' = [pairs EXCEPT ![i] = p]
    BY <1>4, <1>5, <1>7, <2>2 DEF UpdateWrites
  <2> QED
    BY <1>1, <1>4, <1>5, <1>7, <2>3, <2>4, PairRowsAre, WritesStep
<1>8. CASE ~pairs[i].exists
  <2>1. pairs' = pairs
    BY <1>4, <1>8 DEF UpdateWrites
  <2>2. PICK p \in PairRows : p = pairs[i]
    BY <1>6
  <2>3. pairs' = [pairs EXCEPT ![i] = p]
    BY <1>3, <2>1, <2>2
  <2>4. tangled
    <3>1. CASE ~tangled
      <4>1. pairs[i] = call[c].row
        BY <1>1, <1>3, <1>4, <3>1 DEF PairsInv, WritesWhatItRead, At
      <4>2. call[c].row \in Pairs
        BY <1>1, <1>3 DEF CallFits, RequestFits
      <4> QED
        BY <1>8, <4>1, <4>2 DEF Pairs
    <3> QED
      BY <3>1
  <2> QED
    BY <1>1, <1>4, <1>8, <2>2, <2>3, <2>4, WritesStep
<1> QED
  BY <1>7, <1>8

LEMMA DeleteWritesStep == ASSUME NEW c \in Requests, PollerInv, DeleteWrites(c) PROVE PollerInv'
<1>1. /\ call[c].stage = "writing" /\ call[c].kind = "delete" /\ Overlaps(c) /\ Goes(c, "following")
      /\ UNCHANGED <<created, phase, stored, mem, timer, isPolling, fresh, crossed>>
      /\ pairs' = [pairs EXCEPT ![call[c].id] = NoPair]
  BY DEF DeleteWrites, At, priceProcess, priceCounts
<1> QED
  BY <1>1, PairRowsAre, WritesStep

LEMMA UpsertPairStep == ASSUME NEW c \in Callers, PollerInv, UpsertPair(c) PROVE PollerInv'
<1>1. PICK id, meta : id = call[c].id /\ meta = call[c].meta
  OBVIOUS
<1>2. /\ UNCHANGED <<phase, stored, mem, timer, isPolling, fresh, crossed>>
      /\ call[c].stage = "upserting" /\ Overlaps(c)
      /\ Does(c, [call[c] EXCEPT !.stage = "featuring", !.key = meta.key, !.then = "reloading"])
  BY <1>1 DEF UpsertPair, At, priceProcess, priceCounts
<1>3. \/ /\ id \in Existing
         /\ pairs' = [pairs EXCEPT ![id] = [@ EXCEPT !.meta = meta, !.active = TRUE, !.core = TRUE]]
         /\ UNCHANGED created
      \/ id \in Ids \ Existing /\ UNCHANGED <<pairs, created>>
      \/ id = 0 /\ Inserted(meta, TRUE, TRUE)
  BY <1>1 DEF UpsertPair
<1>4. call[c] \in CallRows /\ CallFits(c, call[c]) /\ pairs \in [Ids -> PairRows]
  BY DEF PollerInv, PollerTyped, CallsFit
<1>5. meta \in Metas /\ meta.key \in Keys /\ id \in IdOrNone
  BY <1>1, <1>4, CallFields, PollerConstants
<1>6. PICK k \in KeyOrNone : k = meta.key /\ k \in Keys
  BY <1>5 DEF KeyOrNone
<1>7. PICK f : f = [call[c] EXCEPT !.stage = "featuring", !.key = k, !.then = "reloading"]
  OBVIOUS
<1>8. "featuring" \in PairStages /\ "featuring" \in CallStages /\ "reloading" \in Thens /\ call[c].stage \in PairStages
  BY <1>2, CallNames
<1>9. /\ f \in CallRows /\ f.stage = "featuring" /\ f.key = k /\ f.kind = call[c].kind
      /\ f.then = "reloading" /\ f.back = call[c].back /\ f.fail = call[c].fail
  BY <1>4, <1>6, <1>7, <1>8 DEF CallRows
<1>10. CallFits(c, f) /\ Does(c, f)
  BY <1>2, <1>4, <1>6, <1>7, <1>8, <1>9, StageFits
<1>11. /\ created' \in 0 .. MaxId /\ pairs' \in [Ids -> PairRows]
       /\ \A i \in Ids : i > created' => pairs'[i] = NoPair
       /\ Tracked(k)' \/ id \in Ids \ Existing
  <2>1. CASE /\ id \in Existing
             /\ pairs' = [pairs EXCEPT ![id] = [@ EXCEPT !.meta = meta, !.active = TRUE, !.core = TRUE]]
             /\ UNCHANGED created
    <3>1. id \in Ids /\ pairs[id].exists /\ pairs[id] \in PairRows
      BY <1>4, <2>1 DEF Existing
    <3>2. pairs[id] \in Pairs /\ pairs[id] # NoPair
      BY <3>1, PairRowsAre
    <3>3. PICK p : p = [pairs[id] EXCEPT !.meta = meta, !.active = TRUE, !.core = TRUE]
      OBVIOUS
    <3>4. p \in PairRows /\ p.exists /\ p.active /\ p.meta = meta
      BY <1>5, <3>2, <3>3 DEF Pairs, PairRows
    <3>5. pairs' = [pairs EXCEPT ![id] = p]
      BY <2>1, <3>3
    <3>6. /\ pairs' \in [Ids -> PairRows] /\ pairs'[id] = p
          /\ \A j \in Ids \ {id} : pairs'[j] = pairs[j]
      BY <1>4, <3>1, <3>4, <3>5
    <3>7. created \in 0 .. MaxId /\ \A i \in Ids : i > created => pairs[i] = NoPair
      BY DEF PollerInv, PollerTyped
    <3>8. Tracked(k)'
      BY <1>6, <3>1, <3>4, <3>6 DEF Tracked
    <3> QED
      BY <2>1, <3>2, <3>6, <3>7, <3>8
  <2>2. CASE id \in Ids \ Existing /\ UNCHANGED <<pairs, created>>
    BY <2>2 DEF PollerInv, PollerTyped
  <2>3. CASE id = 0 /\ Inserted(meta, TRUE, TRUE)
    <3>1. TRUE \in BOOLEAN
      OBVIOUS
    <3>2. /\ created' \in 0 .. MaxId /\ pairs' \in [Ids -> PairRows]
          /\ \A i \in Ids : i > created' => pairs'[i] = NoPair
          /\ Tracked(meta.key)'
      BY <1>5, <2>3, <3>1, InsertedIs DEF PollerInv
    <3> QED
      BY <1>6, <3>2
  <2> QED
    BY <1>3, <2>1, <2>2, <2>3
<1>12. KeepsSettings /\ tangled' \in BOOLEAN /\ (tangled => tangled')
  BY <1>2, KeepsAll DEF Overlaps
<1>13. call'[c] = f /\ Booted /\ ~tangled' /\ Alone(c) /\ PairsFor(c) => PairsFor(c)'
  <2> SUFFICES ASSUME call'[c] = f, Booted, PairsFor(c) PROVE PairsFor(c)'
    OBVIOUS
  <2>1. /\ ~At(c, "writing")' /\ ~At(c, "upserting")' /\ ~At(c, "checking")' /\ ~At(c, "following")'
        /\ ~At(c, "featured")' /\ Owes(c)' /\ call'[c].stage \notin {"writing", "following", "checking"}
    BY <1>9 DEF At, Owes, OwingStages
  <2>2. id = 0 \/ id \in Existing
    BY <1>1, <1>2 DEF PairsFor, At
  <2>3. Tracked(k)'
    BY <1>11, <2>2, PollerConstants DEF Ids
  <2>4. ~crossed' => FeaturedFor(c)'
    <3> SUFFICES ASSUME ~crossed' PROVE FeaturedFor(c)'
      OBVIOUS
    <3>1. FeaturedFor(c) /\ ~At(c, "featured")
      BY <1>2 DEF PairsFor, At
    <3>2. stored'.set.featured \in {mem'.featured, NoKey}
      BY <1>2, <3>1 DEF FeaturedFor
    <3>3. KeyStands(call[c].key)'
      BY <1>9, <2>3 DEF KeyStands, Tracked
    <3> QED
      BY <2>1, <3>2, <3>3 DEF FeaturedFor
  <2> QED
    BY <2>1, <2>4 DEF PairsFor
<1>14. stored' \in StoredRows /\ mem' \in Memory
  BY <1>2 DEF PollerInv, PollerTyped
<1> QED
  BY <1>2, <1>8, <1>9, <1>10, <1>11, <1>12, <1>13, <1>14, OwnStep

-----------------------------------------------------------------------------
\* Steps of start-up.
LEMMA BootStep ==
  ASSUME NEW f \in CallRows, PollerInv, Does(Boot, f), BootFits(f),
         call[Boot].stage \in EarlyStages \cup {"reconciling"},
         call[Boot].stage \in EarlyStages => f.stage \in EarlyStages,
         PlainStage(f.stage), f.stage # "polling",
         UNCHANGED <<phase, stored, mem, timer, isPolling, fresh, crossed, tangled>>,
         created' \in 0 .. MaxId, pairs' \in [Ids -> PairRows],
         \A i \in Ids : i > created' => pairs'[i] = NoPair,
         call'[Boot] = f => CoreFirst',
         call'[Boot] = f /\ ~tangled /\ PairsFor(Boot) /\ (call[Boot].stage = "reconciling" => Booted)
            => PairsFor(Boot)'
  PROVE  PollerInv'
<1>1. Boot \in Callers /\ Boot \notin Requests /\ Boot # Tick
  BY PollerConstants
<1>2. /\ ~Idle(Boot) /\ ~At(Boot, "polling") /\ PlainStage(call[Boot].stage) /\ phase = "starting"
      /\ call[Boot].stage = "reconciling" => Booted
  <2>1. ~Idle(Boot)
    BY DEF Idle, EarlyStages
  <2>2. phase = "starting"
    BY <2>1, UpIsBooted DEF PollerInv
  <2> QED
    BY <2>1, <2>2 DEF At, PlainStage, EarlyStages, Booted
<1>3. CallFits(Boot, f) /\ MayMove(Boot, f)
  BY <1>1, <1>2 DEF CallFits, MayMove
<1>4. StaysBooted(Boot) /\ KeepsSettings
  <2>1. call'[Boot] = f
    BY <1>1, OneCallMoves DEF PollerInv, PollerTyped
  <2> QED
    BY <2>1, KeepsAll DEF StaysBooted
<1>5. /\ call' \in [Callers -> CallRows] /\ call'[Boot] = f /\ OthersAsWere(Boot)
      /\ CallsFit' /\ PollInv' /\ ConfigInv'
  BY <1>1, <1>2, <1>3, <1>4, PlainStep DEF PollerInv
<1>6. ~tangled' => Alone(Boot) /\ PairsFor(Boot)'
  <2>1. ~tangled => Alone(Boot)
    BY <1>1, <1>2, AloneCaller DEF PollerInv, PairsInv
  <2>2. ~tangled => PairsFor(Boot)
    BY <1>1, <2>1, PairsNow DEF PollerInv
  <2> QED
    BY <1>2, <1>5, <2>1, <2>2
<1>7. PairsInv'
  BY <1>1, <1>5, <1>6, PairsNext
<1>8. PollerTyped'
  BY <1>5 DEF PollerInv, PollerTyped
<1> QED
  BY <1>5, <1>7, <1>8 DEF PollerInv

\* While start-up marks and inserts the configured pair, what is tracked stays so.
LEMMA EarlyStep ==
  ASSUME NEW s \in EarlyStages, PollerInv, Goes(Boot, s), call[Boot].stage \in EarlyStages,
         UNCHANGED <<phase, stored, mem, timer, isPolling, fresh, crossed, tangled>>,
         created' \in 0 .. MaxId, pairs' \in [Ids -> PairRows],
         \A i \in Ids : i > created' => pairs'[i] = NoPair,
         \A key : Tracked(key) => Tracked(key)',
         ~crossed /\ ~stored.exists => /\ Existing' = {} \/ Tracked(Core.key)'
                                       /\ s = "settings" => Tracked(Core.key)'
  PROVE  PollerInv'
<1>1. Boot \in Callers /\ Boot \notin Requests /\ Boot # Tick
  BY PollerConstants
<1>2. call \in [Callers -> CallRows] /\ call[Boot] \in CallRows /\ BootFits(call[Boot])
  BY <1>1 DEF PollerInv, PollerTyped, CallsFit, CallFits
<1>3. s \in CallStages /\ s # "idle" /\ s \in {"core", "insert", "settings"}
  BY CallNames DEF EarlyStages
<1>4. PICK f \in CallRows : Does(Boot, f) /\ f.stage = s /\ SameBut(f, call[Boot])
  BY <1>1, <1>2, <1>3, GoesTo
<1>5. BootFits(f)
  BY <1>2, <1>3, <1>4 DEF BootFits, SameBut, EarlyStages
<1>6. PlainStage(f.stage) /\ f.stage # "polling"
  BY <1>4, StageFacts
<1>7. call'[Boot] = f => CoreFirst'
  <2> SUFFICES ASSUME call'[Boot] = f PROVE CoreFirst'
    OBVIOUS
  <2>1. At(Boot, "settings")' => s = "settings"
    BY <1>4 DEF At
  <2> QED
    BY <2>1 DEF PollerInv, PairsInv, CoreFirst
<1>8. call'[Boot] = f /\ PairsFor(Boot) => PairsFor(Boot)'
  <2> SUFFICES ASSUME call'[Boot] = f, PairsFor(Boot) PROVE PairsFor(Boot)'
    OBVIOUS
  <2>1. /\ ~At(Boot, "upserting")' /\ ~At(Boot, "featured")' /\ ~At(Boot, "featuring")'
        /\ ~At(Boot, "checking")' /\ ~Booted' /\ ~Owes(Boot)
    BY <1>3, <1>4 DEF At, Owes, OwingStages, Booted, EarlyStages
  <2>2. ~crossed' => FeaturedFor(Boot)'
    <3> SUFFICES ASSUME ~crossed' PROVE FeaturedFor(Boot)'
      OBVIOUS
    <3>1. stored.exists => KeyStands(stored.set.featured)
      BY <2>1 DEF PairsFor, FeaturedFor
    <3>2. PICK k : k = stored.set.featured
      OBVIOUS
    <3>3. stored.exists => KeyStands(k)'
      BY <3>1, <3>2 DEF KeyStands
    <3>4. stored'.exists => KeyStands(stored.set.featured)'
      BY <3>2, <3>3 DEF KeyStands, Tracked
    <3> QED
      BY <1>1, <2>1, <3>4 DEF FeaturedFor
  <2> QED
    BY <1>1, <2>1, <2>2 DEF PairsFor
<1> QED
  BY <1>4, <1>5, <1>6, <1>7, <1>8, BootStep

LEMMA MarkCoreStep == ASSUME PollerInv, MarkCore PROVE PollerInv'
<1>1. PICK I : I = ByKey(Core.key) \cup ByPool(Core.pool)
  OBVIOUS
<1>2. /\ UNCHANGED <<created, phase, stored, mem, timer, isPolling, fresh, crossed, tangled>>
      /\ call[Boot].stage = "core" /\ Goes(Boot, "insert")
      /\ pairs' = [i \in Ids |-> IF i \in I THEN [pairs[i] EXCEPT !.core = TRUE] ELSE pairs[i]]
  BY <1>1 DEF MarkCore, At, priceProcess, priceHistory, priceCounts
<1>3. \A i \in I : i \in Ids /\ pairs[i].exists
  BY <1>1 DEF ByKey, ByPool, Existing
<1>4. \A i \in Ids : /\ pairs'[i] \in PairRows /\ (pairs'[i].exists <=> pairs[i].exists)
                     /\ pairs[i].exists => /\ pairs'[i].active = pairs[i].active
                                           /\ pairs'[i].meta = pairs[i].meta
                     /\ i > created => pairs'[i] = NoPair
  <2> TAKE i \in Ids
  <2>1. pairs[i] \in PairRows /\ (i > created => pairs[i] = NoPair)
    BY DEF PollerInv, PollerTyped
  <2>2. CASE i \in I
    <3>1. pairs[i] \in Pairs /\ pairs[i] # NoPair
      BY <1>3, <2>1, <2>2, PairRowsAre
    <3>2. PICK p : p = [pairs[i] EXCEPT !.core = TRUE]
      OBVIOUS
    <3>3. /\ p \in PairRows /\ p.exists = pairs[i].exists /\ p.active = pairs[i].active
          /\ p.meta = pairs[i].meta
      BY <3>1, <3>2 DEF Pairs, PairRows
    <3>4. pairs'[i] = p
      BY <1>2, <2>2, <3>2
    <3> QED
      BY <2>1, <3>1, <3>3, <3>4
  <2>3. CASE i \notin I
    BY <1>2, <2>1, <2>3
  <2> QED
    BY <2>2, <2>3
<1>5. pairs' \in [Ids -> PairRows] /\ created' \in 0 .. MaxId
  BY <1>2, <1>4 DEF PollerInv, PollerTyped
<1>6. Existing' = Existing /\ \A key : Tracked(key) => Tracked(key)'
  BY <1>4 DEF Existing, Tracked
<1>7. ~crossed /\ ~stored.exists => Existing' = {} \/ Tracked(Core.key)'
  BY <1>6 DEF PollerInv, PairsInv, CoreFirst
<1> QED
  BY <1>2, <1>4, <1>5, <1>6, <1>7, EarlyStep DEF EarlyStages

LEMMA InsertCoreStep == ASSUME PollerInv, InsertCore PROVE PollerInv'
<1>1. /\ UNCHANGED <<phase, stored, mem, timer, isPolling, fresh, crossed, tangled>>
      /\ call[Boot].stage = "insert" /\ Goes(Boot, "settings")
      /\ \/ Clashes(Core, 0) /\ UNCHANGED <<pairs, created>>
         \/ Inserted(Core, TRUE, TRUE)
  BY DEF InsertCore, At, priceProcess, priceHistory, priceCounts
<1>2. CASE Clashes(Core, 0) /\ UNCHANGED <<pairs, created>>
  <2>1. Existing # {}
    BY <1>2 DEF Clashes, ByKey, ByPool
  <2>2. ~crossed /\ ~stored.exists => Tracked(Core.key)
    BY <2>1 DEF PollerInv, PairsInv, CoreFirst
  <2>3. \A key : Tracked(key) => Tracked(key)'
    BY <1>2 DEF Tracked
  <2>4. ~crossed /\ ~stored.exists => Tracked(Core.key)'
    BY <2>2, <2>3
  <2>5. /\ created' \in 0 .. MaxId /\ pairs' \in [Ids -> PairRows]
        /\ \A i \in Ids : i > created' => pairs'[i] = NoPair
    BY <1>2 DEF PollerInv, PollerTyped
  <2> QED
    BY <1>1, <2>3, <2>4, <2>5, EarlyStep DEF EarlyStages
<1>3. CASE Inserted(Core, TRUE, TRUE)
  <2>1. TRUE \in BOOLEAN /\ Core \in Metas
    BY PollerConstants
  <2>2. /\ created' \in 0 .. MaxId /\ pairs' \in [Ids -> PairRows]
        /\ \A i \in Ids : i > created' => pairs'[i] = NoPair
        /\ \A key : Tracked(key) => Tracked(key)'
        /\ Tracked(Core.key)'
    BY <1>3, <2>1, InsertedIs DEF PollerInv
  <2> QED
    BY <1>1, <2>2, EarlyStep DEF EarlyStages
<1> QED
  BY <1>1, <1>2, <1>3

LEMMA LoadSettingsStep == ASSUME PollerInv, LoadSettings PROVE PollerInv'
<1>1. PICK set : set = IF stored.exists THEN stored.set ELSE Defaults
  OBVIOUS
<1>2. /\ UNCHANGED <<pairs, created, phase, timer, isPolling, fresh, crossed, tangled>>
      /\ call[Boot].stage = "settings" /\ stored' = [exists |-> TRUE, set |-> set]
      /\ mem' = [set EXCEPT !.featured = IF @ = NoKey THEN Core.key ELSE @]
      /\ Does(Boot, [call[Boot] EXCEPT !.stage = "checking", !.then = "reconciling"])
  BY <1>1 DEF LoadSettings, At, priceHistory, priceCounts
<1>3. Boot \in Callers /\ Boot \notin Requests /\ Boot # Tick
  BY PollerConstants
<1>4. /\ call \in [Callers -> CallRows] /\ call[Boot] \in CallRows /\ BootFits(call[Boot])
      /\ stored \in StoredRows /\ CallsFit
  BY <1>3 DEF PollerInv, PollerTyped, CallsFit, CallFits
<1>5. set \in Memory
  BY <1>1, <1>4, StoredIs, MemoryIs
<1>6. PICK k \in KeyOrNone : k = IF set.featured = NoKey THEN Core.key ELSE set.featured
  BY <1>5, MemoryIs, PollerConstants DEF KeyOrNone
<1>7. mem' \in Memory /\ mem'.featured = k /\ mem'.interval = set.interval /\ mem'.ingest = set.ingest
  <2>1. PICK n \in Memory : /\ n = [set EXCEPT !.featured = k] /\ n.featured = k
                            /\ n.interval = set.interval /\ n.ingest = set.ingest
    BY <1>5, MemoryFeatures
  <2>2. mem' = n
    BY <1>2, <1>6, <2>1
  <2> QED
    BY <2>1, <2>2
<1>8. stored' \in StoredRows /\ stored'.exists = TRUE /\ stored'.set = set
  BY <1>2, <1>5, StoredIs
<1>9. PICK f : f = [call[Boot] EXCEPT !.stage = "checking", !.then = "reconciling"]
  OBVIOUS
<1>10. /\ f \in CallRows /\ f.stage = "checking" /\ f.then = "reconciling"
       /\ f.snap = call[Boot].snap /\ f.fail = call[Boot].fail /\ Does(Boot, f)
  <2>1. "checking" \in CallStages /\ "reconciling" \in Thens
    BY CallNames
  <2> QED
    BY <1>2, <1>4, <1>9, <2>1 DEF CallRows
<1>11. CallFits(Boot, f) /\ MayMove(Boot, f)
  <2>1. call[Boot].snap.featured = Core.key
    BY <1>2, <1>4 DEF BootFits, EarlyStages
  <2>2. "checking" \in CallStages /\ "checking" \notin EarlyStages
    BY CallNames DEF EarlyStages
  <2>3. BootFits(f)
    BY <1>10, <2>1, <2>2 DEF BootFits
  <2> QED
    BY <1>2, <1>3, <2>3 DEF CallFits, MayMove, Idle
<1>12. call' \in [Callers -> CallRows] /\ call'[Boot] = f /\ OthersAsWere(Boot)
  BY <1>3, <1>4, <1>10, OneCallMoves
<1>13. CallsFit'
  BY <1>2, <1>3, <1>10, <1>11, FitsOn DEF PollerInv
<1>14. PollInv'
  BY <1>2, <1>3, <1>10, <1>12, PollApart DEF PollerInv, At
<1>15. phase = "starting" /\ ~fresh /\ \A c \in Requests : Idle(c)
  BY <1>2, <1>4, UpIsBooted DEF Idle, CallsFit
<1>16. ConfigInv'
  <2>1. \A c \in Requests : ~At(c, "applying")'
    BY <1>3, <1>12, <1>15, PollerConstants DEF Idle, At, OthersAsWere
  <2>2. SameSettings(mem', stored'.set)
    BY <1>7, <1>8 DEF SameSettings
  <2> QED
    BY <1>2, <1>8, <1>15, <2>1, <2>2 DEF ConfigInv
<1>17. ~tangled' => Alone(Boot) /\ PairsFor(Boot)'
  <2> SUFFICES ASSUME ~tangled' PROVE Alone(Boot) /\ PairsFor(Boot)'
    OBVIOUS
  <2>1. Alone(Boot)
    BY <1>2, <1>3, <1>4, AloneCaller DEF PollerInv, PairsInv, Idle
  <2>2. PairsFor(Boot)
    BY <1>2, <1>3, <2>1, PairsNow DEF PollerInv
  <2>3. ~At(Boot, "upserting")' /\ ~At(Boot, "featured")' /\ ~At(Boot, "featuring")' /\ Owes(Boot)'
    BY <1>10, <1>12 DEF At, Owes, OwingStages
  <2>4. ~crossed' => FeaturedFor(Boot)'
    <3> SUFFICES ASSUME ~crossed' PROVE FeaturedFor(Boot)'
      OBVIOUS
    <3>1. PICK s : s = set.featured
      OBVIOUS
    <3>2. KeyStands(s)
      <4>1. CASE stored.exists
        <5>1. ~Owes(Boot)
          BY <1>2 DEF Owes, OwingStages
        <5> QED
          BY <1>1, <1>2, <2>2, <3>1, <4>1, <5>1 DEF PairsFor, FeaturedFor
      <4>2. CASE ~stored.exists
        <5>1. Tracked(Core.key)
          BY <1>2, <4>2 DEF PollerInv, PairsInv, CoreFirst, At
        <5>2. s = Core.key
          BY <1>1, <3>1, <4>2, MemoryIs
        <5> QED
          BY <5>1, <5>2 DEF KeyStands
      <4> QED
        BY <4>1, <4>2
    <3>3. stored'.set.featured = s /\ mem'.featured \in {s, Core.key} /\ s \in {mem'.featured, NoKey}
      BY <1>6, <1>7, <1>8, <3>1
    <3>4. KeyStands(stored.set.featured)'
      BY <1>2, <3>2, <3>3 DEF KeyStands, Tracked
    <3> QED
      BY <1>3, <2>3, <3>3, <3>4 DEF FeaturedFor
  <2> QED
    BY <1>3, <2>1, <2>3, <2>4 DEF PairsFor
<1>18. PairsInv'
  <2>1. CoreFirst'
    BY <1>8 DEF CoreFirst
  <2> QED
    BY <1>3, <1>12, <1>17, <2>1, PairsNext
<1>19. PollerTyped'
  BY <1>2, <1>7, <1>8, <1>12 DEF PollerInv, PollerTyped
<1> QED
  BY <1>13, <1>14, <1>16, <1>18, <1>19 DEF PollerInv

LEMMA ReconcileStep == ASSUME PollerInv, Reconcile PROVE PollerInv'
<1>1. /\ UNCHANGED <<created, phase, stored, mem, timer, isPolling, fresh, crossed, tangled>>
      /\ call[Boot].stage = "reconciling"
  BY DEF Reconcile, At, priceProcess, priceHistory, priceCounts
<1>2. PICK fitting : fitting = {i \in Active : pairs[i].meta.fits}
  OBVIOUS
<1>3. PICK compatible \in SUBSET fitting, mismatched \in SUBSET (Active \ fitting) :
        \/ Goes(Boot, "polling1") /\ UNCHANGED pairs
        \/ /\ Does(Boot, [call[Boot] EXCEPT !.stage = "finding", !.meta = Core, !.back = "polling1"])
           /\ UNCHANGED pairs
        \/ /\ compatible # {}
           /\ pairs' = [i \in Ids |-> IF i \in mismatched
                  THEN [pairs[i] EXCEPT !.active = FALSE, !.core = FALSE] ELSE pairs[i]]
           /\ IF mem.featured \in {pairs[i].meta.key : i \in mismatched}
                THEN LET cores == {i \in compatible : pairs[i].core}
                         first == Min(IF cores # {} THEN cores ELSE compatible)
                     IN  Does(Boot, [call[Boot] EXCEPT !.stage = "featuring",
                                       !.key = pairs[first].meta.key, !.then = "polling1"])
                ELSE Goes(Boot, "polling1")
  BY <1>2 DEF Reconcile
<1>4. Boot \in Callers /\ Boot \notin Requests
  BY PollerConstants
<1>5. call \in [Callers -> CallRows] /\ call[Boot] \in CallRows /\ BootFits(call[Boot])
  BY <1>4 DEF PollerInv, PollerTyped, CallsFit, CallFits
<1>6. /\ created \in 0 .. MaxId /\ pairs \in [Ids -> PairRows]
      /\ \A i \in Ids : i > created => pairs[i] = NoPair
  BY DEF PollerInv, PollerTyped
<1>7. Active \subseteq Ids /\ Ids \subseteq Nat /\ \A i \in Active : pairs[i].exists /\ pairs[i].active
  BY PollerConstants DEF Active, Existing, Ids
<1>8. Booted
  <2>1. phase = "starting"
    BY <1>1, UpIsBooted DEF PollerInv, Idle
  <2> QED
    BY <1>1, <2>1 DEF Booted, EarlyStages
<1>9. CoreFirst'
  BY <1>1, <1>8, CoreLater DEF PollerInv
<1>10. /\ "polling1" \in CallStages /\ "polling1" \in Thens /\ "polling1" \in Backs
       /\ "finding" \in CallStages /\ "featuring" \in CallStages /\ Core \in Metas
  BY CallNames, PollerConstants DEF Backs
<1>11. ~crossed /\ PairsFor(Boot) => /\ stored.set.featured \in {mem.featured, NoKey}
                                     /\ KeyStands(mem.featured)
                                     /\ stored.exists => KeyStands(stored.set.featured)
  <2>1. ~Owes(Boot) /\ ~At(Boot, "featured")
    BY <1>1 DEF Owes, At, OwingStages
  <2> QED
    BY <1>8, <2>1 DEF PairsFor, FeaturedFor
<1>12. ASSUME NEW f \in CallRows, Does(Boot, f), f.then # "retiming",
              f.stage \in {"polling1", "finding", "featuring"}, pairs' \in [Ids -> PairRows],
              \A i \in Ids : i > created => pairs'[i] = NoPair,
              f.stage # "featuring" => \A key : key = mem.featured /\ Tracked(key) => Tracked(key)',
              f.stage = "featuring" => Tracked(f.key)'
       PROVE  PollerInv'
  <2>1. BootFits(f) /\ PlainStage(f.stage) /\ f.stage # "polling"
    BY <1>10, <1>12 DEF BootFits, PlainStage, EarlyStages
  <2>2. call[Boot].stage \notin EarlyStages
    BY <1>1 DEF EarlyStages
  <2>3. call'[Boot] = f /\ PairsFor(Boot) => PairsFor(Boot)'
    <3> SUFFICES ASSUME call'[Boot] = f, PairsFor(Boot) PROVE PairsFor(Boot)'
      OBVIOUS
    <3>1. ~At(Boot, "upserting")' /\ ~At(Boot, "featured")' /\ ~At(Boot, "checking")'
      BY <1>12 DEF At
    <3>2. ~crossed' => FeaturedFor(Boot)'
      <4> SUFFICES ASSUME ~crossed' PROVE FeaturedFor(Boot)'
        OBVIOUS
      <4>1. PICK k, m : k = stored.set.featured /\ m = mem.featured
        OBVIOUS
      <4>2. k \in {m, NoKey} /\ KeyStands(m)
        BY <1>1, <1>11, <4>1
      <4>3. stored'.set.featured = k /\ mem'.featured = m
        BY <1>1, <4>1
      <4>4. CASE f.stage = "featuring"
        <5>1. Owes(Boot)'
          BY <4>4 DEF Owes, OwingStages
        <5>2. KeyStands(call[Boot].key)'
          BY <1>12, <4>4 DEF KeyStands, Tracked
        <5> QED
          BY <1>4, <3>1, <4>2, <4>3, <5>1, <5>2 DEF FeaturedFor
      <4>5. CASE f.stage # "featuring"
        <5>1. KeyStands(m)' /\ KeyStands(k)'
          BY <1>12, <4>1, <4>2, <4>5 DEF KeyStands
        <5>2. KeyStands(mem.featured)' /\ KeyStands(stored.set.featured)'
          BY <4>3, <5>1 DEF KeyStands, Tracked
        <5>3. ~At(Boot, "featuring")'
          BY <4>5 DEF At
        <5> QED
          BY <1>4, <3>1, <4>2, <4>3, <5>2, <5>3 DEF FeaturedFor
      <4> QED
        BY <4>4, <4>5
    <3> QED
      BY <1>4, <3>1, <3>2 DEF PairsFor
  <2> QED
    BY <1>1, <1>6, <1>9, <1>12, <2>1, <2>2, <2>3, BootStep
<1>13. ASSUME Goes(Boot, "polling1"), pairs' \in [Ids -> PairRows],
              \A i \in Ids : i > created => pairs'[i] = NoPair,
              \A key : key = mem.featured /\ Tracked(key) => Tracked(key)'
       PROVE  PollerInv'
  <2>1. PICK f \in CallRows : Does(Boot, f) /\ f.stage = "polling1" /\ SameBut(f, call[Boot])
    BY <1>4, <1>5, <1>10, <1>13, GoesTo
  <2>2. f.then # "retiming"
    BY <1>5, <2>1 DEF BootFits, SameBut
  <2> QED
    BY <1>12, <1>13, <2>1, <2>2
<1>14. CASE Goes(Boot, "polling1") /\ UNCHANGED pairs
  <2>1. \A key : Tracked(key) => Tracked(key)'
    BY <1>14 DEF Tracked
  <2> QED
    BY <1>6, <1>13, <1>14, <2>1
<1>15. CASE /\ Does(Boot, [call[Boot] EXCEPT !.stage = "finding", !.meta = Core, !.back = "polling1"])
            /\ UNCHANGED pairs
  <2>1. PICK f : f = [call[Boot] EXCEPT !.stage = "finding", !.meta = Core, !.back = "polling1"]
    OBVIOUS
  <2>2. f \in CallRows /\ f.stage = "finding" /\ f.then = call[Boot].then
    BY <1>5, <1>10, <2>1 DEF CallRows
  <2>3. f.then # "retiming" /\ Does(Boot, f)
    BY <1>5, <1>15, <2>1, <2>2 DEF BootFits
  <2>4. \A key : Tracked(key) => Tracked(key)'
    BY <1>15 DEF Tracked
  <2> QED
    BY <1>6, <1>12, <1>15, <2>2, <2>3, <2>4
<1>16. CASE /\ compatible # {}
            /\ pairs' = [i \in Ids |-> IF i \in mismatched
                   THEN [pairs[i] EXCEPT !.active = FALSE, !.core = FALSE] ELSE pairs[i]]
            /\ IF mem.featured \in {pairs[i].meta.key : i \in mismatched}
                 THEN LET cores == {i \in compatible : pairs[i].core}
                          first == Min(IF cores # {} THEN cores ELSE compatible)
                      IN  Does(Boot, [call[Boot] EXCEPT !.stage = "featuring",
                                        !.key = pairs[first].meta.key, !.then = "polling1"])
                 ELSE Goes(Boot, "polling1")
  <2>1. /\ mismatched \subseteq Active /\ compatible \subseteq Active
        /\ \A i \in compatible : i \notin mismatched
    BY <1>2
  <2>2. \A i \in Ids : pairs'[i] \in PairRows /\ (i > created => pairs'[i] = NoPair)
    <3> TAKE i \in Ids
    <3>1. CASE i \in mismatched
      <4>1. pairs[i] \in Pairs /\ pairs[i] # NoPair
        BY <1>6, <1>7, <2>1, <3>1, PairRowsAre
      <4>2. PICK p : p = [pairs[i] EXCEPT !.active = FALSE, !.core = FALSE]
        OBVIOUS
      <4>3. p \in PairRows
        BY <4>1, <4>2 DEF Pairs, PairRows
      <4>4. pairs'[i] = p
        BY <1>16, <3>1, <4>2
      <4> QED
        BY <1>6, <4>1, <4>3, <4>4
    <3>2. CASE i \notin mismatched
      BY <1>6, <1>16, <3>2
    <3> QED
      BY <3>1, <3>2
  <2>3. pairs' \in [Ids -> PairRows]
    BY <1>16, <2>2
  <2>4. \A i \in Ids : i \notin mismatched => pairs'[i] = pairs[i]
    BY <1>16
  <2>5. CASE mem.featured \in {pairs[i].meta.key : i \in mismatched}
    <3>1. PICK cores : cores = {i \in compatible : pairs[i].core}
      OBVIOUS
    <3>2. PICK S : S = IF cores # {} THEN cores ELSE compatible
      OBVIOUS
    <3>3. S \subseteq compatible /\ S # {}
      BY <1>16, <3>1, <3>2
    <3>4. PICK first \in compatible : first = Min(S)
      BY <1>7, <2>1, <3>3, SmallestOf
    <3>5. /\ first \in Ids /\ pairs[first].exists /\ pairs[first].active /\ pairs'[first] = pairs[first]
          /\ pairs[first] \in PairRows
      BY <1>6, <1>7, <2>1, <2>4
    <3>6. PICK k \in KeyOrNone : k = pairs[first].meta.key
      BY <3>5, PairRowsAre, PollerConstants DEF KeyOrNone
    <3>7. PICK f : f = [call[Boot] EXCEPT !.stage = "featuring", !.key = k, !.then = "polling1"]
      OBVIOUS
    <3>8. f \in CallRows /\ f.stage = "featuring" /\ f.then = "polling1" /\ f.key = k
      BY <1>5, <1>10, <3>7 DEF CallRows
    <3>9. Does(Boot, f)
      BY <1>16, <2>5, <3>1, <3>2, <3>4, <3>6, <3>7
    <3>10. Tracked(f.key)'
      BY <3>5, <3>6, <3>8 DEF Tracked
    <3> QED
      BY <1>12, <2>2, <2>3, <3>8, <3>9, <3>10
  <2>6. CASE mem.featured \notin {pairs[i].meta.key : i \in mismatched}
    <3>1. \A key : key = mem.featured /\ Tracked(key) => Tracked(key)'
      <4> SUFFICES ASSUME NEW key, key = mem.featured, Tracked(key) PROVE Tracked(key)'
        OBVIOUS
      <4>1. PICK i \in Ids : pairs[i].exists /\ pairs[i].active /\ pairs[i].meta.key = key
        BY DEF Tracked
      <4>2. i \notin mismatched
        BY <2>6, <4>1
      <4>3. pairs'[i].exists /\ pairs'[i].active /\ pairs'[i].meta.key = key
        BY <2>4, <4>1, <4>2
      <4> QED
        BY <4>3 DEF Tracked
    <3> QED
      BY <1>13, <1>16, <2>2, <2>3, <2>6, <3>1
  <2> QED
    BY <2>5, <2>6
<1> QED
  BY <1>3, <1>14, <1>15, <1>16

LEMMA StartStep == ASSUME PollerInv, Start PROVE PollerInv'
<1>1. PICK f : f = [IdleCall EXCEPT !.kind = "boot", !.stage = "core", !.fail = "syncing"]
  OBVIOUS
<1>2. /\ UNCHANGED <<pairs, created, stored, timer, isPolling, crossed, tangled>>
      /\ phase = "down" /\ phase' = "starting" /\ mem' = Defaults /\ fresh' = FALSE /\ Does(Boot, f)
  BY <1>1 DEF Start, priceTables
<1>3. /\ f \in CallRows /\ f.kind = "boot" /\ f.stage = "core" /\ f.fail = "syncing"
      /\ f.snap = IdleCall.snap /\ f.then = IdleCall.then
  <2>1. "boot" \in CallKinds /\ "core" \in CallStages /\ "syncing" \in Fails
    BY CallNames DEF Fails
  <2> QED
    BY <1>1, <2>1, IdleCallFits DEF CallRows
<1>4. Boot \in Callers /\ Boot \notin Requests /\ Boot # Tick
  BY PollerConstants
<1>5. call' \in [Callers -> CallRows] /\ call'[Boot] = f /\ OthersAsWere(Boot)
  BY <1>2, <1>3, <1>4, OneCallMoves DEF PollerInv, PollerTyped
<1>6. Idle(Boot) /\ \A c \in Requests : Idle(c)
  BY <1>2 DEF PollerInv, CallsFit
<1>7. CallsFit'
  <2>1. BootFits(f)
    <3>1. "core" \in CallStages
      BY CallNames
    <3>2. f.snap.featured = Core.key /\ f.then = "idle"
      BY <1>3, IdleCallFits, MemoryIs
    <3> QED
      BY <1>3, <3>1, <3>2 DEF BootFits
  <2>2. CallFits(Boot, f)
    BY <1>4, <2>1 DEF CallFits
  <2>3. \A c \in Callers : CallFits(c, call'[c])
    BY <1>5, <2>2 DEF PollerInv, CallsFit, OthersAsWere
  <2>4. \A c \in Requests : call'[c].stage = "idle"
    BY <1>4, <1>5, <1>6, PollerConstants DEF OthersAsWere, Idle
  <2> QED
    BY <1>2, <2>3, <2>4 DEF CallsFit, CallFits, RequestFits, TickFits, BootFits, Idle
<1>8. PollInv'
  BY <1>2, <1>3, <1>4, <1>5, <1>6, PollApart DEF PollerInv, At, Idle
<1>9. ~Booted'
  BY <1>3, <1>5 DEF Booted, EarlyStages
<1>10. ConfigInv'
  BY <1>9 DEF ConfigInv
<1>11. Alone(Boot)
  BY <1>6, Unbound, PollerConstants DEF PollerInv, Alone
<1>12. ~tangled' => PairsFor(Boot)'
  <2> SUFFICES ASSUME ~tangled' PROVE PairsFor(Boot)'
    OBVIOUS
  <2>1. PairsFor(Boot)
    BY <1>2, <1>4, <1>11, PairsNow DEF PollerInv
  <2>2. /\ ~At(Boot, "upserting")' /\ ~At(Boot, "featured")' /\ ~At(Boot, "featuring")'
        /\ ~At(Boot, "checking")' /\ ~Owes(Boot)
    BY <1>3, <1>5, <1>6 DEF At, Owes, OwingStages, Idle
  <2>3. ~crossed' => FeaturedFor(Boot)'
    <3> SUFFICES ASSUME ~crossed' PROVE FeaturedFor(Boot)'
      OBVIOUS
    <3>1. stored'.exists => KeyStands(stored.set.featured)'
      BY <1>2, <2>1, <2>2 DEF PairsFor, FeaturedFor, KeyStands, Tracked
    <3> QED
      BY <1>4, <1>9, <2>2, <3>1 DEF FeaturedFor
  <2> QED
    BY <1>4, <2>2, <2>3 DEF PairsFor
<1>13. CoreFirst'
  <2>1. ~At(Boot, "settings")'
    BY <1>3, <1>5 DEF At
  <2> QED
    BY <1>2, <2>1 DEF PollerInv, PairsInv, CoreFirst, Existing, Tracked
<1>14. PairsInv'
  BY <1>4, <1>5, <1>11, <1>12, <1>13, PairsNext
<1>15. PollerTyped'
  BY <1>2, <1>5, MemoryIs DEF PollerInv, PollerTyped
<1> QED
  BY <1>7, <1>8, <1>10, <1>14, <1>15 DEF PollerInv

LEMMA CrashStep == ASSUME PollerInv, Crash PROVE PollerInv'
<1>1. /\ UNCHANGED <<pairs, created, stored, mem, fresh, crossed>>
      /\ phase' = "down" /\ timer' = 0 /\ isPolling' = FALSE
      /\ call' = [c \in Callers |-> IdleCall]
      /\ tangled' = (tangled \/ \E c \in PairCalls \cup {Boot} : HalfDone(c))
  BY DEF Crash, priceTables
<1>2. call' \in [Callers -> CallRows] /\ \A c \in Callers : call'[c] = IdleCall
  BY <1>1, IdleCallFits
<1>3. Boot \in Callers /\ Requests \subseteq Callers
  BY PollerConstants
<1>4. CallsFit'
  <2>1. \A c \in Callers : CallFits(c, call'[c]) /\ call'[c].stage = "idle"
    BY <1>2, IdleCallFits
  <2> QED
    BY <1>1, <1>3, <2>1 DEF CallsFit, CallFits, RequestFits, TickFits, BootFits, Idle
<1>5. \A c \in Callers : call'[c].stage = "idle" /\ call'[c].kind = "none"
  BY <1>2, IdleCallFits
<1>6. PollInv'
  BY <1>1, <1>5 DEF PollInv, At
<1>7. ~Booted'
  BY <1>1 DEF Booted
<1>8. ConfigInv'
  BY <1>7 DEF ConfigInv
<1>9. CoreFirst'
  <2>1. ~At(Boot, "settings")'
    BY <1>3, <1>5 DEF At
  <2> QED
    BY <1>1, <2>1 DEF PollerInv, PairsInv, CoreFirst, Existing, Tracked
<1>10. PairsInv'
  <2>1. PairCalls' = {}
    BY <1>3, <1>5 DEF PairCalls
  <2>2. OnePairCall'
    BY <2>1 DEF OnePairCall
  <2>3. WritesWhatItRead' /\ FindsWhatItFound'
    BY <1>3, <1>5 DEF WritesWhatItRead, FindsWhatItFound, At
  <2>4. FeaturedInv'
    <3> SUFFICES ASSUME ~tangled', ~crossed' PROVE FeaturedInv'
      BY DEF FeaturedInv
    <3>1. Nobody
      <4> SUFFICES ASSUME NEW c \in Callers, Owes(c) PROVE FALSE
        BY DEF Nobody
      <4>1. c = Boot \/ c \in PairCalls
        BY UpIsBooted, StageFacts DEF PollerInv, Owes
      <4>2. HalfDone(c)
        BY DEF Owes, HalfDone, OwingStages
      <4> QED
        BY <1>1, <4>1, <4>2
    <3>2. stored.exists => KeyStands(stored.set.featured)
      BY <1>1, <3>1 DEF PollerInv, PairsInv, FeaturedInv
    <3>3. stored'.exists => KeyStands(stored.set.featured)'
      BY <1>1, <3>2 DEF KeyStands, Tracked
    <3>4. \A c \in Callers :
             /\ ~At(c, "featured")' /\ ~At(c, "featuring")' /\ ~At(c, "following")' /\ ~At(c, "checking")'
             /\ call'[c].stage \notin {"writing", "following", "checking"}
      BY <1>5 DEF At
    <3> QED
      BY <1>3, <1>7, <3>3, <3>4 DEF FeaturedInv
  <2> QED
    BY <1>9, <2>2, <2>3, <2>4 DEF PairsInv
<1>11. PollerTyped'
  BY <1>1, <1>2 DEF PollerInv, PollerTyped
<1> QED
  BY <1>4, <1>6, <1>8, <1>10, <1>11 DEF PollerInv

-----------------------------------------------------------------------------
LEMMA InitPollerInv == PriceInit => PollerInv
<1> SUFFICES ASSUME PriceInit PROVE PollerInv
  OBVIOUS
<1>1. /\ phase = "down" /\ pairs = [i \in Ids |-> NoPair] /\ created = 0 /\ stored = NoSettings
      /\ mem = Defaults /\ timer = 0 /\ isPolling = FALSE /\ call = [c \in Callers |-> IdleCall]
      /\ fresh = FALSE /\ crossed = FALSE /\ tangled = FALSE
  BY DEF PriceInit
<1>2. call \in [Callers -> CallRows] /\ \A c \in Callers : call[c] = IdleCall
  BY <1>1, IdleCallFits
<1>3. Boot \in Callers /\ Requests \subseteq Callers
  BY PollerConstants
<1>4. \A c \in Callers : call[c].stage = "idle" /\ call[c].kind = "none" /\ CallFits(c, call[c])
  BY <1>2, IdleCallFits
<1>5. PollerTyped
  <2>1. pairs \in [Ids -> PairRows] /\ \A i \in Ids : pairs[i] = NoPair
    BY <1>1, PairRowsAre
  <2>2. 0 \in 0 .. MaxId
    BY PollerConstants
  <2> QED
    BY <1>1, <1>2, <2>1, <2>2, StoredIs, MemoryIs DEF PollerTyped
<1>6. CallsFit
  BY <1>1, <1>3, <1>4 DEF CallsFit, Idle
<1>7. PollInv
  BY <1>1, <1>4 DEF PollInv, At
<1>8. ~Booted /\ ConfigInv
  BY <1>1 DEF Booted, ConfigInv
<1>9. PairsInv
  <2>1. PairCalls = {}
    BY <1>3, <1>4 DEF PairCalls
  <2>2. Existing = {} /\ ~stored.exists
    BY <1>1, PairRowsAre, StoredIs DEF Existing
  <2>3. \A c \in Callers :
             /\ ~At(c, "featured") /\ ~At(c, "featuring") /\ ~At(c, "following") /\ ~At(c, "checking")
             /\ ~At(c, "writing") /\ ~At(c, "upserting") /\ ~At(c, "settings")
             /\ call[c].stage \notin {"writing", "following", "checking"}
    BY <1>4 DEF At
  <2> QED
    BY <1>3, <1>8, <2>1, <2>2, <2>3
       DEF PairsInv, OnePairCall, CoreFirst, WritesWhatItRead, FindsWhatItFound, FeaturedInv
<1> QED
  BY <1>5, <1>6, <1>7, <1>8, <1>9 DEF PollerInv

LEMMA PollerRests == PollerInv /\ UNCHANGED priceVars => PollerInv'
<1> SUFFICES ASSUME PollerInv, UNCHANGED priceVars PROVE PollerInv'
  OBVIOUS
<1>1. /\ UNCHANGED <<phase, pairs, created, stored, mem, timer, isPolling, call, fresh>>
      /\ UNCHANGED <<crossed, tangled>>
  BY DEF priceVars
<1>2. PollerTyped' /\ CallsFit' /\ PollInv'
  BY <1>1 DEF PollerInv, PollerTyped, CallsFit, CallFits, RequestFits, TickFits, BootFits, Idle, PollInv, At
<1>3. ConfigInv'
  BY <1>1 DEF PollerInv, ConfigInv, Booted, At, Retimes, SameSettings
<1>4. OnePairCall' /\ CoreFirst' /\ WritesWhatItRead' /\ FindsWhatItFound'
  BY <1>1 DEF PollerInv, PairsInv, OnePairCall, PairCalls, CoreFirst, WritesWhatItRead,
     FindsWhatItFound, At, Existing, Tracked
<1>5. FeaturedInv'
  BY <1>1 DEF PollerInv, PairsInv, FeaturedInv, Nobody, Owes, KeyStands, Tracked, Booted, At
<1> QED
  BY <1>2, <1>3, <1>4, <1>5 DEF PollerInv, PairsInv

LEMMA PollerMoves == PollerInv /\ [PriceNext]_priceVars => PollerInv'
<1> SUFFICES ASSUME PollerInv, [PriceNext]_priceVars PROVE PollerInv'
  OBVIOUS
<1>1. CASE UNCHANGED priceVars
  BY <1>1, PollerRests
<1>2. CASE Start \/ Crash \/ TimerFires
  BY <1>2, StartStep, CrashStep, TimerFiresStep
<1>3. CASE Boots
  BY <1>3, MarkCoreStep, InsertCoreStep, LoadSettingsStep, ReconcileStep, FirstPollStep,
     FirstTimerStep, FirstSyncStep, ReadyStep DEF Boots
<1>4. ASSUME NEW c \in Requests, Requested(c) PROVE PollerInv'
  BY <1>4, SyncNowStep, ConfigBeginsStep, FeatureBeginsStep, CreatePairStep, UpdateBeginsStep,
     DeleteBeginsStep, SyncPairStep, ConfigSavesStep, ConfigAppliesStep, StartPollingStep,
     UpdateWritesStep, DeleteWritesStep, FollowUpStep DEF Requested
<1>5. ASSUME NEW c \in Callers, Shared(c) PROVE PollerInv'
  BY <1>5, PollEndsStep, FeatureSavesStep, FeatureAppliesStep, CheckFeaturedStep, FallBackStep,
     FindPairStep, UpsertPairStep, ReloadPairStep, QueryFailsStep DEF Shared
<1> QED
  BY <1>1, <1>2, <1>3, <1>4, <1>5 DEF PriceNext

LEMMA PollerInvariance == PriceInit /\ [][PriceNext]_priceVars => []PollerInv
  BY InitPollerInv, PollerMoves, PTL

\* What it is for.
LEMMA PollerKeepsTypes == PollerInv => PriceTypeOK
<1> SUFFICES ASSUME PollerInv PROVE PriceTypeOK
  OBVIOUS
<1>1. \A i \in Ids : pairs[i] \in Pairs \cup {NoPair}
  BY DEF PollerInv, PollerTyped, PairRows
<1>2. stored = NoSettings \/ stored.set \in Memory
  BY DEF PollerInv, PollerTyped, StoredRows
<1>3. \A c \in Callers : call[c].meta \in Metas /\ call[c].then \in Thens
  BY CallFields DEF PollerInv, PollerTyped
<1> QED
  BY <1>1, <1>2, <1>3 DEF PollerInv, PollerTyped, PriceTypeOK, Thens

LEMMA PollerKeepsOnePoll == PollerInv => OnePoll
<1> SUFFICES ASSUME PollerInv PROVE OnePoll
  OBVIOUS
<1>1. /\ \A c, d \in Polling : c = d
      /\ isPolling <=> Polling # {}
  BY DEF PollerInv, PollInv, Polling
<1>2. Cardinality(Polling) <= 1
  <2>1. CASE Polling = {}
    <3>1. Cardinality(Polling) = 0
      BY <2>1, FS_EmptySet
    <3> QED
      BY <3>1
  <2>2. CASE Polling # {}
    <3>1. PICK c \in Polling : TRUE
      BY <2>2
    <3>2. Polling = {c}
      BY <1>1, <3>1
    <3>3. Cardinality({c}) = 1
      BY FS_Singleton
    <3> QED
      BY <3>2, <3>3
  <2> QED
    BY <2>1, <2>2
<1> QED
  BY <1>1, <1>2 DEF OnePoll

LEMMA QuietIs ==
  ASSUME PollerInv, Quiet
  PROVE  /\ Booted /\ Nobody /\ \A c \in Callers : ~At(c, "featured")
         /\ \A c \in Requests : ~At(c, "applying") /\ ~Retimes(c)
<1>1. phase = "up" /\ call[Boot].stage = "idle" /\ \A c \in Requests : call[c].stage = "idle"
  BY DEF Quiet, Idle
<1>2. Booted
  BY <1>1, UpIsBooted DEF PollerInv
<1>3. call[Tick].stage \in {"idle", "polling"}
  BY PollerConstants DEF PollerInv, CallsFit, CallFits, TickFits
<1>4. \A c \in Callers : call[c].stage \in {"idle", "polling"}
  BY <1>1, <1>3, PollerConstants
<1>5. \A c \in Callers : ~Owes(c) /\ ~At(c, "featured")
  BY <1>4 DEF Owes, OwingStages, At
<1>6. \A c \in Requests : ~At(c, "applying") /\ ~Retimes(c)
  BY <1>1 DEF At, Retimes
<1> QED
  BY <1>2, <1>5, <1>6 DEF Nobody

LEMMA PollerKeepsSettings == PollerInv => RunsAsStored
<1> SUFFICES ASSUME PollerInv, Quiet, stored.exists
             PROVE  /\ ~crossed => /\ mem.interval = stored.set.interval /\ mem.ingest = stored.set.ingest
                                   /\ fresh => timer = IF mem.ingest THEN mem.interval ELSE 0
                    /\ ~crossed /\ ~tangled => \/ mem.featured = stored.set.featured
                                               \/ stored.set.featured = NoKey
  BY DEF RunsAsStored
<1>1. /\ Booted /\ \A c \in Callers : ~At(c, "featured")
      /\ \A c \in Requests : ~At(c, "applying") /\ ~Retimes(c)
  BY QuietIs
<1>2. ~crossed => /\ SameSettings(mem, stored.set)
                  /\ fresh => timer = IF mem.ingest THEN mem.interval ELSE 0
  BY <1>1 DEF PollerInv, ConfigInv
<1>3. ~crossed /\ ~tangled => stored.set.featured \in {mem.featured, NoKey}
  BY <1>1 DEF PollerInv, PairsInv, FeaturedInv
<1> QED
  BY <1>2, <1>3 DEF SameSettings

LEMMA PollerKeepsFeatured == PollerInv => FeaturedIsTracked
<1> SUFFICES ASSUME PollerInv, Quiet, ~tangled, ~crossed, mem.featured # NoKey, Active # {}
             PROVE  AdminConfig.pair = mem.featured
  BY DEF FeaturedIsTracked
<1>1. Tracked(mem.featured)
  BY QuietIs DEF PollerInv, PairsInv, FeaturedInv, KeyStands
<1>2. PICK named : named = ByKey(mem.featured) \cap Active
  OBVIOUS
<1>3. named # {} /\ named \subseteq Ids /\ \A i \in named : pairs[i].meta.key = mem.featured
  BY <1>1, <1>2 DEF Tracked, ByKey, Active, Existing
<1>4. Ids \subseteq Nat
  BY PollerConstants DEF Ids
<1>5. PICK i \in named : i = Min(named)
  BY <1>3, <1>4, SmallestOf
<1>6. ResolvePair = i
  BY <1>2, <1>3, <1>5 DEF ResolvePair
<1>7. pairs[ResolvePair].meta.key = mem.featured
  BY <1>3, <1>6
<1> QED
  BY <1>7 DEF AdminConfig

\* What a step does to a core pair.
CoreStands ==
    \A i \in Ids : pairs[i].exists /\ pairs[i].core /\ ~tangled' =>
          /\ pairs[i]'.exists
          /\ pairs[i]'.meta # pairs[i].meta => \E c \in Callers : At(c, "upserting")

LEMMA CoreIsLeft ==
  ASSUME \A i \in Ids : pairs[i].exists /\ pairs[i].core /\ ~tangled' =>
            /\ pairs'[i].exists
            /\ pairs'[i].meta = pairs[i].meta \/ \E c \in Callers : At(c, "upserting")
  PROVE  CoreStands
  BY DEF CoreStands

LEMMA InsertedLeavesCore ==
  ASSUME PollerInv, NEW meta \in Metas, NEW active \in BOOLEAN, NEW core \in BOOLEAN,
         Inserted(meta, active, core)
  PROVE  CoreStands
<1>1. \A i \in Ids : pairs[i].exists => pairs'[i] = pairs[i]
  BY InsertedIs DEF PollerInv
<1> QED
  BY <1>1, CoreIsLeft

LEMMA WritesLeaveCore ==
  ASSUME NEW c \in Requests, PollerInv, UpdateWrites(c) \/ DeleteWrites(c)
  PROVE  CoreStands
<1>1. call[c].stage = "writing" /\ (tangled => tangled')
  BY DEF UpdateWrites, DeleteWrites, At, Overlaps
<1>2. c \in Callers
  BY PollerConstants
<1>3. /\ call[c] \in CallRows /\ RequestFits(call[c]) /\ PairsInv
      /\ pairs \in [Ids -> PairRows]
  BY <1>2 DEF PollerInv, PollerTyped, CallsFit, CallFits
<1>4. PICK i \in Ids : i = call[c].id
  BY <1>1, <1>3 DEF RequestFits
<1>5. ~tangled' => pairs[i] = call[c].row
  BY <1>1, <1>3, <1>4 DEF PairsInv, WritesWhatItRead, At
<1>6. CASE UpdateWrites(c)
  <2>1. call[c].row.core => call[c].meta = call[c].row.meta
    BY <1>1, <1>3, <1>6 DEF UpdateWrites, RequestFits, EditAllowed
  <2>2. \/ pairs' = pairs
        \/ pairs' = [pairs EXCEPT ![i] = [pairs[i] EXCEPT !.meta = call[c].meta, !.active = call[c].active]]
    BY <1>4, <1>6 DEF UpdateWrites
  <2>3. CASE pairs' = pairs
    BY <2>3, CoreIsLeft
  <2>4. CASE pairs' = [pairs EXCEPT ![i] = [pairs[i] EXCEPT !.meta = call[c].meta, !.active = call[c].active]]
    <3> SUFFICES ASSUME NEW j \in Ids, pairs[j].exists, pairs[j].core, ~tangled'
                 PROVE  pairs'[j].exists /\ pairs'[j].meta = pairs[j].meta
      BY CoreIsLeft
    <3>1. CASE j # i
      BY <1>3, <2>4, <3>1
    <3>2. CASE j = i
      <4>1. pairs[i] \in Pairs
        BY <1>3, <3>2, PairRowsAre
      <4>2. PICK p : p = [pairs[i] EXCEPT !.meta = call[c].meta, !.active = call[c].active]
        OBVIOUS
      <4>3. p.exists = pairs[i].exists /\ p.meta = call[c].meta
        BY <4>1, <4>2 DEF Pairs
      <4>4. pairs'[i] = p
        BY <1>3, <2>4, <4>2
      <4>5. call[c].meta = pairs[i].meta
        BY <1>5, <2>1, <3>2
      <4> QED
        BY <3>2, <4>3, <4>4, <4>5
    <3> QED
      BY <3>1, <3>2
  <2> QED
    BY <2>2, <2>3, <2>4
<1>7. CASE DeleteWrites(c)
  <2>1. ~call[c].row.core /\ pairs' = [pairs EXCEPT ![i] = NoPair]
    BY <1>1, <1>3, <1>4, <1>7 DEF DeleteWrites, RequestFits
  <2>2. \A j \in Ids : pairs[j].core /\ ~tangled' => j # i
    BY <1>5, <2>1
  <2>3. \A j \in Ids \ {i} : pairs'[j] = pairs[j]
    BY <1>3, <2>1
  <2> QED
    BY <2>2, <2>3, CoreIsLeft
<1> QED
  BY <1>6, <1>7

LEMMA UpsertLeavesCore ==
  ASSUME NEW c \in Callers, PollerInv, UpsertPair(c) PROVE CoreStands
<1>1. At(c, "upserting")
  BY DEF UpsertPair
<1>2. PICK id, meta : id = call[c].id /\ meta = call[c].meta
  OBVIOUS
<1>3. \/ /\ id \in Existing
         /\ pairs' = [pairs EXCEPT ![id] = [@ EXCEPT !.meta = meta, !.active = TRUE, !.core = TRUE]]
      \/ pairs' = pairs
      \/ Inserted(meta, TRUE, TRUE)
  BY <1>2 DEF UpsertPair
<1>4. meta \in Metas /\ pairs \in [Ids -> PairRows]
  BY <1>2, CallFields DEF PollerInv, PollerTyped
<1>5. CASE /\ id \in Existing
           /\ pairs' = [pairs EXCEPT ![id] = [@ EXCEPT !.meta = meta, !.active = TRUE, !.core = TRUE]]
  <2>1. id \in Ids /\ pairs[id] \in Pairs
    BY <1>4, <1>5, PairRowsAre DEF Existing
  <2>2. PICK p : p = [pairs[id] EXCEPT !.meta = meta, !.active = TRUE, !.core = TRUE]
    OBVIOUS
  <2>3. p.exists = pairs[id].exists
    BY <2>1, <2>2 DEF Pairs
  <2>4. pairs'[id] = p /\ \A j \in Ids \ {id} : pairs'[j] = pairs[j]
    BY <1>4, <1>5, <2>1, <2>2
  <2> QED
    BY <1>1, <2>3, <2>4, CoreIsLeft
<1>6. CASE pairs' = pairs
  BY <1>6, CoreIsLeft
<1>7. CASE Inserted(meta, TRUE, TRUE)
  <2>1. TRUE \in BOOLEAN
    OBVIOUS
  <2> QED
    BY <1>4, <1>7, <2>1, InsertedLeavesCore
<1> QED
  BY <1>3, <1>5, <1>6, <1>7

LEMMA BootLeavesCore == ASSUME PollerInv, MarkCore \/ InsertCore \/ Reconcile PROVE CoreStands
<1>1. pairs \in [Ids -> PairRows]
  BY DEF PollerInv, PollerTyped
<1>2. CASE InsertCore
  <2>1. TRUE \in BOOLEAN /\ Core \in Metas
    BY PollerConstants
  <2>2. pairs' = pairs \/ Inserted(Core, TRUE, TRUE)
    BY <1>2 DEF InsertCore
  <2> QED
    BY <2>1, <2>2, CoreIsLeft, InsertedLeavesCore
<1>3. ASSUME NEW I \in SUBSET Ids,
             \A i \in Ids : \/ i \notin I /\ pairs'[i] = pairs[i]
                            \/ i \in I /\ pairs'[i] = [pairs[i] EXCEPT !.core = TRUE]
                            \/ i \in I /\ pairs'[i] = [pairs[i] EXCEPT !.active = FALSE, !.core = FALSE]
      PROVE  CoreStands
  <2> SUFFICES ASSUME NEW i \in Ids, pairs[i].exists
               PROVE  pairs'[i].exists /\ pairs'[i].meta = pairs[i].meta
    BY CoreIsLeft
  <2>1. pairs[i] \in Pairs
    BY <1>1, PairRowsAre
  <2>2. CASE pairs'[i] = pairs[i]
    BY <2>2
  <2>3. CASE pairs'[i] = [pairs[i] EXCEPT !.core = TRUE]
    BY <2>1, <2>3 DEF Pairs
  <2>4. CASE pairs'[i] = [pairs[i] EXCEPT !.active = FALSE, !.core = FALSE]
    BY <2>1, <2>4 DEF Pairs
  <2> QED
    BY <1>3, <2>2, <2>3, <2>4
<1>4. CASE MarkCore
  <2>1. PICK I : I = ByKey(Core.key) \cup ByPool(Core.pool)
    OBVIOUS
  <2>2. I \in SUBSET Ids
    BY <2>1 DEF ByKey, ByPool, Existing
  <2>3. pairs' = [i \in Ids |-> IF i \in I THEN [pairs[i] EXCEPT !.core = TRUE] ELSE pairs[i]]
    BY <1>4, <2>1 DEF MarkCore
  <2> QED
    BY <1>3, <2>2, <2>3
<1>5. CASE Reconcile
  <2>1. PICK I \in SUBSET Active :
          \/ pairs' = pairs
          \/ pairs' = [i \in Ids |-> IF i \in I
                  THEN [pairs[i] EXCEPT !.active = FALSE, !.core = FALSE] ELSE pairs[i]]
    BY <1>5 DEF Reconcile
  <2>2. I \in SUBSET Ids
    BY <2>1 DEF Active, Existing
  <2>3. CASE pairs' = pairs
    BY <2>3, CoreIsLeft
  <2>4. CASE pairs' = [i \in Ids |-> IF i \in I
                  THEN [pairs[i] EXCEPT !.active = FALSE, !.core = FALSE] ELSE pairs[i]]
    BY <1>3, <2>2, <2>4
  <2> QED
    BY <2>1, <2>3, <2>4
<1> QED
  BY <1>2, <1>4, <1>5

LEMMA OthersLeavePairs ==
  ASSUME PollerInv, [PriceNext]_priceVars
  PROVE  \/ pairs' = pairs
         \/ MarkCore \/ InsertCore \/ Reconcile
         \/ \E c \in Requests : CreatePair(c) \/ UpdateWrites(c) \/ DeleteWrites(c)
         \/ \E c \in Callers : UpsertPair(c)
<1>1. UNCHANGED priceVars \/ Start \/ Crash \/ TimerFires => pairs' = pairs
  BY DEF priceVars, Start, Crash, TimerFires, priceTables
<1>2. Boots => \/ MarkCore \/ InsertCore \/ Reconcile \/ pairs' = pairs
  BY DEF Boots, LoadSettings, FirstPoll, FirstTimer, FirstSync, Ready, priceTables
<1>3. ASSUME NEW c \in Requests, Requested(c)
      PROVE  CreatePair(c) \/ UpdateWrites(c) \/ DeleteWrites(c) \/ pairs' = pairs
  BY <1>3 DEF Requested, SyncNow, ConfigBegins, FeatureBegins, UpdateBegins, DeleteBegins, SyncPair,
     ConfigSaves, ConfigApplies, StartPolling, FollowUp, priceTables, SamePrices, SamePairs
<1>4. ASSUME NEW c \in Callers, Shared(c) PROVE UpsertPair(c) \/ pairs' = pairs
  BY <1>4 DEF Shared, PollEnds, FeatureSaves, FeatureApplies, CheckFeatured, FallBack, FindPair,
     ReloadPair, QueryFails, priceTables
<1> QED
  BY <1>1, <1>2, <1>3, <1>4 DEF PriceNext

LEMMA CorePairStandsStep == PollerInv /\ [PriceNext]_priceVars => CoreStands
<1> SUFFICES ASSUME PollerInv, [PriceNext]_priceVars PROVE CoreStands
  OBVIOUS
<1>1. CASE pairs' = pairs
  BY <1>1, CoreIsLeft
<1>2. CASE MarkCore \/ InsertCore \/ Reconcile
  BY <1>2, BootLeavesCore
<1>3. ASSUME NEW c \in Requests, CreatePair(c) PROVE CoreStands
  <2>1. PICK meta \in Metas, active \in BOOLEAN : Inserted(meta, active, FALSE)
    BY <1>3 DEF CreatePair
  <2>2. FALSE \in BOOLEAN
    OBVIOUS
  <2> QED
    BY <2>1, <2>2, InsertedLeavesCore
<1>4. ASSUME NEW c \in Requests, UpdateWrites(c) \/ DeleteWrites(c) PROVE CoreStands
  BY <1>4, WritesLeaveCore
<1>5. ASSUME NEW c \in Callers, UpsertPair(c) PROVE CoreStands
  BY <1>5, UpsertLeavesCore
<1> QED
  BY <1>1, <1>2, <1>3, <1>4, <1>5, OthersLeavePairs

LEMMA CorePairAlwaysStands == PriceInit /\ [][PriceNext]_priceVars => CorePairStands
<1>1. PollerInv /\ [PriceNext]_priceVars => [CoreStands]_priceVars
  BY CorePairStandsStep
<1> QED
  BY <1>1, PollerInvariance, PTL DEF CorePairStands, CoreStands

-----------------------------------------------------------------------------
(***************************************************************************)
(* The run.  A step of it is a step of one part, the others stutter.       *)
(***************************************************************************)
PricesVars ==
    <<part, priceVars, settingsVars, barVars, livePricesVars, payoutVars, targetVars>>

LEMMA PricesParts ==
  PricesSpec =>
    /\ PriceInit /\ [][PriceNext]_priceVars
    /\ SettingsInit /\ [][SettingsNext]_settingsVars
    /\ BarsInit /\ [][BarsNext]_barVars
    /\ LivePricesInit /\ [][LivePricesNext]_livePricesVars
    /\ PayoutInit /\ [][PayoutNext]_payoutVars
    /\ TargetInit /\ [][TargetNext]_targetVars
<1>1. PricesInit => /\ PriceInit /\ SettingsInit /\ BarsInit /\ LivePricesInit /\ PayoutInit
                    /\ TargetInit
  BY DEF PricesInit
<1>2. [PricesNext]_PricesVars =>
        /\ [PriceNext]_priceVars /\ [SettingsNext]_settingsVars /\ [BarsNext]_barVars
        /\ [LivePricesNext]_livePricesVars /\ [PayoutNext]_payoutVars /\ [TargetNext]_targetVars
  BY DEF PricesNext, PricesVars, HistoryPart, SettingsPart, BarsPart, LivePart, PayoutPart,
         TargetPart
<1>3. PricesSpec => PricesInit /\ [][PricesNext]_PricesVars
  BY PTL DEF PricesSpec, PricesVars
<1> QED
  BY <1>1, <1>2, <1>3, PTL

\* Every variable of every part keeps its shape, for any number of requests, administrators,
\* processes, mints, pairs and polls.
THEOREM PricesTyped == PricesSpec => []PricesTypeOK
<1>1. PollerInv /\ SettingsInv /\ BarsInv /\ LiveInv /\ PayoutInv /\ TargetInv => PricesTypeOK
  BY PollerKeepsTypes, SettingsInvKeeps, BarsKeepTypes, LiveInvKeeps, PayoutInvKeeps,
     TargetInvKeeps DEF PricesTypeOK
<1> QED
  BY <1>1, PricesParts, PollerInvariance, SettingsInvariance, BarsInvariance, LiveInvariance,
     PayoutInvariance, TargetInvariance, PTL

\* A bar that is read tells exactly the polls of its time, stored or put together from stored
\* ones, and so does the ticker, for any intervals of which the long one is a multiple of the
\* longest stored (upsertBar of ohlc.service.ts, getAggregatedBars and getTicker).
THEOREM BarsAreTrue == PricesSpec => []BarsTellThePolls
<1>1. BarsInv => BarsTellThePolls
  BY BarsKeepTold
<1> QED
  BY <1>1, PricesParts, BarsInvariance, PTL

\* One poll at a time, one fetch for a mint, as many fetches for a list as it has workers, and
\* no kept price replaced by an older one, for any number of readers (pollOnce of
\* ohlc-runtime.service.ts, getLivePrice of market.service.ts).
THEOREM ReadersWait == PricesSpec => OneReaderAtATime
<1>1. PollerInv /\ LiveInv => OnePoll /\ OneFetchPerMint /\ ListsWaitForFetches
  BY PollerKeepsOnePoll, LiveInvKeeps
<1> QED
  BY <1>1, PricesParts, PollerInvariance, LiveInvariance, PricesForward, PTL DEF OneReaderAtATime

\* Amounts rounded one by one miss each other by a micro at most, and what the program accepts
\* pays the right share, for any principal, rate and fee (staking-transaction.service.ts, the
\* stake-pool).
THEOREM AmountsStand == PricesSpec => AmountsAreRounded
<1>1. PayoutInv => RoundingIsTheOnlyError
  BY PayoutInvKeeps
<1> QED
  BY <1>1, PricesParts, PayoutInvariance, PaysRightAlways, PTL DEF AmountsAreRounded

\* What administrators set holds, for any number of them and of requests: the poller runs on the
\* stored settings and features a tracked pair of the pool of the network, the core pair
\* stands, the proxy goes back to the address before, and calls go where they are told
\* (ohlc-admin.service.ts, system-ra.service.ts, system-platform-settings.service.ts,
\* backend-target.ts).
THEOREM SettingsStand == PricesSpec => SettingsHold
<1>1. PollerInv /\ SettingsInv /\ TargetInv =>
        /\ RunsAsStored /\ FeaturedIsTracked /\ PoolFollowsNetwork /\ PreviousIsTheLast
        /\ CallsGoWherePublished
  BY PollerKeepsSettings, PollerKeepsFeatured, SettingsInvKeeps, TargetInvKeeps
<1> QED
  BY <1>1, PricesParts, PollerInvariance, SettingsInvariance, TargetInvariance,
     CorePairAlwaysStands, PTL DEF SettingsHold
=============================================================================
