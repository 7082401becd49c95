------------------------ MODULE AdministrationProofs ------------------------
(***************************************************************************)
(* What the administration (MCAdministration) guarantees for every choice  *)
(* of its constants, part by part.                                         *)
(*                                                                         *)
(* The programs: what StakePool guarantees alone, and what the two         *)
(* programs guarantee together.  The swap-node's instructions touch        *)
(* nothing of the stake-pool's but the vault balances, which they only     *)
(* increase, so the stake-pool's invariant survives them; its own accounts *)
(* are out of the stake-pool's reach.                                      *)
(*                                                                         *)
(* The administrators' tab, their accounts and their panels have an        *)
(* inductive invariant each.  At the end the parts run as one: each step   *)
(* of the whole is a step of one part and leaves the others as they are.   *)
(*                                                                         *)
(* The last section is about the API that prepares what administrators     *)
(* sign (AdminStaking): why its mirror and its configurations say what the *)
(* chain executed, for any number of administrators, requests, calls and   *)
(* positions and in every environment of the API.                          *)
(***************************************************************************)
EXTENDS MCAdministration, AdminStaking, Sums, TLAPS

USE DEF PositionIds

LEMMA ArgumentsAreNat ==
    /\ InputAmounts \subseteq Nat /\ UsdAmounts \subseteq Nat
    /\ RaAmounts \subseteq Nat /\ UnlockArgs \subseteq Nat
  BY StakePoolAssumption DEF UnlockArgs

LEMMA NoRecordsTyped ==
    /\ NoConfig \in ConfigRecords
    /\ NoTokenConfig \in TokenConfigRecords
    /\ NoPosition \in PositionRecords
<1>1. /\ (CHOOSE s \in Signers : TRUE) \in Signers
      /\ (CHOOSE v \in Vaults : TRUE) \in Vaults
      /\ (CHOOSE m \in RaMints : TRUE) \in RaMints
  BY StakePoolAssumption
<1>2. QED
  BY <1>1 DEF NoConfig, NoTokenConfig, NoPosition, ConfigRecords,
              TokenConfigRecords, PositionRecords, Statuses

LEMMA InitTyped == Init => TypeOK
  BY NoRecordsTyped, StakePoolAssumption DEF Init, TypeOK

LEMMA TypeStep == TypeOK /\ [Next]_vars => TypeOK'
<1> SUFFICES ASSUME TypeOK, [Next]_vars PROVE TypeOK'
  OBVIOUS
<1>1. CASE UNCHANGED vars
  BY <1>1 DEF vars, TypeOK
<1>2. ASSUME NEW op \in Signers, NEW ms \in Signers, NEW v \in Vaults,
             NEW m \in RaMints, InitializeGlobalConfig(op, ms, v, m)
      PROVE  TypeOK'
  BY <1>2 DEF InitializeGlobalConfig, TypeOK, ConfigRecords, balanceVars,
              ghostVars
<1>3. ASSUME NEW s \in Signers, NEW v \in Vaults, NEW m \in RaMints,
             UpdateGlobalConfig(s, v, m)
      PROVE  TypeOK'
  BY <1>3 DEF UpdateGlobalConfig, TypeOK, ConfigRecords, balanceVars,
              ghostVars
<1>4. ASSUME NEW s \in Signers, NEW mint \in Mints, NEW on \in BOOLEAN,
             NEW lo \in UsdAmounts, NEW hi \in UsdAmounts,
             NEW apr \in AprTables,
             UpsertTokenStakeConfig(s, mint, on, lo, hi, apr)
      PROVE  TypeOK'
  <2>1. lo \in Nat /\ hi \in Nat /\ apr \in [SupportedPeriods -> Nat]
    BY StakePoolAssumption, ArgumentsAreNat
  <2>2. QED
    BY <1>4, <2>1 DEF UpsertTokenStakeConfig, TypeOK, TokenConfigRecords,
                      balanceVars, ghostVars
<1>5. ASSUME NEW o \in Owners, NEW s \in Seeds, NEW mint \in Mints,
             NEW a \in CreateArgs, CreateStakePosition(o, s, mint, a)
      PROVE  TypeOK'
  <2>1. /\ a.input \in Nat /\ a.usd \in Nat /\ a.payout \in Nat
        /\ a.unlockAt \in Nat /\ a.period \in SupportedPeriods
    BY <1>5, ArgumentsAreNat DEF CreateArgs, CreateStakePosition
  <2>2. a.apr \in Nat
    BY <1>5, <2>1 DEF CreateStakePosition, AprBpsForPeriod, TypeOK,
                      TokenConfigRecords
  <2>3. userInput' \in [Owners -> [Mints -> Nat]]
    BY <1>5, <2>1 DEF CreateStakePosition, TypeOK
  <2>4. deposited' \in [Mints -> Nat]
    BY <1>5, <2>1 DEF CreateStakePosition, TypeOK
  <2>5. position' \in [PositionIds -> PositionRecords]
    BY <1>5, <2>1, <2>2
    DEF CreateStakePosition, TypeOK, PositionRecords, Statuses
  <2>6. QED
    BY <1>5, <2>3, <2>4, <2>5
    DEF CreateStakePosition, TypeOK, adminVars, ghostVars
<1>6. ASSUME NEW o \in Owners, NEW s \in Seeds, NEW a \in ClaimArgs,
             ClaimStakePosition(o, s, a)
      PROVE  TypeOK'
  <2>1. a.net \in Nat /\ a.fee \in Nat
    BY ArgumentsAreNat DEF ClaimArgs
  <2>2. config.vault \in Vaults /\ config.raMint \in RaMints
    BY DEF TypeOK, ConfigRecords
  <2>3. vaultBalance' \in [Vaults -> Nat]
    BY <1>6, <2>1, <2>2 DEF ClaimStakePosition, VaultCovers, TypeOK
  <2>4. userRa' \in [Owners -> [RaMints -> Nat]]
    BY <1>6, <2>1, <2>2 DEF ClaimStakePosition, TypeOK
  <2>5. position' \in [PositionIds -> PositionRecords]
    <3>1. position[<<o, s>>] \in PositionRecords /\ now \in Nat
      BY DEF TypeOK
    <3>2. [position[<<o, s>>] EXCEPT !.status = "Claimed", !.claimedAt = now]
              \in PositionRecords
      BY <3>1 DEF PositionRecords, Statuses
    <3>3. QED
      BY <1>6, <3>2 DEF ClaimStakePosition, TypeOK
  <2>6. paid' \in [PositionIds -> Nat] /\ withheld' \in [PositionIds -> Nat]
    BY <1>6, <2>1 DEF ClaimStakePosition, TypeOK
  <2>7. QED
    BY <1>6, <2>3, <2>4, <2>5, <2>6
    DEF ClaimStakePosition, TypeOK, adminVars
<1>7. CASE Tick
  BY <1>7 DEF Tick, TypeOK, adminVars, balanceVars, ghostVars
<1>8. QED
  BY <1>1, <1>2, <1>3, <1>4, <1>5, <1>6, <1>7 DEF Next, Admin, Stakers

\* The accounts have their types in every state.
THEOREM TypeCorrect == Spec => []TypeOK
  BY InitTyped, TypeStep, PTL DEF Spec

-----------------------------------------------------------------------------
(* The inductive invariant: that a claimed position cost its payout needs  *)
(* that an active one has cost nothing so far; that nothing is paid early  *)
(* needs the same of a position that is only being made.                   *)

IInv == TypeOK /\ PaidExactlyOnce /\ NeverPaidEarly

LEMMA InitInv == Init => IInv
<1> SUFFICES ASSUME Init PROVE PaidExactlyOnce /\ NeverPaidEarly
  BY InitTyped DEF IInv
<1>1. \A p \in PositionIds :
        /\ position[p].status = "Absent"
        /\ paid[p] = 0 /\ withheld[p] = 0
  BY DEF Init, NoPosition
<1>2. QED
  BY <1>1 DEF PaidExactlyOnce, NeverPaidEarly

\* What the two instructions of a staker do to the one position they touch.
Opened(p, a) ==
    /\ position[p].status = "Absent"
    /\ a.unlockAt > now
    /\ position'[p].status = "Active"
    /\ position'[p].payout = a.payout
    /\ position'[p].unlockAt = a.unlockAt
    /\ position'[p].startedAt = now
    /\ \A q \in PositionIds \ {p} : position'[q] = position[q]
    /\ UNCHANGED <<paid, withheld, now>>

Settled(p, a) ==
    /\ position[p].status = "Active"
    /\ now >= position[p].unlockAt
    /\ a.fee + a.net = position[p].payout
    /\ position'[p].status = "Claimed"
    /\ position'[p].claimedAt = now
    /\ position'[p].payout = position[p].payout
    /\ position'[p].unlockAt = position[p].unlockAt
    /\ position'[p].startedAt = position[p].startedAt
    /\ \A q \in PositionIds \ {p} : position'[q] = position[q]
    /\ paid' = [paid EXCEPT ![p] = @ + a.net]
    /\ withheld' = [withheld EXCEPT ![p] = @ + a.fee]
    /\ now' = now

LEMMA CreateEffect ==
    ASSUME TypeOK, NEW o \in Owners, NEW s \in Seeds, NEW mint \in Mints,
           NEW a \in CreateArgs, CreateStakePosition(o, s, mint, a)
    PROVE  Opened(<<o, s>>, a)
  BY DEF TypeOK, CreateStakePosition, Vacant, ghostVars, Opened

LEMMA ClaimEffect ==
    ASSUME TypeOK, NEW o \in Owners, NEW s \in Seeds, NEW a \in ClaimArgs,
           ClaimStakePosition(o, s, a)
    PROVE  Settled(<<o, s>>, a)
<1>1. position[<<o, s>>] \in PositionRecords
  BY DEF TypeOK
<1>2. QED
  BY <1>1 DEF TypeOK, ClaimStakePosition, NotFinalized, Matured,
              SettlesInFull, Settled, PositionRecords

\* Every other step leaves positions and payments alone and lets time pass.
LEMMA OtherSteps ==
    ASSUME TypeOK, Admin \/ Tick \/ UNCHANGED vars
    PROVE  UNCHANGED <<position, paid, withheld>> /\ now' >= now /\ now' \in Nat
<1> now \in Nat
  BY DEF TypeOK
<1>1. CASE Admin
  <2>1. \A op, ms \in Signers, v \in Vaults, m \in RaMints :
           InitializeGlobalConfig(op, ms, v, m)
               => UNCHANGED <<position, paid, withheld, now>>
    BY DEF InitializeGlobalConfig, ghostVars
  <2>2. \A s \in Signers, v \in Vaults, m \in RaMints :
           UpdateGlobalConfig(s, v, m)
               => UNCHANGED <<position, paid, withheld, now>>
    BY DEF UpdateGlobalConfig, ghostVars
  <2>3. ASSUME NEW s \in Signers, NEW mint \in Mints, NEW on \in BOOLEAN,
               NEW lo \in UsdAmounts, NEW hi \in UsdAmounts,
               NEW apr \in AprTables,
               UpsertTokenStakeConfig(s, mint, on, lo, hi, apr)
        PROVE  UNCHANGED <<position, paid, withheld, now>>
    BY <2>3 DEF UpsertTokenStakeConfig, ghostVars
  <2>4. QED
    BY <1>1, <2>1, <2>2, <2>3 DEF Admin
<1>2. CASE Tick
  BY <1>2 DEF Tick, ghostVars
<1>3. CASE UNCHANGED vars
  BY <1>3 DEF vars
<1>4. QED
  BY <1>1, <1>2, <1>3

LEMMA InvStep == IInv /\ [Next]_vars => IInv'
<1> SUFFICES ASSUME TypeOK, PaidExactlyOnce, NeverPaidEarly, [Next]_vars
             PROVE  PaidExactlyOnce' /\ NeverPaidEarly'
  BY TypeStep DEF IInv
<1>1. /\ position \in [PositionIds -> PositionRecords] /\ now \in Nat
      /\ paid \in [PositionIds -> Nat] /\ withheld \in [PositionIds -> Nat]
  BY DEF TypeOK
<1>2. CASE Admin \/ Tick \/ UNCHANGED vars
  <2>1. UNCHANGED <<position, paid, withheld>> /\ now' >= now /\ now' \in Nat
    BY <1>2, OtherSteps
  <2>2. QED
    BY <1>1, <2>1 DEF PositionRecords, PaidExactlyOnce, NeverPaidEarly
<1>3. ASSUME NEW o \in Owners, NEW s \in Seeds, NEW mint \in Mints,
             NEW a \in CreateArgs, CreateStakePosition(o, s, mint, a)
      PROVE  PaidExactlyOnce' /\ NeverPaidEarly'
  <2> DEFINE p == <<o, s>>
  <2>1. Opened(p, a) /\ p \in PositionIds
    BY <1>3, CreateEffect
  <2> HIDE DEF p
  <2>2. paid[p] = 0 /\ withheld[p] = 0
    BY <1>1, <2>1 DEF Opened, PaidExactlyOnce
  <2>3. PaidExactlyOnce'
    BY <2>1, <2>2 DEF Opened, PaidExactlyOnce
  <2>4. NeverPaidEarly'
    BY <2>1, <2>2 DEF Opened, NeverPaidEarly
  <2>5. QED
    BY <2>3, <2>4
<1>4. ASSUME NEW o \in Owners, NEW s \in Seeds, NEW a \in ClaimArgs,
             ClaimStakePosition(o, s, a)
      PROVE  PaidExactlyOnce' /\ NeverPaidEarly'
  <2> DEFINE p == <<o, s>>
  <2>1. Settled(p, a) /\ p \in PositionIds
    BY <1>4, ClaimEffect
  <2> HIDE DEF p
  <2>2. a.net \in Nat /\ a.fee \in Nat
    BY ArgumentsAreNat DEF ClaimArgs
  <2>3. paid[p] = 0 /\ withheld[p] = 0
    BY <1>1, <2>1 DEF Settled, PaidExactlyOnce
  <2>4. PaidExactlyOnce'
    BY <1>1, <2>1, <2>2, <2>3 DEF Settled, PaidExactlyOnce
  <2>5. NeverPaidEarly'
    BY <1>1, <2>1, <2>2, <2>3 DEF Settled, NeverPaidEarly
  <2>6. QED
    BY <2>4, <2>5
<1>5. QED
  BY <1>2, <1>3, <1>4 DEF Next, Stakers

LEMMA Invariance == Spec => []IInv
  BY InitInv, InvStep, PTL DEF Spec

\* A position costs the pool nothing until it is claimed, and its payout once.
THEOREM PaidOnce == Spec => []PaidExactlyOnce
  BY Invariance, PTL DEF IInv

\* Nothing is paid before the unlock time agreed at the start.
THEOREM PaidInTime == Spec => []NeverPaidEarly
  BY Invariance, PTL DEF IInv
\* The terms of a position stand once it exists.
THEOREM TermsStand == Spec => TermsFixed
<1>1. TypeOK /\ [Next]_vars =>
        [\A p \in PositionIds :
           position[p].status # "Absent" =>
             /\ Terms(position'[p]) = Terms(position[p])
             /\ position[p].status = "Claimed" => position'[p] = position[p]
             /\ position'[p].status # "Absent"]_vars
  <2> SUFFICES ASSUME TypeOK, [Next]_vars, NEW p \in PositionIds,
                      position[p].status # "Absent"
               PROVE  /\ Terms(position'[p]) = Terms(position[p])
                      /\ position[p].status = "Claimed"
                            => position'[p] = position[p]
                      /\ position'[p].status # "Absent"
    OBVIOUS
  <2>1. CASE Admin \/ Tick \/ UNCHANGED vars
    <3>1. UNCHANGED position
      BY <2>1, OtherSteps
    <3>2. QED
      BY <3>1 DEF Terms
  <2>2. ASSUME NEW o \in Owners, NEW s \in Seeds, NEW mint \in Mints,
               NEW a \in CreateArgs, CreateStakePosition(o, s, mint, a)
        PROVE  position'[p] = position[p]
    <3>1. Opened(<<o, s>>, a)
      BY <2>2, CreateEffect
    <3>2. QED
      BY <3>1 DEF Opened
  <2>3. ASSUME NEW o \in Owners, NEW s \in Seeds, NEW a \in ClaimArgs,
               ClaimStakePosition(o, s, a)
        PROVE  /\ Terms(position'[p]) = Terms(position[p])
               /\ position[p].status = "Claimed" => position'[p] = position[p]
               /\ position'[p].status # "Absent"
    <3>1. CASE p = <<o, s>>
      <4>1. /\ position[p] \in PositionRecords /\ position[p].status = "Active"
            /\ position'[p] = [position[p] EXCEPT !.status = "Claimed",
                                                  !.claimedAt = now]
        BY <2>3, <3>1 DEF ClaimStakePosition, NotFinalized, TypeOK
      <4>2. QED
        BY <4>1 DEF PositionRecords, Terms
    <3>2. CASE p # <<o, s>>
      <4>1. Settled(<<o, s>>, a)
        BY <2>3, ClaimEffect
      <4>2. position'[p] = position[p]
        BY <3>2, <4>1 DEF Settled
      <4>3. QED
        BY <4>2
    <3>3. QED
      BY <3>1, <3>2
  <2>4. QED
    BY <2>1, <2>2, <2>3 DEF Next, Stakers, Terms
<1>2. QED
  BY TypeCorrect, <1>1, PTL DEF Spec, TermsFixed

-----------------------------------------------------------------------------
(* Each step of the program is a step of the ledger, or none.              *)

LEMMA OpenIsOpen ==
    ASSUME IInv, NEW p \in PositionIds, NEW a \in CreateArgs, Opened(p, a),
           position' \in [PositionIds -> PositionRecords]
    PROVE  Ledger!Open(p, a.payout, a.unlockAt)
<1>1. [q \in PositionIds |-> PhaseOf(position'[q].status)] =
        [[q \in PositionIds |-> PhaseOf(position[q].status)]
            EXCEPT ![p] = "open"]
  <2>1. PhaseOf(position'[p].status) = "open"
    BY DEF Opened, PhaseOf
  <2>2. \A q \in PositionIds \ {p} :
           PhaseOf(position'[q].status) = PhaseOf(position[q].status)
    BY DEF Opened
  <2>3. QED
    BY <2>1, <2>2
<1>2. [q \in PositionIds |-> position'[q].payout] =
        [[q \in PositionIds |-> position[q].payout] EXCEPT ![p] = a.payout]
  BY DEF Opened
<1>3. [q \in PositionIds |-> position'[q].unlockAt] =
        [[q \in PositionIds |-> position[q].unlockAt] EXCEPT ![p] = a.unlockAt]
  BY DEF Opened
<1>4. /\ PhaseOf(position[p].status) = "none"
      /\ a.unlockAt > now /\ UNCHANGED <<paid, withheld, now>>
  BY DEF Opened, PhaseOf
<1>5. QED
  BY <1>1, <1>2, <1>3, <1>4 DEF Ledger!Open

LEMMA SettleIsSettle ==
    ASSUME IInv, NEW p \in PositionIds, NEW a \in ClaimArgs, Settled(p, a),
           position' \in [PositionIds -> PositionRecords]
    PROVE  Ledger!Settle(p, a.net, a.fee)
<1>1. /\ position \in [PositionIds -> PositionRecords]
      /\ paid \in [PositionIds -> Nat] /\ withheld \in [PositionIds -> Nat]
  BY DEF IInv, TypeOK
<1>2. a.net \in Nat /\ a.fee \in Nat
  BY ArgumentsAreNat DEF ClaimArgs
<1>3. paid[p] = 0 /\ withheld[p] = 0
  BY <1>1 DEF Settled, IInv, PaidExactlyOnce
<1>4. [q \in PositionIds |-> PhaseOf(position'[q].status)] =
        [[q \in PositionIds |-> PhaseOf(position[q].status)]
            EXCEPT ![p] = "settled"]
  <2>1. PhaseOf(position'[p].status) = "settled"
    BY DEF Settled, PhaseOf
  <2>2. \A q \in PositionIds \ {p} :
           PhaseOf(position'[q].status) = PhaseOf(position[q].status)
    BY DEF Settled
  <2>3. QED
    BY <2>1, <2>2
<1>5. /\ [q \in PositionIds |-> position'[q].payout] =
            [q \in PositionIds |-> position[q].payout]
      /\ [q \in PositionIds |-> position'[q].unlockAt] =
            [q \in PositionIds |-> position[q].unlockAt]
  BY DEF Settled
<1>6. /\ paid' = [paid EXCEPT ![p] = a.net]
      /\ withheld' = [withheld EXCEPT ![p] = a.fee]
  <2>1. paid[p] + a.net = a.net /\ withheld[p] + a.fee = a.fee
    BY <1>2, <1>3
  <2>2. QED
    BY <1>1, <2>1 DEF Settled
<1>7. /\ PhaseOf(position[p].status) = "open" /\ now >= position[p].unlockAt
      /\ a.net + a.fee = position[p].payout /\ now' = now
  BY <1>2 DEF Settled, PhaseOf
<1>8. QED
  BY <1>4, <1>5, <1>6, <1>7 DEF Ledger!Settle

\* stake-pool implements the promise of StakeLedger.
THEOREM LedgerImplemented == Spec => ImplementsLedger
<1>1. Init => Ledger!LedgerInit
  <2> SUFFICES ASSUME Init PROVE Ledger!LedgerInit
    OBVIOUS
  <2>1. \A p \in PositionIds :
          /\ PhaseOf(position[p].status) = "none"
          /\ position[p].payout = 0 /\ position[p].unlockAt = 0
    BY DEF Init, NoPosition, PhaseOf
  <2>2. QED
    BY <2>1 DEF Init, Ledger!LedgerInit
<1>2. IInv /\ [Next]_vars => [Ledger!LedgerNext]_(Ledger!ledgerVars)
  <2> SUFFICES ASSUME IInv, [Next]_vars
               PROVE  [Ledger!LedgerNext]_(Ledger!ledgerVars)
    OBVIOUS
  <2>1. TypeOK /\ position' \in [PositionIds -> PositionRecords]
    BY TypeStep DEF IInv, TypeOK
  <2>2. CASE Admin \/ Tick \/ UNCHANGED vars
    <3>1. UNCHANGED <<position, paid, withheld>> /\ now' >= now
      BY <2>1, <2>2, OtherSteps
    <3>2. now \in Nat /\ now' \in Nat
      BY <2>1, <2>2, OtherSteps DEF TypeOK
    <3>3. CASE now' = now
      BY <3>1, <3>3 DEF Ledger!ledgerVars
    <3>4. CASE now' > now
      BY <3>1, <3>4 DEF Ledger!LedgerNext, Ledger!Pass
    <3>5. QED
      BY <3>1, <3>2, <3>3, <3>4
  <2>3. ASSUME NEW o \in Owners, NEW s \in Seeds, NEW mint \in Mints,
               NEW a \in CreateArgs, CreateStakePosition(o, s, mint, a)
        PROVE  Ledger!LedgerNext
    <3>1. Opened(<<o, s>>, a)
      BY <2>1, <2>3, CreateEffect
    <3>2. Ledger!Open(<<o, s>>, a.payout, a.unlockAt)
      BY <2>1, <3>1, OpenIsOpen
    <3>3. a.payout \in RaAmounts /\ a.unlockAt \in UnlockArgs
      BY DEF CreateArgs
    <3>4. QED
      BY <3>2, <3>3 DEF Ledger!LedgerNext
  <2>4. ASSUME NEW o \in Owners, NEW s \in Seeds, NEW a \in ClaimArgs,
               ClaimStakePosition(o, s, a)
        PROVE  Ledger!LedgerNext
    <3>1. Settled(<<o, s>>, a)
      BY <2>1, <2>4, ClaimEffect
    <3>2. Ledger!Settle(<<o, s>>, a.net, a.fee)
      BY <2>1, <3>1, SettleIsSettle
    <3>3. a.net \in RaAmounts /\ a.fee \in RaAmounts
      BY DEF ClaimArgs
    <3>4. QED
      BY <3>2, <3>3 DEF Ledger!LedgerNext
  <2>5. QED
    BY <2>2, <2>3, <2>4 DEF Next, Stakers
<1>3. QED
  BY <1>1, <1>2, Invariance, PTL DEF Spec, ImplementsLedger, Ledger!LedgerSpec

-----------------------------------------------------------------------------
(* Where the tokens are.  A claim takes from one vault's balance what it    *)
(* adds to one owner's; a stake adds to one deposit what it takes from one  *)
(* owner and writes into one position.  The sums move with them (Sums).     *)

\* No position, no input: what the accounts of tokens rest on.
AbsentIsEmpty == \A p \in PositionIds : position[p].status = "Absent" => position[p].input = 0

LEMMA FinitePositions == IsFiniteSet(PositionIds) /\ \A m : IsFiniteSet(OfMint(m))
  BY FiniteAssumption, FS_Product, FS_Subset DEF OfMint

LEMMA TokensStart == Init => AbsentIsEmpty /\ TokensConserved
<1> SUFFICES ASSUME Init PROVE AbsentIsEmpty /\ TokensConserved
  OBVIOUS
<1> USE FiniteAssumption, FinitePositions DEF Init
<1>1. AbsentIsEmpty
  BY DEF AbsentIsEmpty, NoPosition
<1>2. ASSUME NEW m \in RaMints
      PROVE  SumFunctionOnSet(vaultBalance, OfMint(m)) + SumFunction([o \in Owners |-> userRa[o][m]])
            = InitialVault * Cardinality(OfMint(m))
  <2>1. [o \in Owners |-> userRa[o][m]] = [o \in Owners |-> 0]
    OBVIOUS
  <2>2. SumFunction([o \in Owners |-> userRa[o][m]]) = 0
    BY <2>1, SumOfZeros
  <2>3. SumFunctionOnSet(vaultBalance, OfMint(m)) = InitialVault * Cardinality(OfMint(m))
    <3>1. \A v \in OfMint(m) : vaultBalance[v] = InitialVault
      BY DEF OfMint
    <3>2. IsFiniteSet(OfMint(m)) /\ InitialVault \in Int
      BY StakePoolAssumption
    <3> QED
      BY <3>1, <3>2, SumOfEqual
  <2>4. InitialVault * Cardinality(OfMint(m)) \in Int
    BY StakePoolAssumption, FS_CardinalityType
  <2> QED
    BY <2>2, <2>3, <2>4
<1>3. ASSUME NEW o \in Owners
      PROVE  SumFunction(userRa[o]) = SumFunction([s \in Seeds |-> paid[<<o, s>>]])
  <2>1. userRa[o] = [m \in RaMints |-> 0] /\ [s \in Seeds |-> paid[<<o, s>>]] = [s \in Seeds |-> 0]
    OBVIOUS
  <2> QED
    BY <2>1, SumOfZeros
<1>4. SumFunction([p \in PositionIds |-> position[p].input]) = SumFunction(deposited)
  <2>1. [p \in PositionIds |-> position[p].input] = [p \in PositionIds |-> 0]
    BY DEF NoPosition
  <2>2. deposited = [m \in Mints |-> 0]
    OBVIOUS
  <2> QED
    BY <2>1, <2>2, SumOfZeros
<1> QED
  BY <1>1, <1>2, <1>3, <1>4 DEF TokensConserved, RaConserved, EveryTokenHasItsPosition

LEMMA TokensOpen ==
  ASSUME TypeOK, TypeOK', AbsentIsEmpty, TokensConserved, NEW o \in Owners, NEW s \in Seeds, NEW mint \in
         Mints, NEW a \in CreateArgs, CreateStakePosition(o, s, mint, a)
  PROVE  AbsentIsEmpty' /\ TokensConserved'
<1> USE FiniteAssumption, FinitePositions
<1>1. a.input \in Nat
  BY StakePoolAssumption DEF CreateArgs
<1>2. /\ UNCHANGED <<vaultBalance, userRa, paid>>
      /\ deposited' = [deposited EXCEPT ![mint] = @ + a.input]
      /\ position[<<o, s>>].status = "Absent"
      /\ position' = [position EXCEPT ![<<o, s>>] = position'[<<o, s>>]]
      /\ position'[<<o, s>>].input = a.input /\ position'[<<o, s>>].status = "Active"
  BY DEF CreateStakePosition, TypeOK, ghostVars, Vacant
<1>3. position[<<o, s>>].input = 0
  BY <1>2 DEF AbsentIsEmpty
<1>4. AbsentIsEmpty'
  BY <1>2 DEF AbsentIsEmpty, TypeOK
<1>5. RaConserved'
  BY <1>2 DEF TokensConserved, RaConserved
<1>6. SumFunction(deposited)' = SumFunction(deposited) + a.input /\ SumFunction(deposited) \in Int
  <2>0. PICK f, h : f = deposited /\ h = deposited'
    OBVIOUS
  <2>1. f \in [Mints -> Nat] /\ h = [f EXCEPT ![mint] = @ + a.input]
    BY <2>0, <1>2 DEF TypeOK
  <2>2. /\ f \in [Mints -> Nat] /\ h \in [Mints -> Nat]
        /\ h[mint] = f[mint] + a.input /\ \A x \in Mints \ {mint} : f[x] = h[x]
    BY <2>1, <1>1
  <2>3. SumFunction(h) = SumFunction(f) + a.input /\ SumFunction(f) \in Nat
    BY <2>2, <1>1, AddedOnce
  <2> QED
    BY <2>0, <2>3
<1>7. /\ SumFunction([p \in PositionIds |-> position[p].input])'
            = SumFunction([p \in PositionIds |-> position[p].input]) + a.input
      /\ SumFunction([p \in PositionIds |-> position[p].input]) \in Int
  <2>1. PICK f, h : f = [p \in PositionIds |-> position[p].input] /\ h = [p \in PositionIds |-> position'[p].input]
    OBVIOUS
  <2>2. PICK y : y = <<o, s>>
    OBVIOUS
  <2>3. \A p \in PositionIds : position[p] \in PositionRecords /\ position'[p] \in PositionRecords
    BY DEF TypeOK
  <2>4. /\ f = [x \in PositionIds |-> f[x]] /\ h = [x \in PositionIds |-> h[x]]
        /\ \A x \in PositionIds : f[x] \in Int /\ h[x] \in Int
    BY <2>1, <2>3 DEF PositionRecords
  <2>5. /\ \A x \in PositionIds \ {y} : f[x] = h[x]
        /\ y \in PositionIds /\ h[y] - f[y] = a.input
    BY <2>1, <2>2, <1>1, <1>2, <1>3 DEF TypeOK
  <2>6. SumFunction(h) = SumFunction(f) + (h[y] - f[y]) /\ SumFunction(f) \in Int
    BY <2>4, <2>5, WholeSumMoves
  <2> QED
    BY <2>1, <2>5, <2>6
<1>8. EveryTokenHasItsPosition'
  BY <1>2, <1>6, <1>7 DEF TokensConserved, EveryTokenHasItsPosition
<1> QED
  BY <1>4, <1>5, <1>8 DEF TokensConserved

LEMMA TokensSettle ==
  ASSUME TypeOK, TypeOK', AbsentIsEmpty, TokensConserved, NEW o \in Owners, NEW s \in Seeds,
         NEW a \in ClaimArgs, ClaimStakePosition(o, s, a)
  PROVE  AbsentIsEmpty' /\ TokensConserved'
<1> USE FiniteAssumption, FinitePositions
<1>1. a.net \in Nat
  BY StakePoolAssumption DEF ClaimArgs
<1>2. PICK v0, m0 : v0 = config.vault /\ m0 = config.raMint
  OBVIOUS
<1>3. v0 \in Vaults /\ m0 \in RaMints /\ VaultMint[v0] = m0
  BY <1>2 DEF TypeOK, ConfigRecords, ClaimStakePosition, VaultAccepted
<1>4. /\ vaultBalance' = [vaultBalance EXCEPT ![v0] = @ - a.net]
      /\ userRa' = [userRa EXCEPT ![o][m0] = @ + a.net]
      /\ paid' = [paid EXCEPT ![<<o, s>>] = @ + a.net]
      /\ deposited' = deposited
  BY <1>2 DEF ClaimStakePosition
<1>5. \A p \in PositionIds : /\ position'[p].input = position[p].input
                             /\ position[p].status = "Absent" <=> position'[p].status = "Absent"
  <2>1. position[<<o, s>>] \in PositionRecords
    BY DEF TypeOK
  <2>2. [position[<<o, s>>] EXCEPT !.status = "Claimed", !.claimedAt = now].input =
          position[<<o, s>>].input
    BY <2>1 DEF PositionRecords
  <2>3. [position[<<o, s>>] EXCEPT !.status = "Claimed", !.claimedAt = now].status = "Claimed"
    BY <2>1 DEF PositionRecords
  <2> QED
    BY <2>2, <2>3 DEF TypeOK, ClaimStakePosition, NotFinalized
<1>6. AbsentIsEmpty'
  BY <1>5 DEF AbsentIsEmpty
<1>7. ASSUME NEW m \in RaMints
      PROVE  SumFunctionOnSet(vaultBalance', OfMint(m)) + SumFunction([x \in Owners |-> userRa'[x][m]])
            = InitialVault * Cardinality(OfMint(m))
  <2>1. PICK f, h : f = vaultBalance /\ h = vaultBalance'
    OBVIOUS
  <2>2. f \in [Vaults -> Nat] /\ h \in [Vaults -> Nat] /\ h = [f EXCEPT ![v0] = @ - a.net]
    BY <2>1, <1>4 DEF TypeOK
  <2>3. PICK g, k : g = [x \in Owners |-> userRa[x][m]] /\ k = [x \in Owners |-> userRa'[x][m]]
    OBVIOUS
  <2>4. g \in [Owners -> Nat] /\ k \in [Owners -> Nat]
    BY <2>3 DEF TypeOK
  <2>5. PICK W : W = OfMint(m)
    OBVIOUS
  <2>6. W \subseteq Vaults /\ IsFiniteSet(W) /\ (v0 \in W <=> m = m0)
    BY <2>5, <1>3 DEF OfMint
  <2>7. SumFunctionOnSet(f, W) + SumFunction(g) = InitialVault * Cardinality(W)
    BY <2>1, <2>3, <2>5 DEF TokensConserved, RaConserved
  <2>8. CASE m = m0
    <3>1. /\ \A x \in W : f[x] \in Int /\ h[x] \in Int
          /\ \A x \in W \ {v0} : f[x] = h[x]
          /\ h[v0] - f[v0] = 0 - a.net
      BY <2>2, <2>6, <1>1, <1>3
    <3>2. SumFunctionOnSet(h, W) = SumFunctionOnSet(f, W) + (h[v0] - f[v0])
      BY <3>1, <2>6, <2>8, SumMoves
    <3>3. k[o] = g[o] + a.net /\ \A x \in Owners \ {o} : g[x] = k[x]
      BY <2>3, <2>8, <1>4 DEF TypeOK
    <3>4. SumFunction(k) = SumFunction(g) + (k[o] - g[o]) /\ SumFunction(g) \in Int
      BY <3>3, <2>4, WholeSumMoves
    <3>5. k[o] - g[o] = a.net
      BY <3>3, <2>4, <1>1
    <3>6. SumFunctionOnSet(f, W) \in Int
      BY <3>1, <2>6, SumIsInt
    <3>7. SumFunctionOnSet(h, W) + SumFunction(k) = SumFunctionOnSet(f, W) + SumFunction(g)
      BY <3>1, <3>2, <3>4, <3>5, <3>6, <1>1
    <3> QED
      BY <3>7, <2>1, <2>3, <2>5, <2>7
  <2>9. CASE m # m0
    <3>1. \A x \in W : f[x] = h[x]
      BY <2>2, <2>6, <2>9
    <3>2. SumFunctionOnSet(h, W) = SumFunctionOnSet(f, W)
      BY <3>1, <2>6, SameSummands
    <3>3. g = k
      BY <2>3, <2>9, <1>4 DEF TypeOK
    <3> QED
      BY <3>2, <3>3, <2>1, <2>3, <2>5, <2>7
  <2> QED
    BY <2>8, <2>9
<1>8. ASSUME NEW x \in Owners
      PROVE  SumFunction(userRa'[x]) = SumFunction([z \in Seeds |-> paid'[<<x, z>>]])
  <2>1. PICK f, h : f = userRa[x] /\ h = userRa'[x]
    OBVIOUS
  <2>2. PICK g, k : g = [z \in Seeds |-> paid[<<x, z>>]] /\ k = [z \in Seeds |-> paid'[<<x, z>>]]
    OBVIOUS
  <2>3. SumFunction(f) = SumFunction(g)
    BY <2>1, <2>2 DEF TokensConserved, EveryTokenHasItsPosition
  <2>4. CASE x = o
    <3>1. f \in [RaMints -> Nat] /\ h = [f EXCEPT ![m0] = @ + a.net]
      BY <2>1, <2>4, <1>4 DEF TypeOK
    <3>2. SumFunction(h) = SumFunction(f) + a.net
      <4>1. f \in [RaMints -> Nat] /\ h \in [RaMints -> Nat] /\ h[m0] = f[m0] + a.net /\ \A z \in RaMints \ {m0} : f[z] = h[z]
        BY <3>1, <1>1, <1>3
      <4> QED
        BY <4>1, <1>1, <1>3, AddedOnce
    <3>3. /\ g \in [Seeds -> Nat] /\ k \in [Seeds -> Nat]
          /\ k[s] = g[s] + a.net /\ \A z \in Seeds \ {s} : g[z] = k[z]
      BY <2>2, <2>4, <1>4 DEF TypeOK
    <3>4. SumFunction(k) = SumFunction(g) + a.net
      BY <3>3, <1>1, AddedOnce
    <3> QED
      BY <3>2, <3>4, <2>1, <2>2, <2>3
  <2>5. CASE x # o
    <3>1. f = h /\ g = k
      BY <2>1, <2>2, <2>5, <1>4 DEF TypeOK
    <3> QED
      BY <3>1, <2>1, <2>2, <2>3
  <2> QED
    BY <2>4, <2>5
<1>9. [p \in PositionIds |-> position[p].input]' = [p \in PositionIds |-> position[p].input]
  BY <1>5
<1> QED
  BY <1>4, <1>6, <1>7, <1>8, <1>9 DEF TokensConserved, RaConserved, EveryTokenHasItsPosition

\* No other step moves a token.
LEMMA TokensRest ==
  ASSUME TypeOK, Admin \/ Tick \/ UNCHANGED vars
  PROVE  UNCHANGED <<position, vaultBalance, userRa, deposited, paid>>
<1>1. ASSUME Admin PROVE UNCHANGED <<position, vaultBalance, userRa, deposited, paid>>
  BY <1>1 DEF Admin, InitializeGlobalConfig, UpdateGlobalConfig, UpsertTokenStakeConfig, balanceVars,
              ghostVars
<1>2. ASSUME Tick PROVE UNCHANGED <<position, vaultBalance, userRa, deposited, paid>>
  BY <1>2 DEF Tick, balanceVars, ghostVars
<1>3. ASSUME UNCHANGED vars PROVE UNCHANGED <<position, vaultBalance, userRa, deposited, paid>>
  BY <1>3 DEF vars
<1> QED
  BY <1>1, <1>2, <1>3

LEMMA TokensStep == TypeOK /\ TypeOK' /\ AbsentIsEmpty /\ TokensConserved /\ [Next]_vars
                      => AbsentIsEmpty' /\ TokensConserved'
<1> SUFFICES ASSUME TypeOK, TypeOK', AbsentIsEmpty, TokensConserved, [Next]_vars
             PROVE AbsentIsEmpty' /\ TokensConserved'
  OBVIOUS
<1>1. ASSUME Admin \/ Tick \/ UNCHANGED vars PROVE AbsentIsEmpty' /\ TokensConserved'
  BY <1>1, TokensRest DEF AbsentIsEmpty, TokensConserved, RaConserved, EveryTokenHasItsPosition
<1> QED
  BY <1>1, TokensOpen, TokensSettle DEF Next, Stakers

LEMMA TokensInvariance == Spec => [](AbsentIsEmpty /\ TokensConserved)
<1>1. Init => AbsentIsEmpty /\ TokensConserved
  BY TokensStart
<1>2. TypeOK /\ TypeOK' /\ AbsentIsEmpty /\ TokensConserved /\ [Next]_vars
        => AbsentIsEmpty' /\ TokensConserved'
  BY TokensStep
<1> QED
  BY <1>1, <1>2, TypeCorrect, PTL DEF Spec

\* Every token is accounted for, of any number of owners, mints, vaults and positions:
\* claims move RA from a vault to an owner and nowhere else, and what was deposited is
\* the input of the positions (claim_stake_position, create_stake_position).
THEOREM TokensStay == Spec => []TokensConserved
  BY TokensInvariance, PTL

-----------------------------------------------------------------------------
(* Both programs.                                                           *)

BatchIInv == Swap!SwapTypeOK /\ BatchPaysOnce

LEMMA SwapInitInv == FundingInit => BatchIInv
<1> SUFFICES ASSUME FundingInit PROVE BatchIInv
  OBVIOUS
<1>1. /\ (CHOOSE s \in Signers : TRUE) \in Signers
      /\ (CHOOSE v \in Vaults : TRUE) \in Vaults
      /\ (CHOOSE m \in RaMints : TRUE) \in RaMints
  BY StakePoolAssumption
<1>2. Swap!SwapTypeOK
  BY <1>1, StakePoolAssumption, FundingAssumption
  DEF FundingInit, Init, Swap!SwapInit, Swap!SwapTypeOK,
      Swap!SwapConfigRecords, Swap!BatchRecords, Swap!NoSwapConfig,
      Swap!NoBatch, Swap!BatchStatuses
<1>3. BatchPaysOnce
  BY DEF FundingInit, Swap!SwapInit, BatchPaysOnce, Swap!BatchPaysOnce,
         Swap!NoBatch
<1>4. QED
  BY <1>2, <1>3 DEF BatchIInv

\* What an instruction does to the batch it is about.
BatchApproved(b, v, approved, planned) ==
    /\ batch[b].status = "Absent"
    /\ batch' = [batch EXCEPT ![b] =
         [status |-> "Approved", vault |-> v, approved |-> approved,
          planned |-> planned, funded |-> 0]]
    /\ moved' = moved

BatchExecuted(b, amount) ==
    /\ batch[b].status = "Approved"
    /\ amount \in 1..batch[b].approved
    /\ batch' = [batch EXCEPT ![b] =
         [@ EXCEPT !.status = "Executed", !.funded = amount]]
    /\ moved' = [moved EXCEPT ![b] = @ + amount]

BatchCancelled(b) ==
    /\ batch[b].status = "Approved"
    /\ batch' = [batch EXCEPT ![b] = [@ EXCEPT !.status = "Cancelled"]]
    /\ moved' = moved

BatchEffect ==
    \/ UNCHANGED <<batch, moved>>
    \/ \E b \in Swap!BatchIds, v \in Vaults, x \in Nat, y \in Nat :
         BatchApproved(b, v, x, y)
    \/ \E b \in Swap!BatchIds, x \in Nat : BatchExecuted(b, x)
    \/ \E b \in Swap!BatchIds : BatchCancelled(b)

LEMMA SwapEffect ==
    ASSUME Swap!SwapTypeOK, Swap!SwapNext
    PROVE  BatchEffect
<1>1. ASSUME NEW op \in Signers, NEW ms \in Signers, NEW m \in RaMints,
             NEW v \in Vaults, Swap!InitializeSwapNode(op, ms, m, v)
      PROVE  BatchEffect
  BY <1>1 DEF Swap!InitializeSwapNode, BatchEffect
<1>2. ASSUME NEW s \in Signers, NEW m \in RaMints, NEW v \in Vaults,
             Swap!UpdateSwapNodeConfig(s, m, v)
      PROVE  BatchEffect
  BY <1>2 DEF Swap!UpdateSwapNodeConfig, BatchEffect
<1>3. ASSUME NEW s \in Signers, NEW m \in RaMints, NEW seed \in BatchSeeds,
             NEW x \in BatchAmounts, NEW y \in BatchAmounts,
             Swap!ApproveFundingBatch(s, m, seed, x, y)
      PROVE  BatchEffect
  <2>1. x \in Nat /\ y \in Nat /\ swapConfig.vault \in Vaults
    BY FundingAssumption DEF Swap!SwapTypeOK, Swap!SwapConfigRecords
  <2>2. <<m, seed>> \in Swap!BatchIds
    BY DEF Swap!BatchIds
  <2>3. BatchApproved(<<m, seed>>, swapConfig.vault, x, y)
    BY <1>3 DEF Swap!ApproveFundingBatch, Swap!Fresh, BatchApproved
  <2>4. QED
    BY <2>1, <2>2, <2>3 DEF BatchEffect
<1>4. ASSUME NEW s \in Signers, NEW m \in RaMints, NEW seed \in BatchSeeds,
             NEW v \in Vaults, NEW x \in BatchAmounts,
             Swap!ExecuteFundingBatch(s, m, seed, v, x)
      PROVE  BatchEffect
  <2>1. x \in Nat
    BY FundingAssumption
  <2>2. <<m, seed>> \in Swap!BatchIds
    BY DEF Swap!BatchIds
  <2>3. batch[<<m, seed>>].approved \in Nat
    BY <2>2 DEF Swap!SwapTypeOK, Swap!BatchRecords
  <2>4. BatchExecuted(<<m, seed>>, x)
    BY <1>4, <2>1, <2>3 DEF Swap!ExecuteFundingBatch, Swap!Ready,
       Swap!WithinApproval, BatchExecuted
  <2>5. QED
    BY <2>1, <2>2, <2>4 DEF BatchEffect
<1>5. ASSUME NEW s \in Signers, NEW m \in RaMints, NEW seed \in BatchSeeds,
             Swap!CancelFundingBatch(s, m, seed)
      PROVE  BatchEffect
  <2>1. <<m, seed>> \in Swap!BatchIds
    BY DEF Swap!BatchIds
  <2>2. BatchCancelled(<<m, seed>>)
    BY <1>5 DEF Swap!CancelFundingBatch, Swap!Ready, BatchCancelled
  <2>3. QED
    BY <2>1, <2>2 DEF BatchEffect
<1>6. QED
  BY <1>1, <1>2, <1>3, <1>4, <1>5 DEF Swap!SwapNext

-----------------------------------------------------------------------------
(* The joint invariant.                                                    *)

\* The vaults are typed by both programs' invariants, so neither is inductive
\* without the other's.
JointInv == IInv /\ BatchIInv

LEMMA SwapTypeStep ==
    ASSUME Swap!SwapTypeOK, Swap!SwapNext
    PROVE  Swap!SwapTypeOK'
<1> USE DEF Swap!SwapConfigRecords, Swap!BatchRecords, Swap!BatchStatuses
<1>1. ASSUME NEW op \in Signers, NEW ms \in Signers, NEW m \in RaMints,
             NEW v \in Vaults, Swap!InitializeSwapNode(op, ms, m, v)
      PROVE  Swap!SwapTypeOK'
  BY <1>1 DEF Swap!InitializeSwapNode, Swap!SwapTypeOK
<1>2. ASSUME NEW s \in Signers, NEW m \in RaMints, NEW v \in Vaults,
             Swap!UpdateSwapNodeConfig(s, m, v)
      PROVE  Swap!SwapTypeOK'
  BY <1>2 DEF Swap!UpdateSwapNodeConfig, Swap!SwapTypeOK
<1>3. ASSUME NEW s \in Signers, NEW m \in RaMints, NEW seed \in BatchSeeds,
             NEW x \in BatchAmounts, NEW y \in BatchAmounts,
             Swap!ApproveFundingBatch(s, m, seed, x, y)
      PROVE  Swap!SwapTypeOK'
  <2>1. x \in Nat /\ y \in Nat /\ swapConfig.vault \in Vaults
    BY FundingAssumption DEF Swap!SwapTypeOK
  <2>2. QED
    BY <1>3, <2>1 DEF Swap!ApproveFundingBatch, Swap!SwapTypeOK
<1>4. ASSUME NEW s \in Signers, NEW m \in RaMints, NEW seed \in BatchSeeds,
             NEW v \in Vaults, NEW x \in BatchAmounts,
             Swap!ExecuteFundingBatch(s, m, seed, v, x)
      PROVE  Swap!SwapTypeOK'
  <2>1. x \in Nat
    BY FundingAssumption
  <2>2. <<m, seed>> \in Swap!BatchIds
    BY DEF Swap!BatchIds
  <2>3. funds' \in [Signers -> [RaMints -> Nat]]
    BY <1>4, <2>1 DEF Swap!ExecuteFundingBatch, Swap!Held, Swap!SwapTypeOK
  <2>4. vaultBalance' \in [Vaults -> Nat]
    BY <1>4, <2>1 DEF Swap!ExecuteFundingBatch, Swap!SwapTypeOK
  <2>5. batch' \in [Swap!BatchIds -> Swap!BatchRecords]
    <3>1. batch[<<m, seed>>] \in Swap!BatchRecords
      BY <2>2 DEF Swap!SwapTypeOK
    <3>2. [batch[<<m, seed>>] EXCEPT !.status = "Executed", !.funded = x]
              \in Swap!BatchRecords
      BY <3>1, <2>1
    <3>3. QED
      BY <1>4, <3>2 DEF Swap!ExecuteFundingBatch, Swap!SwapTypeOK
  <2>6. moved' \in [Swap!BatchIds -> Nat]
    BY <1>4, <2>1, <2>2 DEF Swap!ExecuteFundingBatch, Swap!SwapTypeOK
  <2>7. QED
    BY <1>4, <2>3, <2>4, <2>5, <2>6
    DEF Swap!ExecuteFundingBatch, Swap!SwapTypeOK
<1>5. ASSUME NEW s \in Signers, NEW m \in RaMints, NEW seed \in BatchSeeds,
             Swap!CancelFundingBatch(s, m, seed)
      PROVE  Swap!SwapTypeOK'
  <2>1. <<m, seed>> \in Swap!BatchIds
    BY DEF Swap!BatchIds
  <2>2. batch[<<m, seed>>] \in Swap!BatchRecords
    BY <2>1 DEF Swap!SwapTypeOK
  <2>3. [batch[<<m, seed>>] EXCEPT !.status = "Cancelled"] \in Swap!BatchRecords
    BY <2>2
  <2>4. QED
    BY <1>5, <2>3 DEF Swap!CancelFundingBatch, Swap!SwapTypeOK
<1>6. QED
  BY <1>1, <1>2, <1>3, <1>4, <1>5 DEF Swap!SwapNext

LEMMA BatchPaysStep ==
    ASSUME Swap!SwapTypeOK, BatchPaysOnce, BatchEffect
    PROVE  BatchPaysOnce'
<1> USE DEF BatchPaysOnce, Swap!BatchPaysOnce, Swap!SwapTypeOK,
            Swap!BatchRecords, Swap!BatchStatuses
<1>1. CASE UNCHANGED <<batch, moved>>
  BY <1>1
<1>2. ASSUME NEW b \in Swap!BatchIds, NEW v \in Vaults, NEW x \in Nat,
             NEW y \in Nat, BatchApproved(b, v, x, y)
      PROVE  BatchPaysOnce'
  BY <1>2 DEF BatchApproved
<1>3. ASSUME NEW b \in Swap!BatchIds, NEW x \in Nat, BatchExecuted(b, x)
      PROVE  BatchPaysOnce'
  <2>1. batch[b] \in Swap!BatchRecords /\ moved[b] = 0
    BY <1>3 DEF BatchExecuted
  <2>2. /\ batch'[b].status = "Executed" /\ batch'[b].funded = x
        /\ batch'[b].approved = batch[b].approved
        /\ moved'[b] = x
    BY <1>3, <2>1 DEF BatchExecuted
  <2>3. \A c \in Swap!BatchIds \ {b} :
           batch'[c] = batch[c] /\ moved'[c] = moved[c]
    BY <1>3 DEF BatchExecuted
  <2>4. QED
    BY <1>3, <2>2, <2>3 DEF BatchExecuted
<1>4. ASSUME NEW b \in Swap!BatchIds, BatchCancelled(b)
      PROVE  BatchPaysOnce'
  <2>1. batch[b] \in Swap!BatchRecords
    OBVIOUS
  <2>2. batch'[b].status = "Cancelled" /\ batch'[b].funded = batch[b].funded
    BY <1>4, <2>1 DEF BatchCancelled
  <2>3. \A c \in Swap!BatchIds \ {b} : batch'[c] = batch[c]
    BY <1>4 DEF BatchCancelled
  <2>4. QED
    BY <1>4, <2>2, <2>3 DEF BatchCancelled
<1>5. QED
  BY <1>1, <1>2, <1>3, <1>4 DEF BatchEffect

\* The stake-pool's invariant speaks of the vaults only to type them.
LEMMA PoolInvKept ==
    ASSUME IInv, SwapStep, vaultBalance' \in [Vaults -> Nat]
    PROVE  IInv'
  BY DEF IInv, SwapStep, TypeOK, PaidExactlyOnce, NeverPaidEarly

LEMMA JointStep == JointInv /\ [FundingNext]_allVars => JointInv'
<1> SUFFICES ASSUME IInv, Swap!SwapTypeOK, BatchPaysOnce, [FundingNext]_allVars
             PROVE  IInv' /\ Swap!SwapTypeOK' /\ BatchPaysOnce'
  BY DEF JointInv, BatchIInv
<1>1. CASE PoolStep \/ UNCHANGED allVars
  <2>1. [Next]_vars /\ UNCHANGED swapOnly
    BY <1>1 DEF PoolStep, allVars
  <2>2. IInv'
    BY <2>1, InvStep
  <2>3. vaultBalance' \in [Vaults -> Nat]
    BY <2>2 DEF IInv, TypeOK
  <2>4. Swap!SwapTypeOK' /\ BatchPaysOnce'
    BY <2>1, <2>3 DEF swapOnly, Swap!SwapTypeOK, BatchPaysOnce,
                      Swap!BatchPaysOnce
  <2>5. QED
    BY <2>2, <2>4
<1>2. CASE SwapStep
  <2>1. Swap!SwapTypeOK'
    BY <1>2, SwapTypeStep DEF SwapStep
  <2>2. BatchPaysOnce'
    BY <1>2, SwapEffect, BatchPaysStep DEF SwapStep
  <2>3. IInv'
    BY <1>2, <2>1, PoolInvKept DEF Swap!SwapTypeOK
  <2>4. QED
    BY <2>1, <2>2, <2>3
<1>3. QED
  BY <1>1, <1>2 DEF FundingNext

LEMMA JointInvariance == FundingSpec => []JointInv
<1>1. FundingInit => JointInv
  BY InitInv, SwapInitInv DEF FundingInit, JointInv
<1>2. QED
  BY <1>1, JointStep, PTL DEF FundingSpec

\* Both programs keep their accounts typed: no balance on the chain goes below
\* zero, whoever funds, claims and reconfigures (execute_funding_batch and
\* claim_stake_position on one vault).
THEOREM FundingTypeCorrect == FundingSpec => []FundingTypeOK
  BY JointInvariance, PTL DEF JointInv, IInv, BatchIInv, FundingTypeOK

\* A funding batch pays at most once, within its approval.
THEOREM BatchPaidOnce == FundingSpec => []BatchPaysOnce
  BY JointInvariance, PTL DEF JointInv, BatchIInv

\* Claims are still paid exactly once when the vault is shared with the
\* swap-node (claim_stake_position beside execute_funding_batch).
THEOREM ClaimsUndisturbed == FundingSpec => [](PaidExactlyOnce /\ NeverPaidEarly)
  BY JointInvariance, PTL DEF JointInv, IInv

\* An approved batch keeps its terms and a finished one does not change
\* (execute_funding_batch, cancel_funding_batch).
THEOREM BatchesStand == FundingSpec => BatchStands
<1>1. JointInv /\ [FundingNext]_allVars =>
        [\A b \in Swap!BatchIds :
           batch[b].status # "Absent" => Swap!BatchKept(b)]_allVars
  <2> SUFFICES ASSUME Swap!SwapTypeOK, [FundingNext]_allVars,
                      NEW b \in Swap!BatchIds, batch[b].status # "Absent"
               PROVE  Swap!BatchKept(b)
    BY DEF JointInv, BatchIInv
  <2>1. batch \in [Swap!BatchIds -> Swap!BatchRecords]
    BY DEF Swap!SwapTypeOK
  <2>2. CASE UNCHANGED <<batch, moved>>
    BY <2>2 DEF Swap!BatchKept
  <2>3. CASE BatchEffect
    <3>1. ASSUME NEW c \in Swap!BatchIds, NEW v \in Vaults, NEW x \in Nat,
                 NEW y \in Nat, BatchApproved(c, v, x, y)
          PROVE  Swap!BatchKept(b)
      BY <2>1, <3>1 DEF BatchApproved, Swap!BatchKept
    <3>2. ASSUME NEW c \in Swap!BatchIds, NEW x \in Nat, BatchExecuted(c, x)
          PROVE  Swap!BatchKept(b)
      <4>1. CASE b = c
        BY <2>1, <3>2, <4>1 DEF BatchExecuted, Swap!BatchKept, Swap!BatchRecords
      <4>2. CASE b # c
        BY <2>1, <3>2, <4>2 DEF BatchExecuted, Swap!BatchKept
      <4>3. QED
        BY <4>1, <4>2
    <3>3. ASSUME NEW c \in Swap!BatchIds, BatchCancelled(c)
          PROVE  Swap!BatchKept(b)
      <4>1. CASE b = c
        BY <2>1, <3>3, <4>1 DEF BatchCancelled, Swap!BatchKept, Swap!BatchRecords
      <4>2. CASE b # c
        BY <2>1, <3>3, <4>2 DEF BatchCancelled, Swap!BatchKept
      <4>3. QED
        BY <4>1, <4>2
    <3>4. QED
      BY <2>2, <2>3, <3>1, <3>2, <3>3 DEF BatchEffect
  <2>4. QED
    BY <2>2, <2>3, SwapEffect
    DEF FundingNext, PoolStep, SwapStep, allVars, swapOnly
<1>2. QED
  BY <1>1, JointInvariance, PTL DEF FundingSpec, BatchStands


-----------------------------------------------------------------------------
(* What a vault is short of: executing a batch adds to the vault what it    *)
(* adds to the batch, and a claim adds to what was paid what it takes.      *)

LEMMA FiniteBatches == IsFiniteSet(Swap!BatchIds)
  BY FundingAssumption, FiniteAssumption, FS_Product DEF Swap!BatchIds

\* What a batch brings to a vault, by batch.
Brings(v) == [b \in Swap!BatchIds |-> IF batch[b].vault = v THEN batch[b].funded ELSE 0]

LEMMA BringsNat == Swap!SwapTypeOK => \A v : Brings(v) \in [Swap!BatchIds -> Nat] /\ BroughtTo(v) \in Nat
<1> SUFFICES ASSUME Swap!SwapTypeOK, NEW v
             PROVE Brings(v) \in [Swap!BatchIds -> Nat] /\ BroughtTo(v) \in Nat
  OBVIOUS
<1>1. Brings(v) \in [Swap!BatchIds -> Nat]
  BY DEF Brings, Swap!SwapTypeOK, Swap!BatchRecords
<1>2. PICK f : f = Brings(v)
  OBVIOUS
<1>3. SumFunctionOnSet(f, Swap!BatchIds) \in Nat
  BY <1>1, <1>2, FiniteBatches, SumIsNat
<1> QED
  BY <1>1, <1>2, <1>3 DEF BroughtTo, Brings, SumFunction

LEMMA VaultStart == FundingInit => VaultOwesNothing
<1> SUFFICES ASSUME FundingInit PROVE VaultOwesNothing
  OBVIOUS
<1> USE FiniteAssumption, FinitePositions, FiniteBatches DEF FundingInit
<1>1. \A v : BroughtTo(v) = 0
  <2> SUFFICES ASSUME NEW v PROVE BroughtTo(v) = 0
    OBVIOUS
  <2>1. [b \in Swap!BatchIds |-> IF batch[b].vault = v THEN batch[b].funded ELSE 0] = [b \in Swap!BatchIds |-> 0]
    BY DEF Swap!SwapInit, Swap!NoBatch
  <2> QED
    BY <2>1, SumOfZeros DEF BroughtTo
<1>2. \A v \in Vaults : Short(v) = 0
  BY <1>1, StakePoolAssumption DEF Short, Init
<1>3. [v \in Vaults |-> Short(v)] = [v \in Vaults |-> 0] /\ paid = [p \in PositionIds |-> 0]
  BY <1>2 DEF Init
<1>4. SumFunction([v \in Vaults |-> Short(v)]) = SumFunction(paid)
  BY <1>3, SumOfZeros
<1> QED
  BY <1>2, <1>4 DEF VaultOwesNothing

LEMMA VaultSettle ==
  ASSUME TypeOK, Swap!SwapTypeOK, VaultOwesNothing, NEW o \in Owners, NEW s \in Seeds, NEW a \in ClaimArgs,
         ClaimStakePosition(o, s, a), UNCHANGED swapOnly
  PROVE  VaultOwesNothing'
<1> USE FiniteAssumption, FinitePositions, FiniteBatches
<1>1. a.net \in Nat
  BY ArgumentsAreNat DEF ClaimArgs
<1>2. PICK v0 : v0 = config.vault
  OBVIOUS
<1>3. v0 \in Vaults
  BY <1>2 DEF TypeOK, ConfigRecords
<1>4. vaultBalance' = [vaultBalance EXCEPT ![v0] = @ - a.net] /\ paid' = [paid EXCEPT ![<<o, s>>] = @ + a.net]
  BY <1>2 DEF ClaimStakePosition
<1>5. \A v : BroughtTo(v)' = BroughtTo(v) /\ BroughtTo(v) \in Nat
  <2>1. \A v : BroughtTo(v)' = BroughtTo(v)
    BY DEF BroughtTo, swapOnly
  <2> QED
    BY <2>1, BringsNat
<1>6. \A v \in Vaults \ {v0} : Short(v)' = Short(v)
  BY <1>4, <1>5 DEF Short, TypeOK
<1>7. Short(v0)' = Short(v0) + a.net
  <2>1. vaultBalance'[v0] = vaultBalance[v0] - a.net /\ vaultBalance[v0] \in Nat /\ InitialVault \in Nat
    BY <1>3, <1>4, StakePoolAssumption DEF TypeOK
  <2> QED
    BY <2>1, <1>1, <1>5 DEF Short
<1>8. \A v \in Vaults : Short(v) \in Nat
  BY <1>5, StakePoolAssumption DEF Short, TypeOK, VaultOwesNothing
<1>9. \A v \in Vaults : Short(v)' \in Nat
  BY <1>1, <1>6, <1>7, <1>8
<1>10. SumFunction([v \in Vaults |-> Short(v)])' = SumFunction([v \in Vaults |-> Short(v)]) + a.net
  <2>1. PICK f, h : f = [v \in Vaults |-> Short(v)] /\ h = [v \in Vaults |-> Short(v)']
    OBVIOUS
  <2>2. f \in [Vaults -> Nat] /\ h \in [Vaults -> Nat]
    BY <2>1, <1>8, <1>9
  <2>3. h[v0] = f[v0] + a.net /\ \A x \in Vaults \ {v0} : f[x] = h[x]
    BY <2>1, <1>3, <1>6, <1>7
  <2>4. SumFunction(h) = SumFunction(f) + a.net
    BY <2>2, <2>3, <1>1, <1>3, AddedOnce
  <2> QED
    BY <2>1, <2>4
<1>11. SumFunction(paid)' = SumFunction(paid) + a.net
  <2>1. PICK f, h : f = paid /\ h = paid'
    OBVIOUS
  <2>2. PICK y \in PositionIds : y = <<o, s>>
    BY DEF PositionIds
  <2>3. f \in [PositionIds -> Nat] /\ h = [f EXCEPT ![y] = @ + a.net]
    BY <2>1, <2>2, <1>4 DEF TypeOK
  <2>4. f \in [PositionIds -> Nat] /\ h \in [PositionIds -> Nat] /\ h[y] = f[y] + a.net
        /\ \A x \in PositionIds \ {y} : f[x] = h[x]
    BY <2>3, <1>1
  <2>5. SumFunction(h) = SumFunction(f) + a.net
    BY <2>4, <1>1, AddedOnce
  <2> QED
    BY <2>1, <2>5
<1>12. \A v \in Vaults : Short(v)' >= 0
  BY <1>9
<1> QED
  BY <1>10, <1>11, <1>12 DEF VaultOwesNothing

\* A step that leaves what every vault is short of leaves the rest too.
LEMMA VaultRests ==
  ASSUME VaultOwesNothing, \A v \in Vaults : Short(v)' = Short(v), paid' = paid
  PROVE  VaultOwesNothing'
<1>1. [v \in Vaults |-> Short(v)]' = [v \in Vaults |-> Short(v)]
  OBVIOUS
<1> QED
  BY <1>1 DEF VaultOwesNothing

LEMMA VaultFunded ==
  ASSUME TypeOK, Swap!SwapTypeOK, Swap!SwapTypeOK', BatchPaysOnce, Swap!SwapNext
  PROVE  \A v \in Vaults : Short(v)' = Short(v)
<1> USE FiniteBatches DEF Swap!SwapTypeOK
<1>0. \A w : (\A b \in Swap!BatchIds : Brings(w)'[b] = Brings(w)[b]) => BroughtTo(w)' = BroughtTo(w)
  <2> SUFFICES ASSUME NEW w, \A b \in Swap!BatchIds : Brings(w)'[b] = Brings(w)[b]
               PROVE BroughtTo(w)' = BroughtTo(w)
    OBVIOUS
  <2>1. Brings(w)' = Brings(w)
    BY DEF Brings
  <2> QED
    BY <2>1 DEF BroughtTo, Brings
<1>1. ASSUME NEW op \in Signers, NEW ms \in Signers, NEW m \in RaMints,
             NEW v \in Vaults, Swap!InitializeSwapNode(op, ms, m, v)
      PROVE  \A x \in Vaults : Short(x)' = Short(x)
  BY <1>1 DEF Swap!InitializeSwapNode, Short, BroughtTo
<1>2. ASSUME NEW s \in Signers, NEW m \in RaMints, NEW v \in Vaults,
             Swap!UpdateSwapNodeConfig(s, m, v)
      PROVE  \A x \in Vaults : Short(x)' = Short(x)
  BY <1>2 DEF Swap!UpdateSwapNodeConfig, Short, BroughtTo
<1>3. ASSUME NEW s \in Signers, NEW m \in RaMints, NEW seed \in BatchSeeds,
             NEW x \in BatchAmounts, NEW y \in BatchAmounts,
             Swap!ApproveFundingBatch(s, m, seed, x, y)
      PROVE  \A w \in Vaults : Short(w)' = Short(w)
  <2>1. PICK c \in Swap!BatchIds : c = <<m, seed>>
    BY DEF Swap!BatchIds
  <2>2. batch[c].funded = 0 /\ batch'[c].funded = 0 /\ \A b \in Swap!BatchIds \ {c} : batch'[b] = batch[b]
    BY <1>3, <2>1 DEF Swap!ApproveFundingBatch, Swap!Fresh, BatchPaysOnce, Swap!BatchPaysOnce
  <2>3. \A w : \A b \in Swap!BatchIds : Brings(w)'[b] = Brings(w)[b]
    BY <2>2 DEF Brings
  <2>4. vaultBalance' = vaultBalance
    BY <1>3 DEF Swap!ApproveFundingBatch
  <2> QED
    BY <1>0, <2>3, <2>4 DEF Short
<1>4. ASSUME NEW s \in Signers, NEW m \in RaMints, NEW seed \in BatchSeeds,
             NEW v \in Vaults, NEW x \in BatchAmounts,
             Swap!ExecuteFundingBatch(s, m, seed, v, x)
      PROVE  \A w \in Vaults : Short(w)' = Short(w)
  <2>1. PICK c \in Swap!BatchIds : c = <<m, seed>>
    BY DEF Swap!BatchIds
  <2>2. batch[c] \in Swap!BatchRecords /\ x \in Nat
    BY FundingAssumption
  <2>3. /\ batch[c].funded = 0 /\ batch'[c].funded = x
        /\ batch'[c].vault = v /\ batch[c].vault = v
        /\ \A b \in Swap!BatchIds \ {c} : batch'[b] = batch[b]
    BY <1>4, <2>1, <2>2 DEF Swap!ExecuteFundingBatch, Swap!Ready, Swap!VaultStands, BatchPaysOnce,
       Swap!BatchPaysOnce, Swap!BatchRecords
  <2>4. vaultBalance' = [vaultBalance EXCEPT ![v] = @ + x]
    BY <1>4 DEF Swap!ExecuteFundingBatch
  <2>5. ASSUME NEW w \in Vaults, w # v PROVE Short(w)' = Short(w)
    <3>1. \A b \in Swap!BatchIds : Brings(w)'[b] = Brings(w)[b]
      BY <2>3, <2>5 DEF Brings
    <3>2. vaultBalance'[w] = vaultBalance[w]
      BY <2>4, <2>5
    <3> QED
      BY <1>0, <3>1, <3>2 DEF Short
  <2>6. BroughtTo(v)' = BroughtTo(v) + x
    <3>1. PICK f, h : f = Brings(v) /\ h = Brings(v)'
      OBVIOUS
    <3>2. f \in [Swap!BatchIds -> Nat] /\ h \in [Swap!BatchIds -> Nat]
      <4>1. \A b \in Swap!BatchIds : batch[b] \in Swap!BatchRecords /\ batch'[b] \in Swap!BatchRecords
        OBVIOUS
      <4> QED
        BY <3>1, <4>1 DEF Brings, Swap!BatchRecords
    <3>3. h[c] = f[c] + x /\ \A b \in Swap!BatchIds \ {c} : f[b] = h[b]
      BY <3>1, <2>2, <2>3 DEF Brings
    <3>4. SumFunction(h) = SumFunction(f) + x
      BY <2>2, <3>2, <3>3, AddedOnce
    <3> QED
      BY <3>1, <3>4 DEF BroughtTo, Brings
  <2>7. Short(v)' = Short(v)
    <3>1. vaultBalance'[v] = vaultBalance[v] + x /\ vaultBalance[v] \in Nat /\ InitialVault \in Nat
      BY <2>2, <2>4, StakePoolAssumption
    <3>2. BroughtTo(v) \in Nat
      BY BringsNat
    <3> QED
      BY <2>2, <2>6, <3>1, <3>2 DEF Short
  <2> QED
    BY <2>5, <2>7
<1>5. ASSUME NEW s \in Signers, NEW m \in RaMints, NEW seed \in BatchSeeds,
             Swap!CancelFundingBatch(s, m, seed)
      PROVE  \A w \in Vaults : Short(w)' = Short(w)
  <2>1. PICK c \in Swap!BatchIds : c = <<m, seed>>
    BY DEF Swap!BatchIds
  <2>2. batch[c] \in Swap!BatchRecords
    OBVIOUS
  <2>3. [batch[c] EXCEPT !.status = "Cancelled"].funded = batch[c].funded
        /\ [batch[c] EXCEPT !.status = "Cancelled"].vault = batch[c].vault
    BY <2>2 DEF Swap!BatchRecords
  <2>4. /\ batch'[c].funded = batch[c].funded /\ batch'[c].vault = batch[c].vault
        /\ \A b \in Swap!BatchIds \ {c} : batch'[b] = batch[b]
    BY <1>5, <2>1, <2>3 DEF Swap!CancelFundingBatch
  <2>5. \A w : \A b \in Swap!BatchIds : Brings(w)'[b] = Brings(w)[b]
    BY <2>4 DEF Brings
  <2>6. vaultBalance' = vaultBalance
    BY <1>5 DEF Swap!CancelFundingBatch
  <2> QED
    BY <1>0, <2>5, <2>6 DEF Short
<1> QED
  BY <1>1, <1>2, <1>3, <1>4, <1>5 DEF Swap!SwapNext

LEMMA VaultStep ==
  ASSUME JointInv, JointInv', VaultOwesNothing, [FundingNext]_allVars
  PROVE  VaultOwesNothing'
<1> USE DEF JointInv, IInv, BatchIInv
<1>1. CASE SwapStep
  BY <1>1, VaultFunded, VaultRests DEF SwapStep
<1>2. CASE PoolStep \/ UNCHANGED allVars
  <2>1. [Next]_vars /\ UNCHANGED swapOnly
    BY <1>2 DEF PoolStep, allVars
  <2>2. ASSUME UNCHANGED <<vaultBalance, paid>> PROVE VaultOwesNothing'
    BY <2>1, <2>2, VaultRests DEF Short, BroughtTo, swapOnly
  <2>3. ASSUME NEW o \in Owners, NEW s \in Seeds, NEW mint \in Mints, NEW a \in CreateArgs,
               CreateStakePosition(o, s, mint, a)
        PROVE  UNCHANGED <<vaultBalance, paid>>
    BY <2>3 DEF CreateStakePosition, ghostVars
  <2>4. ASSUME NEW o \in Owners, NEW s \in Seeds, NEW a \in ClaimArgs, ClaimStakePosition(o, s, a)
        PROVE  VaultOwesNothing'
    BY <2>1, <2>4, VaultSettle
  <2>5. ASSUME Admin \/ Tick \/ UNCHANGED vars PROVE UNCHANGED <<vaultBalance, paid>>
    BY <2>5 DEF Admin, Tick, vars, InitializeGlobalConfig, UpdateGlobalConfig, UpsertTokenStakeConfig,
       balanceVars, ghostVars
  <2> QED
    BY <2>1, <2>2, <2>3, <2>4, <2>5 DEF Next, Stakers
<1> QED
  BY <1>1, <1>2 DEF FundingNext

LEMMA VaultInvariance == FundingSpec => []VaultOwesNothing
<1>1. JointInv /\ JointInv' /\ VaultOwesNothing /\ [FundingNext]_allVars => VaultOwesNothing'
  BY VaultStep
<1> QED
  BY <1>1, VaultStart, JointInvariance, PTL DEF FundingSpec

-----------------------------------------------------------------------------
(* The administrator's tab.                                                 *)

\* Whoever leaves or has left has the marker set and no profile on its way: this is what
\* keeps the store from asking who is signed in.
AwayIsMarked ==
    (leaving = "sent" \/ gone) /\ ~overtaken => marker /\ profile = "none"

TabInv == AwayIsMarked /\ SignedOutStays

LEMMA TabStep == TabInv /\ [AdminSessionNext]_adminSessionVars => TabInv'
<1> SUFFICES ASSUME TabInv, [AdminSessionNext]_adminSessionVars PROVE TabInv'
  OBVIOUS
<1> USE DEF TabInv, AwayIsMarked, SignedOutStays
<1>1. CASE UNCHANGED adminSessionVars
  BY <1>1 DEF adminSessionVars
<1>2. ASSUME NEW where \in {"login", "panel"}, Visit(where) PROVE TabInv'
  BY <1>2 DEF Visit, MayAsk
<1>3. CASE Redirect
  BY <1>3 DEF Redirect, LoadProfile, MayAsk
<1>4. CASE ProfileServed \/ ProfileAccepted \/ ProfileRefused \/ ProfileLost
  BY <1>4 DEF ProfileServed, ProfileAccepted, ProfileRefused, ProfileLost
<1>5. CASE AskChallenge \/ Verified \/ OtherTabSignsIn
  BY <1>5 DEF AskChallenge, Verified, OtherTabSignsIn
<1>6. CASE SignedIn
  BY <1>6 DEF SignedIn
<1>7. CASE SignInFails
  BY <1>7 DEF SignInFails
<1>8. CASE Leave
  BY <1>8 DEF Leave, MarkSignedOut
<1>9. CASE Left
  BY <1>9 DEF Left, MarkSignedOut
<1> QED
  BY <1>1, <1>2, <1>3, <1>4, <1>5, <1>6, <1>7, <1>8, <1>9 DEF AdminSessionNext

LEMMA TabInvariance == AdminSessionSpec => []TabInv
<1>1. AdminSessionInit => TabInv
  BY DEF AdminSessionInit, TabInv, AwayIsMarked, SignedOutStays
<1>2. QED
  BY <1>1, TabStep, PTL DEF AdminSessionSpec

-----------------------------------------------------------------------------
(* Accounts.                                                                *)

\* A request no other has written across still stands on the row it read, and when it
\* takes a super admin away another one was counted and is there.
StandsOnWhatItRead ==
    \A r \in Edits \ crossed : LET q == edit[r] IN
        /\ q.pc # "idle" /\ q.kind # "create" => q.target \in Holders /\ account[q.target] = q.found
        /\ q.pc = "writing" /\ Demotes(q) => AnotherSuper(q)

\* An open request is about a wallet, and found a row there.
FoundSomething ==
    \A r \in Edits : edit[r].pc # "idle" => edit[r].target \in Holders /\ edit[r].found # Gone

AccountsInv == AccountsTypeOK /\ FoundSomething /\ StandsOnWhatItRead /\ SuperAdminRemainsUnraced

\* Open requests ask for what may be asked.
LEMMA AskedFor ==
  ASSUME NEW ask \in Asks
  PROVE  ask.role \in Roles \cup {Unasked} /\ ask.active \in BOOLEAN \cup {Unasked}
  BY AccountsAssumption

LEMMA AccountsTypeStep ==
  AccountsTypeOK /\ FoundSomething /\ [AccountsNext]_accountVars => AccountsTypeOK' /\ FoundSomething'
<1> SUFFICES ASSUME AccountsTypeOK, FoundSomething, [AccountsNext]_accountVars
             PROVE  AccountsTypeOK' /\ FoundSomething'
  OBVIOUS
<1> USE AccountsAssumption DEF AccountsTypeOK, FoundSomething, AccountRows, Gone
<1>1. CASE UNCHANGED accountVars
  BY <1>1 DEF accountVars
<1>2. ASSUME NEW a \in Holders, SignIn(a) \/ TokenExpires(a) \/ DeleteCustomRole(a)
      PROVE  AccountsTypeOK' /\ FoundSomething'
  <2>1. CASE SignIn(a)
    BY <2>1 DEF SignIn
  <2>2. CASE TokenExpires(a)
    BY <2>2 DEF TokenExpires
  <2>3. CASE DeleteCustomRole(a)
    <3>1. \A b \in Holders : [account[b] EXCEPT !.role = "VIEWER"] \in AccountRows \/ account[b] = Gone
      BY DEF Roles
    <3>2. account' \in [Holders -> AccountRows] /\ \A b \in Holders : account'[b].role # "CUSTOM"
      BY <2>3, <3>1 DEF DeleteCustomRole
    <3>3. UNCHANGED <<token, edit, raced>> /\ custom' = FALSE /\ crossed' \subseteq Edits
      BY <2>3 DEF DeleteCustomRole
    <3>4. QED
      BY <3>2, <3>3
  <2>4. QED
    BY <1>2, <2>1, <2>2, <2>3
<1>3. ASSUME NEW r \in Edits, NEW by \in Holders, NEW a \in Holders,
             BeginUpdate(r, by, a) \/ BeginCreate(r, by, a) \/ BeginDelete(r, by, a)
      PROVE  AccountsTypeOK' /\ FoundSomething'
  <2>1. CASE BeginUpdate(r, by, a)
    BY <2>1, AskedFor DEF BeginUpdate, Open
  <2>2. CASE BeginCreate(r, by, a)
    BY <2>2, AskedFor DEF BeginCreate, Open, NewAdmin, Roles
  <2>3. CASE BeginDelete(r, by, a)
    BY <2>3 DEF BeginDelete, Open, NoEdit
  <2>4. QED
    BY <1>3, <2>1, <2>2, <2>3
<1>4. ASSUME NEW r \in Edits, ResolveRole(r) \/ CountOthers(r) \/ WriteFails(r)
      PROVE  AccountsTypeOK' /\ FoundSomething'
  <2> DEFINE EditRecords ==
        [pc: {"idle", "resolving", "counting", "writing"}, kind: {"update", "create", "delete"},
         target: Holders \cup {Unasked}, found: AccountRows, askedRole: Roles \cup {Unasked},
         askedActive: BOOLEAN \cup {Unasked}]
  <2>0. edit \in [Edits -> EditRecords] /\ NoEdit \in EditRecords
        /\ \A pc \in {"counting", "writing"} : [edit[r] EXCEPT !.pc = pc] \in EditRecords
    BY DEF NoEdit
  <2>1. CASE ResolveRole(r)
    <3>1. PICK pc \in {"counting", "writing"} : edit' = [edit EXCEPT ![r] = [edit[r] EXCEPT !.pc = pc]]
      BY <2>0, <2>1 DEF ResolveRole
    <3>2. edit[r].pc = "resolving" /\ UNCHANGED <<account, token, crossed, raced>>
          /\ custom' \in BOOLEAN /\ (custom => custom')
      BY <2>1 DEF ResolveRole
    <3>3. edit' \in [Edits -> EditRecords] /\ FoundSomething'
      BY <2>0, <3>1, <3>2
    <3>4. QED
      BY <3>2, <3>3
  <2>2. CASE CountOthers(r)
    <3>1. edit[r].pc = "counting" /\ UNCHANGED <<account, custom, token, crossed, raced>>
      BY <2>2 DEF CountOthers
    <3>2. PICK q \in {NoEdit, [edit[r] EXCEPT !.pc = "writing"]} : edit' = [edit EXCEPT ![r] = q]
      BY <2>2 DEF CountOthers
    <3>3. edit' \in [Edits -> EditRecords] /\ FoundSomething'
      BY <2>0, <3>1, <3>2 DEF NoEdit
    <3>4. QED
      BY <3>1, <3>3
  <2>3. CASE WriteFails(r)
    BY <2>3 DEF WriteFails, NoEdit
  <2>4. QED
    BY <1>4, <2>1, <2>2, <2>3
<1>5. ASSUME NEW r \in Edits, Write(r) PROVE AccountsTypeOK' /\ FoundSomething'
  <2> DEFINE q == edit[r]
  <2>1. /\ q.pc = "writing" /\ Accepts(q) /\ q.found \in AccountRows
        /\ account' = [account EXCEPT ![q.target] = Written(q)]
        /\ custom' = custom /\ token' = token
        /\ raced' = (raced \/ r \in crossed)
        /\ crossed' = crossed \cup {o \in Edits \ {r} : edit[o].pc # "idle"}
        /\ edit' = [edit EXCEPT ![r] = NoEdit]
    BY <1>5 DEF Write
  <2>2. Written(q) \in AccountRows /\ (Written(q).role = "CUSTOM" => custom)
    <3>1. q.found \in [role: Roles, active: BOOLEAN]
      BY <2>1
    <3>2. q.found.role \in Roles /\ q.found.active \in BOOLEAN
      BY <3>1
    <3>3. q.askedRole \in Roles \cup {Unasked} /\ q.askedActive \in BOOLEAN \cup {Unasked}
      OBVIOUS
    <3>4. NextRole(q) \in Roles
      BY <3>2, <3>3 DEF NextRole, Orelse
    <3>5. NextActive(q) \in BOOLEAN
      BY <3>2, <3>3 DEF NextActive, Orelse
    <3>6. QED
      BY <2>1, <3>4, <3>5 DEF Accepts, RoleThere, Written
  <2>3. account' \in [Holders -> AccountRows] /\ custom' \in BOOLEAN
    BY <2>1, <2>2
  <2>4. \A a \in Holders : account'[a].role = "CUSTOM" => custom'
    BY <2>1, <2>2
  <2>5. raced' \in BOOLEAN /\ token' \subseteq Holders /\ crossed' \subseteq Edits
    BY <2>1
  <2>6. QED
    BY <2>1, <2>3, <2>4, <2>5 DEF NoEdit
<1> QED
  BY <1>1, <1>2, <1>3, <1>4, <1>5 DEF AccountsNext

LEMMA StandsStep ==
  AccountsInv /\ [AccountsNext]_accountVars => StandsOnWhatItRead' /\ SuperAdminRemainsUnraced'
<1> SUFFICES ASSUME AccountsInv, [AccountsNext]_accountVars
             PROVE  StandsOnWhatItRead' /\ SuperAdminRemainsUnraced'
  OBVIOUS
<1> USE DEF StandsOnWhatItRead, SuperAdminRemainsUnraced
<1>1. CASE UNCHANGED accountVars
  BY <1>1 DEF accountVars, AccountsInv, SomeSuperAdmin, AnotherSuper
<1>2. ASSUME NEW a \in Holders, SignIn(a) \/ TokenExpires(a)
      PROVE  StandsOnWhatItRead' /\ SuperAdminRemainsUnraced'
  BY <1>2 DEF SignIn, TokenExpires, AccountsInv, SomeSuperAdmin, AnotherSuper
<1>3. ASSUME NEW a \in Holders, DeleteCustomRole(a)
      PROVE  StandsOnWhatItRead' /\ SuperAdminRemainsUnraced'
  <2>1. \A b \in Holders : IsSuper(account[b]) => IsSuper(account'[b])
    BY <1>3 DEF DeleteCustomRole, IsSuper
  <2>2. UNCHANGED <<edit, raced>> /\ crossed' = crossed \cup {o \in Edits : edit[o].pc # "idle"}
    BY <1>3 DEF DeleteCustomRole
  <2>3. QED
    BY <2>1, <2>2 DEF AccountsInv, SomeSuperAdmin
<1>4. ASSUME NEW r \in Edits, NEW q, Open(r, q), q.target \in Holders,
             q.kind # "create" => account[q.target] = q.found,
             q.pc = "writing" => ~Demotes(q)
      PROVE  StandsOnWhatItRead' /\ SuperAdminRemainsUnraced'
  BY <1>4 DEF Open, AccountsInv, AccountsTypeOK, SomeSuperAdmin, AnotherSuper
<1>5. ASSUME NEW r \in Edits, NEW by \in Holders, NEW a \in Holders,
             BeginUpdate(r, by, a) \/ BeginCreate(r, by, a) \/ BeginDelete(r, by, a)
      PROVE  StandsOnWhatItRead' /\ SuperAdminRemainsUnraced'
  <2>1. CASE BeginUpdate(r, by, a)
    BY <1>4, <2>1 DEF BeginUpdate
  <2>2. CASE BeginCreate(r, by, a)
    BY <1>4, <2>2 DEF BeginCreate
  <2>3. CASE BeginDelete(r, by, a)
    BY <1>4, <2>3 DEF BeginDelete, NoEdit, Demotes
  <2>4. QED
    BY <1>5, <2>1, <2>2, <2>3
<1>6. ASSUME NEW r \in Edits, ResolveRole(r) PROVE StandsOnWhatItRead' /\ SuperAdminRemainsUnraced'
  BY <1>6 DEF ResolveRole, Demotes, NextRole, NextActive, AccountsInv, AccountsTypeOK, SomeSuperAdmin, AnotherSuper
<1>7. ASSUME NEW r \in Edits, CountOthers(r) PROVE StandsOnWhatItRead' /\ SuperAdminRemainsUnraced'
  BY <1>7 DEF CountOthers, NoEdit, Demotes, NextRole, NextActive, AccountsInv, AccountsTypeOK, SomeSuperAdmin, AnotherSuper
<1>8. ASSUME NEW r \in Edits, WriteFails(r) PROVE StandsOnWhatItRead' /\ SuperAdminRemainsUnraced'
  BY <1>8 DEF WriteFails, NoEdit, AccountsInv, AccountsTypeOK, SomeSuperAdmin, AnotherSuper
<1>9. ASSUME NEW r \in Edits, Write(r) PROVE StandsOnWhatItRead' /\ SuperAdminRemainsUnraced'
  <2> DEFINE q == edit[r]
  <2>1. /\ q.pc = "writing" /\ Accepts(q)
        /\ account' = [account EXCEPT ![q.target] = Written(q)]
        /\ raced' = (raced \/ r \in crossed)
        /\ crossed' = crossed \cup {o \in Edits \ {r} : edit[o].pc # "idle"}
        /\ edit' = [edit EXCEPT ![r] = NoEdit]
    BY <1>9 DEF Write
  <2>2. StandsOnWhatItRead'
    BY <2>1 DEF AccountsInv, AccountsTypeOK, NoEdit
  <2>3. ASSUME ~raced' PROVE SomeSuperAdmin'
    <3>1. ~raced /\ r \notin crossed /\ SomeSuperAdmin
      BY <2>1, <2>3 DEF AccountsInv
    <3>2. q.target \in Holders /\ account \in [Holders -> AccountRows] /\ q.kind \in {"update", "create", "delete"}
      BY <2>1 DEF AccountsInv, AccountsTypeOK, FoundSomething
    <3>3. CASE Demotes(q)
      <4>1. AnotherSuper(q)
        BY <2>1, <3>1, <3>3 DEF AccountsInv
      <4>2. QED
        BY <2>1, <3>2, <4>1 DEF AnotherSuper, SomeSuperAdmin
    <3>4. CASE ~Demotes(q) /\ IsSuper(account[q.target])
      <4>1. q.kind = "update" /\ account[q.target] = q.found
        BY <2>1, <3>1, <3>2, <3>4 DEF AccountsInv, Accepts, RowThere, IsSuper, Gone, Demotes
      <4>2. IsSuper(Written(q))
        BY <3>4, <4>1 DEF Demotes, IsSuper, Written
      <4>3. QED
        BY <2>1, <3>2, <4>2 DEF SomeSuperAdmin
    <3>5. CASE ~IsSuper(account[q.target])
      BY <2>1, <3>1, <3>2, <3>5 DEF SomeSuperAdmin
    <3>6. QED
      BY <3>3, <3>4, <3>5
  <2>4. QED
    BY <2>2, <2>3
<1> QED
  BY <1>1, <1>2, <1>3, <1>5, <1>6, <1>7, <1>8, <1>9 DEF AccountsNext

LEMMA AccountsInvariance == AccountsSpec => []AccountsInv
<1>1. AccountsInit => AccountsInv
  <2> SUFFICES ASSUME AccountsInit PROVE AccountsInv
    OBVIOUS
  <2>1. account \in [Holders -> AccountRows] /\ \A a \in Holders : account[a].role # "CUSTOM"
    BY DEF AccountsInit, AccountRows, Roles, Gone
  <2>2. SomeSuperAdmin
    BY AccountsAssumption DEF AccountsInit, SomeSuperAdmin, IsSuper
  <2>3. NoEdit \in [pc: {"idle", "resolving", "counting", "writing"},
                    kind: {"update", "create", "delete"}, target: Holders \cup {Unasked},
                    found: AccountRows, askedRole: Roles \cup {Unasked},
                    askedActive: BOOLEAN \cup {Unasked}]
    BY DEF NoEdit, AccountRows
  <2>4. QED
    BY <2>1, <2>2, <2>3 DEF AccountsInit, AccountsInv, AccountsTypeOK, FoundSomething, NoEdit,
       StandsOnWhatItRead, SuperAdminRemainsUnraced
<1>2. AccountsInv /\ [AccountsNext]_accountVars => AccountsInv'
  BY AccountsTypeStep, StandsStep DEF AccountsInv
<1>3. QED
  BY <1>1, <1>2, PTL DEF AccountsSpec

LEMMA UpdatesStep ==
  ASSUME AccountsInv, AccountsNext, NEW r \in Edits, edit[r].kind = "update",
         edit[r].pc = "writing", account'[edit[r].target] # account[edit[r].target],
         edit'[r].pc = "idle", ~raced'
  PROVE  /\ edit[r].askedRole = Unasked => account'[edit[r].target].role = account[edit[r].target].role
         /\ edit[r].askedActive = Unasked => account'[edit[r].target].active = account[edit[r].target].active
<1>1. Write(r)
  BY DEF AccountsNext, AccountsInv, AccountsTypeOK, SignIn, TokenExpires, DeleteCustomRole, BeginUpdate,
         BeginCreate, BeginDelete, Open, ResolveRole, CountOthers, Write, WriteFails
<1>2. r \notin crossed /\ account[edit[r].target] = edit[r].found /\ edit[r].target \in Holders
  BY <1>1 DEF Write, AccountsInv, StandsOnWhatItRead
<1>3. account'[edit[r].target] = Written(edit[r])
  BY <1>1, <1>2 DEF Write, AccountsInv, AccountsTypeOK
<1>4. QED
  BY <1>2, <1>3 DEF Written, NextRole, NextActive, Orelse


-----------------------------------------------------------------------------
(* The panels.                                                              *)

Changers(k) == {r \in Runs : runs[r].step \in {"asked", "changed"} /\ runs[r].handler.key = k}
LateOf(k) == {w \in late : w.key = k}
Loading(r, k) == runs[r].step = "loading" /\ k \in runs[r].load.keys

\* The changes of this page that its resource still has, and that it has to show.
Owed(k) == mine[k] \cap stored[k]

\* What the data of a page has to be like for it to keep up with its changes: an answer
\* that is not put into what is shown is followed by a load of its resource.
KeepsUp(h) ==
    /\ h.key \in KeysHere /\ h.then.keys \subseteq KeysHere
    /\ h.whole => h.applies
    /\ h.applies \/ h.key \in h.then.keys
GoodHandler(h) == h.whole \in BOOLEAN /\ KeepsUp(h)

\* Everything that is shown, stored, sent or answered is a change that was made.
Made == SUBSET (1..changes)
GetRecords == [stage: {"idle", "sent", "answered"}, keeps: BOOLEAN, answer: Made, waiting: SUBSET Runs]
MemoRecords == [known: BOOLEAN, answer: Made]
RunShape(x) ==
    /\ {"step", "load", "handler", "need", "got", "sent"} \subseteq DOMAIN x
    /\ x.step \in {"none", "asked", "changed", "loading"} /\ x.sent \in Made
    /\ x.step \in {"asked", "changed"} => GoodHandler(x.handler)
    /\ x.step = "changed" => x.got[x.handler.key] \in Made
    /\ x.step = "loading" => /\ x.load.keys \subseteq KeysHere
                             /\ x.need \subseteq x.load.keys /\ x.need # {}
                             /\ x.got \in [x.load.keys -> Made]

PanelShape ==
    /\ page \in Pages /\ changes \in Nat
    /\ stored \in [KeysHere -> Made] /\ shown \in [KeysHere -> Made] /\ mine \in [KeysHere -> Made]
    /\ memo \in [KeysHere -> MemoRecords]
    /\ gets \in [KeysHere -> GetRecords]
    /\ \A k \in KeysHere : gets[k].stage = "idle" => gets[k].waiting = {}
    /\ runs = [r \in Runs |-> runs[r]] /\ \A r \in Runs : RunShape(runs[r])
    /\ \A w \in late : w.key \in KeysHere /\ w.sent \in Made

\* Who waits for a call is a load that needs its answer.
WaitersNeed ==
    \A r \in Runs, k \in KeysHere :
        r \in gets[k].waiting <=> runs[r].step = "loading" /\ k \in runs[r].need

\* A resource is changed by one handler at a time, and not while it is read.
OneAtATime(k) ==
    /\ \A r, q \in Changers(k) : r = q
    /\ Changers(k) = {} \/ LateOf(k) = {}
    /\ Changers(k) # {} \/ LateOf(k) # {} => ~Reading(k) /\ ~memo[k].known
    /\ gets[k].stage # "idle" => gets[k].waiting # {}

\* Whatever the page shows next, it has what is owed.
NothingOwedIsLost(k) ==
    /\ memo[k].known => Owed(k) \subseteq memo[k].answer
    /\ gets[k].stage = "answered" => Owed(k) \subseteq gets[k].answer
    /\ \A r \in Runs : Loading(r, k) /\ k \notin runs[r].need => Owed(k) \subseteq runs[r].got[k]
    /\ Owed(k) \subseteq shown[k] \/ Reading(k)

\* What is on its way to the API takes nothing away that is owed and not shown.
SentIsShown(k) ==
    /\ \A r \in Changers(k) :
         /\ runs[r].step = "asked" => mine[k] \cap runs[r].sent \subseteq shown[k]
         /\ runs[r].step = "changed" /\ runs[r].handler.whole =>
              Owed(k) \cup runs[r].sent \subseteq runs[r].got[k]
    /\ \A w \in LateOf(k) : mine[k] \cap w.sent \subseteq shown[k]

Keeps(k) == OneAtATime(k) /\ NothingOwedIsLost(k) /\ SentIsShown(k)
PanelsInv == PanelShape /\ WaitersNeed /\ \A k \in KeysHere \ mixed : Keeps(k)

\* A handler changes an item or the whole.
LEMMA WholeOrItem ==
  ASSUME NEW key, NEW whole, NEW applies, NEW then, NEW busy
  PROVE  /\ Handler(key, whole, applies, then, busy).whole = whole
         /\ Holding2(Handler(key, whole, applies, then, busy)).whole = whole
  BY DEF Handler, Holding2

LEMMA HandlersAreGood ==
  ASSUME page \in Pages
  PROVE  /\ \A h \in Here.handlers : GoodHandler(h)
         /\ \A l \in Here.loads : l.keys \subseteq KeysHere
<1>1. \A l \in Here.loads : l.keys \subseteq KeysHere
  BY DEF KeysHere
<1>2. CASE page = "news"
  <2>1. Here = NewsPage
    BY <1>2 DEF Here, PageNamed
  <2>2. NewsList.keys \subseteq KeysHere
    BY <1>1, <2>1 DEF NewsPage
  <2>3. {"news"} \subseteq KeysHere
    BY <2>2 DEF NewsList, Load
  <2>4. \A h \in Here.handlers : h.whole = TRUE \/ h.whole = FALSE
    BY <2>1, WholeOrItem DEF NewsPage, NewsSave, NewsToggle, NewsRemove
  <2>5. \A h \in Here.handlers : KeepsUp(h)
    BY <1>1, <2>1, <2>3 DEF NewsPage, KeepsUp, Handler, Load, NoLoad,
       NewsSave, NewsToggle, NewsRemove
  <2>6. QED
    BY <1>1, <2>4, <2>5 DEF GoodHandler, KeepsUp
<1>3. CASE page = "header"
  <2>1. Here = HeaderPage
    BY <1>3 DEF Here, PageNamed
  <2>2. HeaderLoad.keys \subseteq KeysHere
    BY <1>1, <2>1 DEF HeaderPage
  <2>3. {"header"} \subseteq KeysHere
    BY <2>2 DEF HeaderLoad, Load
  <2>4. \A h \in Here.handlers : h.whole = TRUE \/ h.whole = FALSE
    BY <2>1, WholeOrItem DEF HeaderPage, HeaderSave, HeaderReset
  <2>5. \A h \in Here.handlers : KeepsUp(h)
    BY <1>1, <2>1, <2>3 DEF HeaderPage, KeepsUp, Handler, Load, NoLoad,
       HeaderSave, HeaderReset
  <2>6. QED
    BY <1>1, <2>4, <2>5 DEF GoodHandler, KeepsUp
<1>4. CASE page = "maintenance"
  <2>1. Here = MaintenancePage
    BY <1>4 DEF Here, PageNamed
  <2>2. MaintenanceLoad.keys \subseteq KeysHere
    BY <1>1, <2>1 DEF MaintenancePage
  <2>3. {"maintenance"} \subseteq KeysHere
    BY <2>2 DEF MaintenanceLoad, Load
  <2>4. \A h \in Here.handlers : h.whole = TRUE \/ h.whole = FALSE
    BY <2>1 DEF MaintenancePage, MaintenanceSave, Handler
  <2>5. \A h \in Here.handlers : KeepsUp(h)
    BY <1>1, <2>1, <2>3 DEF MaintenancePage, KeepsUp, Handler, Load, NoLoad,
       MaintenanceSave
  <2>6. QED
    BY <1>1, <2>4, <2>5 DEF GoodHandler, KeepsUp
<1>5. CASE page = "docs"
  <2>1. Here = DocsPage
    BY <1>5 DEF Here, PageNamed
  <2>2. DocsLoad.keys \subseteq KeysHere
    BY <1>1, <2>1 DEF DocsPage
  <2>3. {"docs", "docsSettings"} \subseteq KeysHere
    BY <2>2 DEF DocsLoad, Load
  <2>4. \A h \in Here.handlers : h.whole = TRUE \/ h.whole = FALSE
    BY <2>1, WholeOrItem DEF DocsPage, DocsSaveSettings, DocsSaveCategory, DocsSavePage,
       DocsDelete, DocsLoad
  <2>5. \A h \in Here.handlers : KeepsUp(h)
    BY <1>1, <2>1, <2>3 DEF DocsPage, KeepsUp, Handler, Load, NoLoad,
       DocsSaveSettings, DocsSaveCategory, DocsSavePage, DocsDelete, DocsLoad
  <2>6. QED
    BY <1>1, <2>4, <2>5 DEF GoodHandler, KeepsUp
<1>6. CASE page = "users"
  <2>1. Here = UsersPage
    BY <1>6 DEF Here, PageNamed
  <2>2. UsersList.keys \subseteq KeysHere /\ UsersPoll.keys \subseteq KeysHere /\ UsersMetrics.keys \subseteq KeysHere /\ UsersDetail.keys \subseteq KeysHere
    BY <1>1, <2>1 DEF UsersPage
  <2>3. {"metrics", "user", "users"} \subseteq KeysHere
    BY <2>2 DEF UsersList, UsersPoll, UsersMetrics, UsersDetail, Load
  <2>4. \A h \in Here.handlers : h.whole = TRUE \/ h.whole = FALSE
    BY <2>1, WholeOrItem DEF UsersPage, UsersDelete, UsersBlock, UsersList
  <2>5. \A h \in Here.handlers : KeepsUp(h)
    BY <1>1, <2>1, <2>3 DEF UsersPage, KeepsUp, Handler, Load, NoLoad,
       UsersDelete, UsersBlock, UsersList
  <2>6. QED
    BY <1>1, <2>4, <2>5 DEF GoodHandler, KeepsUp
<1>7. CASE page = "control"
  <2>1. Here = ControlPage
    BY <1>7 DEF Here, PageNamed
  <2>2. ControlProxy.keys \subseteq KeysHere /\ ControlAdmins.keys \subseteq KeysHere
    BY <1>1, <2>1 DEF ControlPage
  <2>3. {"admins", "proxy"} \subseteq KeysHere
    BY <2>2 DEF ControlProxy, ControlAdmins, Load
  <2>4. \A h \in Here.handlers : h.whole = TRUE \/ h.whole = FALSE
    BY <2>1, WholeOrItem DEF ControlPage, ControlDraft, ControlPublish, ControlRollback,
       ControlSaveAdmin, ControlDeleteAdmin, ControlCreateAdmin, ControlDeleteRole, ControlAdmins
  <2>5. \A h \in Here.handlers : KeepsUp(h)
    BY <1>1, <2>1, <2>3 DEF ControlPage, KeepsUp, Handler, Load, NoLoad, Holding2,
       ControlDraft, ControlPublish, ControlRollback, ControlSaveAdmin, ControlDeleteAdmin, ControlCreateAdmin, ControlDeleteRole, ControlAdmins
  <2>6. QED
    BY <1>1, <2>4, <2>5 DEF GoodHandler, KeepsUp
<1>8. CASE page = "tokens"
  <2>1. Here = TokensPage
    BY <1>8 DEF Here, PageNamed
  <2>2. TokensList.keys \subseteq KeysHere /\ TokensRuntime.keys \subseteq KeysHere /\ TokensProjection.keys \subseteq KeysHere
    BY <1>1, <2>1 DEF TokensPage
  <2>3. {"configs", "pricing", "tokens"} \subseteq KeysHere
    BY <2>2 DEF TokensList, TokensRuntime, TokensProjection, Load
  <2>4. \A h \in Here.handlers : h.whole = TRUE \/ h.whole = FALSE
    BY <2>1, WholeOrItem DEF TokensPage, TokensSaveRuntime, TokensSync, TokensSave, TokensDelete,
       TokensList, TokensReload
  <2>5. \A h \in Here.handlers : KeepsUp(h)
    BY <1>1, <2>1, <2>3 DEF TokensPage, KeepsUp, Handler, Load, NoLoad,
       TokensSaveRuntime, TokensSync, TokensSave, TokensDelete, TokensList, TokensReload
  <2>6. QED
    BY <1>1, <2>4, <2>5 DEF GoodHandler, KeepsUp
<1>9. CASE page = "ohlc"
  <2>1. Here = OhlcPage
    BY <1>9 DEF Here, PageNamed
  <2>2. OhlcLoad.keys \subseteq KeysHere
    BY <1>1, <2>1 DEF OhlcPage
  <2>3. {"ohlc", "pairs"} \subseteq KeysHere
    BY <2>2 DEF OhlcLoad, Load
  <2>4. \A h \in Here.handlers : h.whole = TRUE \/ h.whole = FALSE
    BY <2>1, WholeOrItem DEF OhlcPage, OhlcSaveRuntime, OhlcSync, OhlcSavePair, OhlcFeature,
       OhlcRemovePair, OhlcCreatePair, OhlcLoad
  <2>5. \A h \in Here.handlers : KeepsUp(h)
    BY <1>1, <2>1, <2>3 DEF OhlcPage, KeepsUp, Handler, Load, NoLoad,
       OhlcSaveRuntime, OhlcSync, OhlcSavePair, OhlcFeature, OhlcRemovePair, OhlcCreatePair, OhlcLoad
  <2>6. QED
    BY <1>1, <2>4, <2>5 DEF GoodHandler, KeepsUp
<1>10. CASE page = "ra"
  <2>1. Here = RaPage
    BY <1>10 DEF Here, PageNamed
  <2>2. RaLoad.keys \subseteq KeysHere
    BY <1>1, <2>1 DEF RaPage
  <2>3. {"header", "ra"} \subseteq KeysHere
    BY <2>2 DEF RaLoad, Load
  <2>4. \A h \in Here.handlers : h.whole = TRUE \/ h.whole = FALSE
    BY <2>1 DEF RaPage, RaSave, Handler
  <2>5. \A h \in Here.handlers : KeepsUp(h)
    BY <1>1, <2>1, <2>3 DEF RaPage, KeepsUp, Handler, Load, NoLoad,
       RaSave
  <2>6. QED
    BY <1>1, <2>4, <2>5 DEF GoodHandler, KeepsUp
<1>11. CASE page = "staking"
  <2>1. Here = StakingPage
    BY <1>11 DEF Here, PageNamed
  <2>2. StakingLoad.keys \subseteq KeysHere
    BY <1>1, <2>1 DEF StakingPage
  <2>3. {"batches", "configs", "staking"} \subseteq KeysHere
    BY <2>2 DEF StakingLoad, Load
  <2>4. \A h \in Here.handlers : h.whole = TRUE \/ h.whole = FALSE
    BY <2>1, WholeOrItem DEF StakingPage, StakingSync, StakingPrepare, StakingExecute, StakingLoad
  <2>5. \A h \in Here.handlers : KeepsUp(h)
    BY <1>1, <2>1, <2>3 DEF StakingPage, KeepsUp, Handler, Load, NoLoad,
       StakingSync, StakingPrepare, StakingExecute, StakingLoad
  <2>6. QED
    BY <1>1, <2>4, <2>5 DEF GoodHandler, KeepsUp
<1>12. CASE page = "metrics"
  BY <1>1, <1>12 DEF Here, PageNamed, MetricsPage
<1>13. CASE page = "audit"
  BY <1>1, <1>13 DEF Here, PageNamed, AuditPage
<1>14. CASE page = "dashboard"
  BY <1>1, <1>14 DEF Here, PageNamed, DashboardPage
<1>15. CASE page = "blog"
  <2>1. Here = BlogPages
    BY <1>15 DEF Here, PageNamed
  <2>2. BlogList.keys \subseteq KeysHere
    BY <1>1, <2>1 DEF BlogPages
  <2>3. {"posts"} \subseteq KeysHere
    BY <2>2 DEF BlogList, Load
  <2>4. \A h \in Here.handlers : h.whole = TRUE \/ h.whole = FALSE
    BY <2>1, WholeOrItem DEF BlogPages, BlogDelete, BlogSave, BlogCreate, BlogList
  <2>5. \A h \in Here.handlers : KeepsUp(h)
    BY <1>1, <2>1, <2>3 DEF BlogPages, KeepsUp, Handler, Load, NoLoad,
       BlogDelete, BlogSave, BlogCreate, BlogList
  <2>6. QED
    BY <1>1, <2>4, <2>5 DEF GoodHandler, KeepsUp
<1> QED
  BY <1>2, <1>3, <1>4, <1>5, <1>6, <1>7, <1>8, <1>9, <1>10, <1>11, <1>12, <1>13, <1>14, <1>15, PanelsAssumption



\* The resources of a page stay, and no change is forgotten.
LEMMA PageStays ==
  ASSUME page' = page, changes \in Nat, changes' \in Nat, changes' >= changes
  PROVE  /\ KeysHere' = KeysHere /\ Here' = Here
         /\ Made \subseteq Made' /\ GetRecords \subseteq GetRecords' /\ MemoRecords \subseteq MemoRecords'
         /\ \A h : GoodHandler(h) => GoodHandler(h)'
         /\ \A x : RunShape(x) => RunShape(x)'
<1>1. KeysHere' = KeysHere /\ Here' = Here
  BY DEF KeysHere, Here, PageNamed
<1>2. Made \subseteq Made'
  BY DEF Made
<1>3. GetRecords \subseteq GetRecords' /\ MemoRecords \subseteq MemoRecords'
  BY <1>2 DEF GetRecords, MemoRecords
<1>4. ASSUME NEW h, GoodHandler(h) PROVE GoodHandler(h)'
  BY <1>1, <1>4 DEF GoodHandler, KeepsUp
<1>5. ASSUME NEW x, RunShape(x) PROVE RunShape(x)'
  <2>1. x.step = "loading" => x.got \in [x.load.keys -> Made']
    BY <1>2, <1>5 DEF RunShape
  <2>2. QED
    BY <1>1, <1>2, <1>4, <1>5, <2>1 DEF RunShape
<1>6. QED
  BY <1>1, <1>2, <1>3, <1>4, <1>5

LEMMA PageRests ==
  ASSUME PanelShape, page' = page, changes' = changes
  PROVE  /\ KeysHere' = KeysHere /\ Made' = Made /\ GetRecords' = GetRecords /\ MemoRecords' = MemoRecords
         /\ \A x : RunShape(x) => RunShape(x)'
<1>1. changes \in Nat /\ changes' \in Nat /\ changes' >= changes
  BY DEF PanelShape
<1>2. KeysHere' = KeysHere /\ \A x : RunShape(x) => RunShape(x)'
  BY <1>1, PageStays
<1>3. Made' = Made /\ GetRecords' = GetRecords /\ MemoRecords' = MemoRecords
  BY DEF Made, GetRecords, MemoRecords
<1>4. QED
  BY <1>2, <1>3

\* A call under way for a resource has somebody waiting who reads it.
LEMMA UnderWayIsRead ==
  ASSUME PanelShape, WaitersNeed, NEW k \in KeysHere, OneAtATime(k), gets[k].stage # "idle"
  PROVE  Reading(k)
  BY DEF PanelShape, WaitersNeed, OneAtATime, Reading, GetRecords, RunShape

LEMMA NothingRuns ==
  /\ NoRun.step = "none" /\ NoRun.sent = {} /\ NoRun.need = {} /\ RunShape(NoRun)
  BY DEF NoRun, RunShape, Made

\* A run begins a load, having changed nothing or shown the answer to its change.
LEMMA LoadBegins ==
  ASSUME PanelsInv, NEW r \in Runs, NEW load, NEW handler, NEW showing,
         BeginLoad(r, load, handler, showing), load.keys \subseteq KeysHere,
         UNCHANGED <<page, stored, memo, late, changes>>,
         showing \in [KeysHere -> Made], mine' \in [KeysHere -> Made],
         runs[r].step \in {"none", "changed"},
         \A k \in KeysHere : r \notin Changers(k) => mine'[k] = mine[k] /\ showing[k] = shown[k],
         \A k \in KeysHere \ mixed : r \in Changers(k) =>
            mine'[k] \cap stored[k] \subseteq showing[k] \/ k \in load.keys
  PROVE  PanelsInv'
<1> DEFINE M == Missing(load)
<1>0. /\ KeysHere' = KeysHere /\ Made' = Made /\ GetRecords' = GetRecords /\ MemoRecords' = MemoRecords
      /\ \A x : RunShape(x) => RunShape(x)'
      /\ M \subseteq load.keys
  BY PageRests DEF PanelsInv, Missing
<1>1. /\ gets' = [k \in KeysHere |-> gets'[k]]
      /\ \A k \in KeysHere : k \notin M => gets'[k] = gets[k]
      /\ \A k \in KeysHere : k \in M /\ gets[k].stage = "idle" =>
            gets'[k] = [stage |-> "sent", keeps |-> k \in load.keeps, answer |-> {}, waiting |-> {r}]
      /\ \A k \in KeysHere : k \in M /\ gets[k].stage # "idle" =>
            gets'[k] = [gets[k] EXCEPT !.waiting = @ \cup {r}]
  <2>1. gets' = AskFor(r, load)
    BY DEF BeginLoad
  <2> DEFINE Asked(k) == [stage |-> "sent", keeps |-> k \in load.keeps, answer |-> {}, waiting |-> {r}]
  <2> DEFINE Joined(k) == [gets[k] EXCEPT !.waiting = @ \cup {r}]
  <2> HIDE DEF M
  <2>2. AskFor(r, load) =
         [k \in KeysHere |->
            CASE k \notin M -> gets[k]
              [] k \in M /\ gets[k].stage = "idle" -> Asked(k)
              [] OTHER -> Joined(k)]
    BY DEF AskFor, M
  <2> HIDE DEF Asked, Joined
  <2>3. gets' = [k \in KeysHere |-> gets'[k]]
    BY <2>1, <2>2
  <2>4. ASSUME NEW k \in KeysHere
        PROVE  /\ k \notin M => gets'[k] = gets[k]
               /\ k \in M /\ gets[k].stage = "idle" => gets'[k] = Asked(k)
               /\ k \in M /\ gets[k].stage # "idle" => gets'[k] = Joined(k)
    BY <2>1, <2>2
  <2>5. QED
    BY <2>3, <2>4 DEF Asked, Joined
<1>2. mixed' = mixed \cup Crossing(r, load)
  BY DEF BeginLoad
<1>3. /\ \A q \in Runs \ {r} : runs'[q] = runs[q]
      /\ M = {} => runs'[r] = NoRun
      /\ M # {} => /\ runs'[r].step = "loading" /\ runs'[r].load = load /\ runs'[r].need = M
                   /\ runs'[r].sent = {} /\ runs'[r].got = Remembered(load)
      /\ runs' = [q \in Runs |-> runs'[q]] 
      /\ {"step", "load", "handler", "need", "got", "sent"} \subseteq DOMAIN runs'[r]
  BY NothingRuns DEF BeginLoad, PanelsInv, PanelShape, RunShape
<1>4. shown' = [k \in KeysHere |-> IF M = {} /\ k \in load.keys THEN memo[k].answer ELSE showing[k]]
  BY DEF BeginLoad
<1> HIDE DEF M
<1>5. /\ runs'[r].step \in {"none", "loading"} /\ (runs'[r].step = "none" <=> M = {})
      /\ runs[r].step \notin {"loading", "asked"}
  BY <1>3, NothingRuns
<1>6. /\ \A k : Changers(k)' = Changers(k) \ {r}
      /\ \A k : LateOf(k)' = LateOf(k)
      /\ \A k : \A q \in Runs : Loading(q, k)' <=> (q # r /\ Loading(q, k)) \/ (q = r /\ M # {} /\ k \in load.keys)
  <2>1. ASSUME NEW k PROVE Changers(k)' = Changers(k) \ {r}
    BY <1>3, <1>5 DEF Changers
  <2>2. ASSUME NEW k PROVE LateOf(k)' = LateOf(k)
    BY DEF LateOf
  <2>3. ASSUME NEW k, NEW q \in Runs
        PROVE  Loading(q, k)' <=> (q # r /\ Loading(q, k)) \/ (q = r /\ M # {} /\ k \in load.keys)
    <3>1. CASE q = r
      BY <3>1, <1>3, <1>5 DEF Loading
    <3>2. CASE q # r
      BY <3>2, <1>3 DEF Loading
    <3>3. QED
      BY <3>1, <3>2
  <2>4. QED
    BY <2>1, <2>2, <2>3
<1>7. \A k \in KeysHere : Reading(k)' <=> Reading(k) \/ (M # {} /\ k \in load.keys)
  <2>1. ASSUME NEW k \in KeysHere
        PROVE  /\ Reading(k) <=> \E q \in Runs : Loading(q, k)
               /\ Reading(k)' <=> \E q \in Runs : Loading(q, k)'
    BY DEF Reading, Loading
  <2>2. \A k : ~Loading(r, k)
    BY <1>5 DEF Loading
  <2>3. QED
    BY <2>1, <2>2, <1>6
<1>g. ASSUME NEW k \in KeysHere
      PROVE  /\ gets'[k] \in GetRecords
             /\ k \notin M => gets'[k] = gets[k]
             /\ k \in M /\ gets[k].stage = "idle" =>
                    gets'[k].stage = "sent" /\ gets'[k].waiting = {r}
             /\ k \in M /\ gets[k].stage # "idle" =>
                    /\ gets'[k].stage = gets[k].stage /\ gets'[k].answer = gets[k].answer
                    /\ gets'[k].waiting = gets[k].waiting \cup {r}
  <2>1. gets[k] \in GetRecords
    BY DEF PanelsInv, PanelShape
  <2>2. CASE k \notin M
    BY <2>1, <2>2, <1>1
  <2>3. CASE k \in M /\ gets[k].stage = "idle"
    <3> DEFINE asked == [stage |-> "sent", keeps |-> k \in load.keeps, answer |-> {}, waiting |-> {r}]
    <3>1. asked \in GetRecords /\ asked.stage = "sent" /\ asked.waiting = {r}
      BY DEF GetRecords, Made
    <3>2. gets'[k] = asked
      BY <2>3, <1>1
    <3> HIDE DEF asked
    <3>3. QED
      BY <2>3, <3>1, <3>2
  <2>4. CASE k \in M /\ gets[k].stage # "idle"
    <3> DEFINE joined == [gets[k] EXCEPT !.waiting = @ \cup {r}]
    <3>1. /\ joined \in GetRecords /\ joined.stage = gets[k].stage /\ joined.answer = gets[k].answer
          /\ joined.waiting = gets[k].waiting \cup {r}
      BY <2>1 DEF GetRecords
    <3>2. gets'[k] = joined
      BY <2>4, <1>1
    <3> HIDE DEF joined
    <3>3. QED
      BY <2>4, <3>1, <3>2
  <2>5. QED
    BY <2>2, <2>3, <2>4
<1>8. PanelShape'
  <2>1. gets' \in [KeysHere -> GetRecords]
    BY <1>1, <1>g
  <2>2. \A k \in KeysHere : gets'[k].stage = "idle" => gets'[k].waiting = {}
    BY <1>g DEF PanelsInv, PanelShape
  <2>3. shown' \in [KeysHere -> Made]
    <3>1. \A k \in KeysHere : memo[k].answer \in Made
      BY DEF PanelsInv, PanelShape, MemoRecords
    <3>2. QED
      BY <1>4, <3>1
  <2>4. ASSUME NEW q \in Runs PROVE RunShape(runs'[q])
    <3>1. CASE q # r
      BY <3>1, <1>3 DEF PanelsInv, PanelShape
    <3>2. CASE q = r /\ M = {}
      BY <3>2, <1>3, NothingRuns
    <3>3. CASE q = r /\ M # {}
      <4>1. Remembered(load) \in [load.keys -> Made]
        BY DEF Remembered, PanelsInv, PanelShape, MemoRecords
      <4>2. {} \in Made
        BY DEF Made
      <4>3. QED
        BY <3>3, <4>1, <4>2, <1>0, <1>3 DEF RunShape
    <3>4. QED
      BY <3>1, <3>2, <3>3
  <2>5. \A q \in Runs : RunShape(runs[q])'
    BY <1>0, <2>4 DEF RunShape, GoodHandler, KeepsUp
  <2>6. QED
    BY <1>0, <1>3, <2>1, <2>2, <2>3, <2>5 DEF PanelsInv, PanelShape
<1>9. WaitersNeed'
  <2>1. ASSUME NEW q \in Runs, NEW k \in KeysHere
        PROVE  q \in gets'[k].waiting <=> runs'[q].step = "loading" /\ k \in runs'[q].need
    <3>0. /\ q \in gets[k].waiting <=> runs[q].step = "loading" /\ k \in runs[q].need
          /\ gets[k].stage = "idle" => gets[k].waiting = {}
          /\ gets[k] \in GetRecords
      BY DEF PanelsInv, WaitersNeed, PanelShape
    <3>1. CASE q = r
      <4>1. k \in M => q \in gets'[k].waiting
        BY <3>0, <3>1, <1>g
      <4>2. k \notin M => q \notin gets'[k].waiting
        BY <3>0, <3>1, <1>g, <1>5
      <4>3. QED
        BY <3>1, <4>1, <4>2, <1>3, <1>5
    <3>2. CASE q # r
      <4>1. q \in gets'[k].waiting <=> q \in gets[k].waiting
        BY <3>0, <3>2, <1>g
      <4>2. QED
        BY <3>0, <3>2, <4>1, <1>3
    <3>3. QED
      BY <3>1, <3>2
  <2>2. QED
    BY <1>0, <2>1 DEF WaitersNeed
<1>10. ASSUME NEW k \in KeysHere, k \notin mixed' PROVE Keeps(k)'
  <2>1. Keeps(k) /\ k \notin mixed /\ (k \in load.keys => ~ChangingBut(r, k))
    BY <1>2, <1>10 DEF Crossing, PanelsInv
  <2>2. r \in Changers(k) =>
          /\ Changers(k) = {r} /\ LateOf(k) = {} /\ ~Reading(k) /\ ~memo[k].known
          /\ gets[k].stage = "idle" /\ (k \in load.keys => k \in M)
    <3>1. r \in Changers(k) => /\ Changers(k) = {r} /\ LateOf(k) = {} /\ ~Reading(k) /\ ~memo[k].known
      BY <2>1 DEF Keeps, OneAtATime
    <3>2. OneAtATime(k)
      BY <2>1 DEF Keeps
    <3>3. r \in Changers(k) => gets[k].stage = "idle"
      BY <3>1, <3>2, UnderWayIsRead DEF PanelsInv
    <3>4. QED
      BY <3>1, <3>3 DEF M, Missing
  <2>3. k \in load.keys => Changers(k) \subseteq {r} /\ LateOf(k) = {}
    BY <2>1 DEF ChangingBut, Changers, LateOf
  <2>4. OneAtATime(k)'
    <3>1. /\ \A q, p \in Changers(k)' : q = p
          /\ Changers(k)' = {} \/ LateOf(k)' = {}
      BY <2>1, <1>6 DEF Keeps, OneAtATime
    <3>2. Changers(k)' # {} \/ LateOf(k)' # {} => ~Reading(k)' /\ ~memo'[k].known
      BY <2>1, <2>2, <2>3, <1>6, <1>7 DEF Keeps, OneAtATime
    <3>3. gets'[k].stage # "idle" => gets'[k].waiting # {}
      BY <2>1, <1>g DEF Keeps, OneAtATime
    <3>4. QED
      BY <3>1, <3>2, <3>3 DEF OneAtATime
  <2>5. NothingOwedIsLost(k)'
    <3>1. CASE r \in Changers(k)
      <4>1. ~memo'[k].known /\ gets'[k].stage # "answered"
        BY <2>2, <3>1, <1>g
      <4>2. \A q \in Runs : Loading(q, k)' => k \in runs'[q].need
        BY <2>2, <3>1, <1>6, <1>3 DEF Reading, Loading
      <4>3. Owed(k)' \subseteq shown'[k] \/ Reading(k)'
        <5>1. CASE k \in load.keys
          BY <5>1, <2>2, <3>1, <1>7
        <5>2. CASE k \notin load.keys
          BY <5>2, <3>1, <2>1, <1>4 DEF Owed
        <5>3. QED
          BY <5>1, <5>2
      <4>4. QED
        BY <4>1, <4>2, <4>3 DEF NothingOwedIsLost
    <3>2. CASE r \notin Changers(k)
      <4>0. Owed(k)' = Owed(k) /\ showing[k] = shown[k] /\ memo'[k] = memo[k]
        BY <3>2 DEF Owed
      <4>n. NothingOwedIsLost(k)
        BY <2>1 DEF Keeps
      <4>1. memo'[k].known => Owed(k)' \subseteq memo'[k].answer
        BY <4>0, <4>n DEF NothingOwedIsLost
      <4>2. gets'[k].stage = "answered" => Owed(k)' \subseteq gets'[k].answer
        BY <4>0, <4>n, <1>g DEF NothingOwedIsLost
      <4>3. ASSUME NEW q \in Runs, Loading(q, k)', k \notin runs'[q].need
            PROVE  Owed(k)' \subseteq runs'[q].got[k]
        <5>1. CASE q # r
          BY <5>1, <4>0, <4>n, <4>3, <1>3, <1>6 DEF NothingOwedIsLost
        <5>2. CASE q = r
          <6>1. k \in load.keys /\ k \notin M /\ runs'[q].got = Remembered(load)
            BY <5>2, <4>3, <1>3, <1>6
          <6>2. memo[k].known
            BY <6>1 DEF M, Missing
          <6>3. runs'[q].got[k] = memo[k].answer
            BY <6>1 DEF Remembered
          <6>4. QED
            BY <6>2, <6>3, <4>0, <4>n DEF NothingOwedIsLost
        <5>3. QED
          BY <5>1, <5>2
      <4>4. Owed(k)' \subseteq shown'[k] \/ Reading(k)'
        <5>1. CASE M = {} /\ k \in load.keys
          <6>1. memo[k].known
            BY <5>1 DEF M, Missing
          <6>2. QED
            BY <5>1, <6>1, <1>4, <4>0, <4>1
        <5>2. CASE M # {} /\ k \in load.keys
          BY <5>2, <1>7
        <5>3. CASE k \notin load.keys
          BY <5>3, <1>4, <1>7, <4>0, <4>n DEF NothingOwedIsLost
        <5>4. QED
          BY <5>1, <5>2, <5>3
      <4>5. QED
        BY <4>1, <4>2, <4>3, <4>4 DEF NothingOwedIsLost
    <3>3. QED
      BY <3>1, <3>2
  <2>6. SentIsShown(k)'
    <3>1. CASE k \in load.keys \/ r \in Changers(k)
      <4>1. Changers(k)' = {} /\ LateOf(k)' = {}
        BY <3>1, <2>2, <2>3, <1>6
      <4>2. QED
        BY <4>1 DEF SentIsShown
    <3>2. CASE k \notin load.keys /\ r \notin Changers(k)
      <4>1. Owed(k)' = Owed(k) /\ shown'[k] = shown[k] /\ mine'[k] = mine[k]
        BY <3>2, <1>4 DEF Owed
      <4>2. \A q \in Changers(k)' : q \in Changers(k) /\ runs'[q] = runs[q]
        BY <1>6, <1>3 DEF Changers
      <4>3. QED
        BY <4>1, <4>2, <2>1, <1>6 DEF Keeps, SentIsShown
    <3>3. QED
      BY <3>1, <3>2
  <2>7. QED
    BY <2>4, <2>5, <2>6 DEF Keeps
<1> QED
  BY <1>0, <1>8, <1>9, <1>10 DEF PanelsInv

\* An effect, a timer or a button starts a load (StartLoad).
LEMMA StartLoadKeeps ==
  ASSUME PanelsInv, NEW load \in Here.loads, StartLoad(load)
  PROVE  PanelsInv'
<1>1. PICK r \in Runs : r = OneFree /\ runs[r].step = "none"
  BY DEF StartLoad, OneFree, Free
<1>2. PICK showing : showing = shown
  OBVIOUS
<1>3. /\ BeginLoad(r, load, NoRun.handler, showing)
      /\ UNCHANGED <<page, stored, memo, late, mine, changes>>
  BY <1>1, <1>2 DEF StartLoad
<1>4. load.keys \subseteq KeysHere /\ \A k : r \notin Changers(k)
  BY <1>1, HandlersAreGood DEF PanelsInv, PanelShape, Changers
<1>5. showing \in [KeysHere -> Made] /\ mine' \in [KeysHere -> Made]
  BY <1>2, <1>3 DEF PanelsInv, PanelShape
<1> HIDE DEF PanelsInv
<1>6. QED
  BY <1>1, <1>2, <1>3, <1>4, <1>5, LoadBegins

\* The answer to a change arrives, is shown or loaded, and is owed from now on (Changed).
LEMMA ChangedKeeps ==
  ASSUME PanelsInv, NEW r \in Runs, Changed(r)
  PROVE  PanelsInv'
<1>1. PICK h, then, sent, got, showing :
        /\ h = runs[r].handler /\ then = h.then /\ sent = runs[r].sent /\ got = runs[r].got
        /\ showing = Taken(runs[r])
  OBVIOUS
<1>2. /\ runs[r].step = "changed" /\ r \in Changers(h.key)
      /\ mine' = [mine EXCEPT ![h.key] = @ \cup sent]
      /\ UNCHANGED <<page, stored, memo, late, changes>>
  BY <1>1 DEF Changed, Changers
<1>3. GoodHandler(h) /\ sent \in Made /\ got[h.key] \in Made
  BY <1>1, <1>2 DEF PanelsInv, PanelShape, RunShape
<1>4. /\ shown \in [KeysHere -> Made] /\ mine \in [KeysHere -> Made] /\ h.key \in KeysHere
      /\ gets = [k \in KeysHere |-> gets[k]]
  BY <1>3 DEF PanelsInv, PanelShape, GoodHandler, KeepsUp
<1>5. /\ \A k \in KeysHere : k # h.key => mine'[k] = mine[k] /\ showing[k] = shown[k]
      /\ mine'[h.key] = mine[h.key] \cup sent
  <2>1. \A k \in KeysHere : k # h.key => mine'[k] = mine[k]
    BY <1>2, <1>4
  <2>2. mine'[h.key] = mine[h.key] \cup sent
    BY <1>2, <1>4
  <2>3. \A k \in KeysHere : k # h.key => showing[k] = shown[k]
    BY <1>1, <1>4 DEF Taken
  <2>4. QED
    BY <2>1, <2>2, <2>3
<1>6. /\ ~h.applies => showing[h.key] = shown[h.key]
      /\ h.applies /\ h.whole => showing[h.key] = got[h.key]
      /\ h.applies /\ ~h.whole => showing[h.key] = shown[h.key] \cup sent
  <2>1. showing[h.key] = CASE ~h.applies -> shown[h.key]
                           [] h.whole -> got[h.key]
                           [] OTHER -> shown[h.key] \cup sent
    BY <1>1, <1>4 DEF Taken
  <2>2. h.whole => h.applies
    BY <1>3 DEF GoodHandler, KeepsUp
  <2>3. CASE ~h.applies
    <3>1. ~h.whole
      BY <2>2, <2>3
    <3>2. showing[h.key] = shown[h.key]
      BY <2>1, <2>3, <3>1
    <3>3. QED
      BY <2>3, <3>2
  <2>4. CASE h.applies /\ h.whole
    BY <2>1, <2>4
  <2>5. CASE h.applies /\ ~h.whole
    BY <2>1, <2>5
  <2>6. QED
    BY <2>3, <2>4, <2>5
<1>7. showing \in [KeysHere -> Made] /\ mine' \in [KeysHere -> Made]
  <2>0. \A s \in Made : s \cup sent \in Made
    BY <1>3 DEF Made
  <2>1. ASSUME NEW k \in KeysHere PROVE showing[k] \in Made /\ mine'[k] \in Made
    <3>1. shown[k] \in Made /\ mine[k] \in Made
      BY <1>4
    <3>2. CASE k # h.key
      BY <3>1, <3>2, <1>5
    <3>3. CASE k = h.key
      <4>1. shown[k] \cup sent \in Made /\ mine[k] \cup sent \in Made /\ got[k] \in Made
        BY <3>1, <3>3, <2>0, <1>3
      <4>2. showing[k] \in {shown[k], got[k], shown[k] \cup sent}
        BY <3>3, <1>6
      <4>3. QED
        BY <3>1, <3>3, <4>1, <4>2, <1>5
    <3>4. QED
      BY <3>2, <3>3
  <2>2. PICK fresh : showing = [shown EXCEPT ![h.key] = fresh]
    BY <1>1 DEF Taken
  <2>4. showing = [k \in KeysHere |-> showing[k]] /\ mine' = [k \in KeysHere |-> mine'[k]]
    BY <1>2, <1>4, <2>2
  <2>5. QED
    BY <2>1, <2>4
<1>8. \A k : k # h.key => r \notin Changers(k)
  BY <1>1 DEF Changers
<1>9. ASSUME NEW k \in KeysHere \ mixed, r \in Changers(k), k \notin then.keys
      PROVE  mine'[k] \cap stored[k] \subseteq showing[k]
  <2>1. k = h.key /\ h.applies
    BY <1>8, <1>9, <1>1, <1>3 DEF GoodHandler, KeepsUp
  <2>2. Owed(k) \subseteq shown[k]
    BY <1>9 DEF PanelsInv, Keeps, OneAtATime, NothingOwedIsLost
  <2>3. h.whole => Owed(k) \cup sent \subseteq got[k]
    BY <1>9, <1>1, <1>2 DEF PanelsInv, Keeps, SentIsShown
  <2>4. mine'[k] \cap stored[k] \subseteq Owed(k) \cup sent
    BY <2>1, <1>5 DEF Owed
  <2>5. QED
    BY <2>1, <2>2, <2>3, <2>4, <1>6
<1>10. BeginLoad(r, then, h, showing)
  <2>1. CASE then # NoLoad
    BY <2>1, <1>1 DEF Changed
  <2>2. CASE then = NoLoad
    <3>1. then.keys = {}
      BY <2>2 DEF NoLoad, Load
    <3>2. Missing(then) = {} /\ Crossing(r, then) = {}
      BY <3>1 DEF Missing, Crossing
    <3>3. gets = AskFor(r, then)
      BY <1>4, <3>2 DEF AskFor
    <3>4. showing = [k \in KeysHere |-> IF k \in then.keys THEN memo[k].answer ELSE showing[k]]
      BY <1>7, <3>1
    <3>5. /\ shown' = showing /\ runs' = [runs EXCEPT ![r] = NoRun] /\ gets' = gets /\ mixed' = mixed
      BY <2>2, <1>1 DEF Changed
    <3>6. QED
      BY <3>2, <3>3, <3>4, <3>5 DEF BeginLoad
  <2>3. QED
    BY <2>1, <2>2
<1>11. \A k \in KeysHere : r \notin Changers(k) => mine'[k] = mine[k] /\ showing[k] = shown[k]
  BY <1>2, <1>5
<1>12. then.keys \subseteq KeysHere
  BY <1>1, <1>3 DEF GoodHandler, KeepsUp
<1> HIDE DEF PanelsInv
<1>13. QED
  BY <1>2, <1>7, <1>9, <1>10, <1>11, <1>12, LoadBegins

\* A handler starts: what is remembered is forgotten, and what it sends is shown or new.
LEMMA StartHandlerKeeps ==
  ASSUME PanelsInv, NEW handler \in Here.handlers, StartHandler(handler)
  PROVE  PanelsInv'
<1>1. PICK r \in Runs : r = OneFree /\ runs[r].step = "none"
  BY DEF StartHandler, OneFree, Free
<1>2. PICK sent : sent = {changes'} \cup (IF handler.whole THEN shown[handler.key] ELSE {})
  OBVIOUS
<1>3. /\ UNCHANGED <<page, stored, gets, shown, late, mine>>
      /\ memo' = [k \in KeysHere |-> Forgotten] /\ changes' = changes + 1 /\ changes \in Nat
      /\ runs' = [runs EXCEPT ![r] = [NoRun EXCEPT !.step = "asked", !.handler = handler, !.sent = sent]]
      /\ mixed' = mixed \cup {k \in {handler.key} : Reading(k) \/ ChangingBut(r, k)}
  BY <1>1, <1>2 DEF StartHandler, ForgottenOnChange, PanelsInv, PanelShape
<1>4. GoodHandler(handler)
  BY HandlersAreGood DEF PanelsInv, PanelShape
<1>5. /\ KeysHere' = KeysHere /\ Made \subseteq Made' /\ GetRecords \subseteq GetRecords'
      /\ GoodHandler(handler)' /\ \A x : RunShape(x) => RunShape(x)'
  BY <1>3, <1>4, PageStays
<1>6. /\ \A q \in Runs : q # r => runs'[q] = runs[q]
      /\ runs'[r].step = "asked" /\ runs'[r].handler = handler /\ runs'[r].sent = sent
      /\ {"step", "load", "handler", "need", "got", "sent"} \subseteq DOMAIN runs'[r]
      /\ runs' = [q \in Runs |-> runs'[q]]
  BY <1>3 DEF PanelsInv, PanelShape, NoRun
<1>7. /\ shown[handler.key] \in Made /\ sent \in Made'
      /\ \A k \in KeysHere : changes' \notin mine[k]
  <2>1. shown \in [KeysHere -> Made] /\ mine \in [KeysHere -> Made] /\ handler.key \in KeysHere
    BY <1>4 DEF PanelsInv, PanelShape, GoodHandler, KeepsUp
  <2>2. sent \in Made'
    BY <1>2, <1>3, <1>5, <2>1 DEF Made
  <2>3. \A k \in KeysHere : changes' \notin mine[k]
    BY <1>3, <2>1 DEF Made
  <2>4. QED
    BY <2>1, <2>2, <2>3
<1>8. PanelShape'
  <2>1. memo' \in [KeysHere -> MemoRecords']
    BY <1>3 DEF MemoRecords, Forgotten, Made
  <2>2. ASSUME NEW q \in Runs PROVE RunShape(runs[q])'
    <3>1. CASE q = r
      BY <3>1, <1>5, <1>6, <1>7 DEF RunShape
    <3>2. CASE q # r
      <4>1. RunShape(runs[q])
        BY DEF PanelsInv, PanelShape
      <4>2. PICK x : x = runs[q]
        OBVIOUS
      <4>3. RunShape(x)'
        BY <4>1, <4>2, <1>5
      <4>4. QED
        BY <3>2, <4>2, <4>3, <1>6
    <3>3. QED
      BY <3>1, <3>2
  <2>3. \A w \in late' : w.key \in KeysHere' /\ w.sent \in Made'
    BY <1>3, <1>5 DEF PanelsInv, PanelShape
  <2>4. /\ stored' \in [KeysHere' -> Made'] /\ shown' \in [KeysHere' -> Made'] /\ mine' \in [KeysHere' -> Made']
        /\ gets' \in [KeysHere' -> GetRecords']
    BY <1>3, <1>5 DEF PanelsInv, PanelShape
  <2>5. page' \in Pages /\ changes' \in Nat /\ \A k \in KeysHere' : gets'[k].stage = "idle" => gets'[k].waiting = {}
    BY <1>3, <1>5 DEF PanelsInv, PanelShape
  <2>6. QED
    BY <1>5, <1>6, <2>1, <2>2, <2>3, <2>4, <2>5 DEF PanelShape
<1>9. WaitersNeed'
  BY <1>1, <1>3, <1>5, <1>6 DEF PanelsInv, WaitersNeed
<1>10. ASSUME NEW k \in KeysHere, k \notin mixed' PROVE Keeps(k)'
  <2>1. Keeps(k) /\ (k = handler.key => ~Reading(k) /\ ~ChangingBut(r, k))
    BY <1>3, <1>10 DEF PanelsInv
  <2>2. /\ Changers(k)' = IF k = handler.key THEN Changers(k) \cup {r} ELSE Changers(k)
        /\ LateOf(k)' = LateOf(k) /\ r \notin Changers(k)
        /\ Reading(k)' <=> Reading(k)
        /\ k = handler.key => Changers(k) = {} /\ LateOf(k) = {}
        /\ \A q \in Runs : Loading(q, k)' => Loading(q, k) /\ runs'[q] = runs[q]
    <3>1. Changers(k)' = IF k = handler.key THEN Changers(k) \cup {r} ELSE Changers(k)
      BY <1>1, <1>6 DEF Changers
    <3>2. LateOf(k)' = LateOf(k)
      BY <1>3 DEF LateOf
    <3>3. Reading(k)' <=> Reading(k)
      BY <1>1, <1>6 DEF Reading
    <3>4. r \notin Changers(k)
      BY <1>1 DEF Changers
    <3>5. k = handler.key => Changers(k) = {} /\ LateOf(k) = {}
      BY <1>1, <2>1 DEF ChangingBut, Changers, LateOf
    <3>6. ASSUME NEW q \in Runs, Loading(q, k)' PROVE Loading(q, k) /\ runs'[q] = runs[q]
      BY <1>6, <3>6 DEF Loading
    <3>7. QED
      BY <3>1, <3>2, <3>3, <3>4, <3>5, <3>6
  <2>3. ~memo'[k].known
    BY <1>3 DEF Forgotten
  <2>4. OneAtATime(k)'
    BY <1>3, <2>1, <2>2, <2>3 DEF Keeps, OneAtATime
  <2>5. NothingOwedIsLost(k)'
    BY <1>3, <2>1, <2>2, <2>3 DEF Keeps, NothingOwedIsLost, Owed
  <2>6. SentIsShown(k)'
    <3>1. CASE k = handler.key
      <4>1. Changers(k)' = {r} /\ LateOf(k)' = {}
        BY <3>1, <2>2
      <4>2. mine[k] \cap sent \subseteq shown[k]
        BY <3>1, <1>2, <1>7
      <4>3. QED
        BY <4>1, <4>2, <1>3, <1>6 DEF SentIsShown
    <3>2. CASE k # handler.key
      <4>1. Changers(k)' = Changers(k) /\ \A q \in Changers(k) : runs'[q] = runs[q]
        BY <3>2, <2>2, <1>6 DEF Changers
      <4>2. QED
        BY <4>1, <2>1, <2>2, <1>3 DEF Keeps, SentIsShown, Owed
    <3>3. QED
      BY <3>1, <3>2
  <2>7. QED
    BY <2>4, <2>5, <2>6 DEF Keeps
<1>11. QED
  BY <1>5, <1>8, <1>9, <1>10 DEF PanelsInv

\* The API carries out a change that takes nothing away which is owed (Change).
LEMMA ChangeKeeps ==
  ASSUME PanelsInv, NEW r \in Runs, Change(r)
  PROVE  PanelsInv'
<1>1. PICK h, sent, fresh :
        /\ h = runs[r].handler /\ sent = runs[r].sent /\ fresh = After(h.key, h.whole, sent)
  OBVIOUS
<1>2. /\ UNCHANGED <<page, memo, gets, shown, late, mine, mixed, changes>>
      /\ runs[r].step = "asked" /\ stored' = [stored EXCEPT ![h.key] = fresh]
      /\ runs' = [runs EXCEPT ![r].step = "changed", ![r].got = [k \in {h.key} |-> stored'[k]]]
  <2>1. UNCHANGED <<page, memo, gets, shown, late, mine, mixed, changes>> /\ runs[r].step = "asked"
    BY DEF Change
  <2>2. stored' = [stored EXCEPT ![h.key] = fresh]
    BY <1>1 DEF Change
  <2>3. runs' = [runs EXCEPT ![r].step = "changed", ![r].got = [k \in {h.key} |-> stored'[k]]]
    <3>1. runs' = [runs EXCEPT ![r].step = "changed",
                               ![r].got = [k \in {runs[r].handler.key} |-> stored'[k]]]
      BY DEF Change
    <3>2. QED
      BY <3>1, <1>1
  <2>4. QED
    BY <2>1, <2>2, <2>3
<1>3. /\ KeysHere' = KeysHere /\ Made' = Made /\ GetRecords' = GetRecords /\ MemoRecords' = MemoRecords
      /\ \A x : RunShape(x) => RunShape(x)'
  BY <1>2, PageRests DEF PanelsInv
<1>4. GoodHandler(h) /\ h.key \in KeysHere /\ sent \in Made /\ r \in Changers(h.key)
  BY <1>1, <1>2 DEF PanelsInv, PanelShape, RunShape, GoodHandler, KeepsUp, Changers
<1>5. /\ \A q \in Runs : q # r => runs'[q] = runs[q]
      /\ runs'[r].step = "changed" /\ runs'[r].handler = h /\ runs'[r].sent = sent
      /\ runs'[r].got[h.key] = fresh
      /\ {"step", "load", "handler", "need", "got", "sent"} \subseteq DOMAIN runs'[r]
      /\ runs' = [q \in Runs |-> runs'[q]]
  <2>1. /\ runs = [q \in Runs |-> runs[q]] /\ runs[r].handler = h /\ runs[r].sent = sent
        /\ {"step", "load", "handler", "need", "got", "sent"} \subseteq DOMAIN runs[r]
    BY <1>1 DEF PanelsInv, PanelShape, RunShape
  <2>2. PICK got : got = [k \in {h.key} |-> stored'[k]]
    OBVIOUS
  <2>3. runs'[r] = [runs[r] EXCEPT !.step = "changed", !.got = got]
    BY <1>2, <2>1, <2>2
  <2>4. stored'[h.key] = fresh
    BY <1>2, <1>4 DEF PanelsInv, PanelShape
  <2>5. runs' = [q \in Runs |-> runs'[q]] /\ \A q \in Runs : q # r => runs'[q] = runs[q]
    BY <1>2, <2>1
  <2>6. QED
    BY <2>1, <2>2, <2>3, <2>4, <2>5
<1>6. fresh \in Made /\ stored' \in [KeysHere -> Made] /\ stored'[h.key] = fresh
      /\ \A k \in KeysHere : k # h.key => stored'[k] = stored[k]
  <2>1. stored \in [KeysHere -> Made]
    BY DEF PanelsInv, PanelShape
  <2>2. fresh \in Made
    BY <2>1, <1>1, <1>4 DEF After, Made
  <2>3. QED
    BY <2>1, <2>2, <1>2, <1>4
<1>7. fresh \subseteq stored[h.key] \cup sent /\ sent \subseteq fresh /\ (h.whole => fresh = sent)
  BY <1>1 DEF After
<1>8. PanelShape'
  <2>1. ASSUME NEW q \in Runs PROVE RunShape(runs'[q])
    <3>1. CASE q = r
      BY <3>1, <1>4, <1>5, <1>6 DEF RunShape
    <3>2. CASE q # r
      BY <3>2, <1>5 DEF PanelsInv, PanelShape
    <3>3. QED
      BY <3>1, <3>2
  <2>2. \A q \in Runs : RunShape(runs[q])'
    BY <1>3, <2>1 DEF RunShape, GoodHandler, KeepsUp
  <2>3. QED
    BY <1>2, <1>3, <1>5, <1>6, <2>2 DEF PanelsInv, PanelShape
<1>9. WaitersNeed'
  BY <1>2, <1>3, <1>5 DEF PanelsInv, WaitersNeed
<1>10. ASSUME NEW k \in KeysHere, k \notin mixed' PROVE Keeps(k)'
  <2>1. Keeps(k)
    BY <1>2, <1>10 DEF PanelsInv
  <2>2. /\ Changers(k)' = Changers(k) /\ LateOf(k)' = LateOf(k) /\ (Reading(k)' <=> Reading(k))
        /\ \A q \in Runs : Loading(q, k)' => Loading(q, k) /\ runs'[q] = runs[q]
    <3>1. Changers(k)' = Changers(k)
      <4>1. ASSUME NEW q \in Runs PROVE q \in Changers(k)' <=> q \in Changers(k)
        <5>1. CASE q = r
          BY <5>1, <1>1, <1>2, <1>5 DEF Changers
        <5>2. CASE q # r
          BY <5>2, <1>5 DEF Changers
        <5>3. QED
          BY <5>1, <5>2
      <4>2. Changers(k)' \subseteq Runs /\ Changers(k) \subseteq Runs
        BY DEF Changers
      <4>3. QED
        BY <4>1, <4>2
    <3>2. LateOf(k)' = LateOf(k)
      BY <1>2 DEF LateOf
    <3>3. Reading(k)' <=> Reading(k)
      BY <1>2, <1>5 DEF Reading
    <3>4. ASSUME NEW q \in Runs, Loading(q, k)' PROVE Loading(q, k) /\ runs'[q] = runs[q]
      BY <1>5, <3>4 DEF Loading
    <3>5. QED
      BY <3>1, <3>2, <3>3, <3>4
  <2>3. OneAtATime(k)'
    BY <1>2, <2>1, <2>2 DEF Keeps, OneAtATime
  <2>4. CASE k = h.key
    <3>1. Changers(k) = {r} /\ LateOf(k) = {} /\ ~Reading(k) /\ ~memo[k].known
      BY <2>1, <2>4, <1>4 DEF Keeps, OneAtATime
    <3>2. gets[k].stage = "idle"
      BY <2>1, <3>1, UnderWayIsRead DEF Keeps, PanelsInv
    <3>3. Owed(k) \subseteq shown[k]
      BY <2>1, <3>1 DEF Keeps, NothingOwedIsLost
    <3>4. mine[k] \cap sent \subseteq shown[k]
      BY <2>1, <3>1, <1>1, <1>2 DEF Keeps, SentIsShown
    <3>5. Owed(k)' \subseteq shown'[k]
      BY <2>4, <3>3, <3>4, <1>2, <1>6, <1>7 DEF Owed
    <3>6. NothingOwedIsLost(k)'
      <4>1. \A q \in Runs : ~Loading(q, k)'
        BY <2>2, <3>1 DEF Reading, Loading
      <4>2. ~memo'[k].known /\ gets'[k].stage # "answered"
        BY <3>1, <3>2, <1>2
      <4>3. QED
        BY <3>5, <4>1, <4>2 DEF NothingOwedIsLost
    <3>7. SentIsShown(k)'
      <4>1. Changers(k)' = {r} /\ LateOf(k)' = {}
        BY <2>2, <3>1
      <4>2. h.whole => Owed(k)' \cup sent \subseteq fresh
        BY <2>4, <1>6, <1>7 DEF Owed
      <4>3. QED
        BY <2>4, <4>1, <4>2, <1>5 DEF SentIsShown
    <3>8. QED
      BY <2>3, <3>6, <3>7 DEF Keeps
  <2>5. CASE k # h.key
    <3>1. Owed(k)' = Owed(k)
      BY <2>5, <1>2, <1>6 DEF Owed
    <3>2. NothingOwedIsLost(k)'
      BY <2>1, <2>2, <3>1, <1>2 DEF Keeps, NothingOwedIsLost
    <3>3. r \notin Changers(k)
      BY <2>5, <1>1 DEF Changers
    <3>4. \A q \in Changers(k) : runs'[q] = runs[q]
      BY <3>3, <1>5 DEF Changers
    <3>5. SentIsShown(k)'
      BY <2>1, <2>2, <3>1, <3>4, <1>2 DEF Keeps, SentIsShown
    <3>6. QED
      BY <2>3, <3>2, <3>5 DEF Keeps
  <2>6. QED
    BY <2>4, <2>5
<1>11. QED
  BY <1>2, <1>3, <1>8, <1>9, <1>10 DEF PanelsInv

\* The actions that leave the runs of the page, what it shows and what it owes alone.
LEMMA RunsRest ==
  ASSUME PanelsInv, UNCHANGED <<page, changes, runs, late, mixed>>
  PROVE  /\ \A k : Changers(k)' = Changers(k) /\ LateOf(k)' = LateOf(k) /\ (Reading(k)' <=> Reading(k))
         /\ \A k : \A q \in Runs : Loading(q, k)' <=> Loading(q, k)
         /\ \A q \in Runs : RunShape(runs[q])'
         /\ \A w \in late' : w.key \in KeysHere' /\ w.sent \in Made'
         /\ KeysHere' = KeysHere /\ Made' = Made /\ GetRecords' = GetRecords /\ MemoRecords' = MemoRecords
<1>1. /\ KeysHere' = KeysHere /\ Made' = Made /\ GetRecords' = GetRecords /\ MemoRecords' = MemoRecords
      /\ \A x : RunShape(x) => RunShape(x)'
  BY PageRests DEF PanelsInv
<1>2. \A k : Changers(k)' = Changers(k) /\ LateOf(k)' = LateOf(k) /\ (Reading(k)' <=> Reading(k))
  BY DEF Changers, LateOf, Reading
<1>3. \A k : \A q \in Runs : Loading(q, k)' <=> Loading(q, k)
  BY DEF Loading
<1>4. ASSUME NEW q \in Runs PROVE RunShape(runs[q])'
  <2>1. RunShape(runs[q])
    BY DEF PanelsInv, PanelShape
  <2>2. PICK x : x = runs[q]
    OBVIOUS
  <2>3. RunShape(x)'
    BY <1>1, <2>1, <2>2
  <2>4. QED
    BY <2>2, <2>3
<1>5. \A w \in late' : w.key \in KeysHere' /\ w.sent \in Made'
  BY <1>1 DEF PanelsInv, PanelShape
<1>6. QED
  BY <1>1, <1>2, <1>3, <1>4, <1>5

\* The API answers a request with what is stored (AnswerGet).
LEMMA AnswerGetKeeps ==
  ASSUME PanelsInv, NEW k0 \in KeysHere, AnswerGet(k0)
  PROVE  PanelsInv'
<1>1. /\ UNCHANGED <<page, stored, memo, shown, runs, late, mine, mixed, changes>>
      /\ gets[k0].stage = "sent" /\ gets' = [gets EXCEPT ![k0].stage = "answered", ![k0].answer = stored[k0]]
  BY DEF AnswerGet
<1>2. /\ \A k : Changers(k)' = Changers(k) /\ LateOf(k)' = LateOf(k) /\ (Reading(k)' <=> Reading(k))
      /\ \A k : \A q \in Runs : Loading(q, k)' <=> Loading(q, k)
      /\ \A q \in Runs : RunShape(runs[q])'
      /\ \A w \in late' : w.key \in KeysHere' /\ w.sent \in Made'
      /\ KeysHere' = KeysHere /\ Made' = Made /\ GetRecords' = GetRecords /\ MemoRecords' = MemoRecords
  BY <1>1, RunsRest
<1>3. /\ gets' \in [KeysHere -> GetRecords] /\ gets'[k0].answer = stored[k0]
      /\ \A k \in KeysHere : gets'[k].waiting = gets[k].waiting /\ (gets'[k].stage = "idle" <=> gets[k].stage = "idle")
      /\ \A k \in KeysHere : k # k0 => gets'[k] = gets[k]
  <2>1. gets \in [KeysHere -> GetRecords] /\ stored[k0] \in Made
    BY DEF PanelsInv, PanelShape
  <2> DEFINE fresh == [gets[k0] EXCEPT !.stage = "answered", !.answer = stored[k0]]
  <2>2. fresh \in GetRecords /\ fresh.answer = stored[k0] /\ fresh.waiting = gets[k0].waiting /\ fresh.stage # "idle"
    BY <2>1 DEF GetRecords
  <2>3. gets' = [gets EXCEPT ![k0] = fresh]
    BY <1>1, <2>1
  <2> HIDE DEF fresh
  <2>4. QED
    BY <1>1, <2>1, <2>2, <2>3
<1>4. PanelShape'
  BY <1>1, <1>2, <1>3 DEF PanelsInv, PanelShape
<1>5. WaitersNeed'
  BY <1>1, <1>2, <1>3 DEF PanelsInv, WaitersNeed
<1>6. ASSUME NEW k \in KeysHere, k \notin mixed' PROVE Keeps(k)'
  <2>1. Keeps(k)
    BY <1>1, <1>6 DEF PanelsInv
  <2>2. OneAtATime(k)'
    BY <1>1, <1>2, <1>3, <2>1 DEF Keeps, OneAtATime
  <2>3. NothingOwedIsLost(k)'
    <3>1. gets'[k].stage = "answered" => Owed(k)' \subseteq gets'[k].answer
      BY <1>1, <1>3, <2>1 DEF Keeps, NothingOwedIsLost, Owed
    <3>2. QED
      BY <1>1, <1>2, <2>1, <3>1 DEF Keeps, NothingOwedIsLost, Owed
  <2>4. SentIsShown(k)'
    BY <1>1, <1>2, <2>1 DEF Keeps, SentIsShown, Owed
  <2>5. QED
    BY <2>2, <2>3, <2>4 DEF Keeps
<1>7. QED
  BY <1>2, <1>4, <1>5, <1>6 DEF PanelsInv

\* A remembered answer is forgotten after its time (MemoExpires).
LEMMA MemoExpiresKeeps ==
  ASSUME PanelsInv, NEW k0 \in KeysHere, MemoExpires(k0)
  PROVE  PanelsInv'
<1>1. /\ UNCHANGED <<page, stored, gets, shown, runs, late, mine, mixed, changes>>
      /\ memo' = [memo EXCEPT ![k0] = Forgotten]
  BY DEF MemoExpires
<1>2. /\ \A k : Changers(k)' = Changers(k) /\ LateOf(k)' = LateOf(k) /\ (Reading(k)' <=> Reading(k))
      /\ \A k : \A q \in Runs : Loading(q, k)' <=> Loading(q, k)
      /\ \A q \in Runs : RunShape(runs[q])'
      /\ \A w \in late' : w.key \in KeysHere' /\ w.sent \in Made'
      /\ KeysHere' = KeysHere /\ Made' = Made /\ GetRecords' = GetRecords /\ MemoRecords' = MemoRecords
  BY <1>1, RunsRest
<1>3. /\ memo' \in [KeysHere -> MemoRecords]
      /\ \A k \in KeysHere : memo'[k].known => memo[k].known /\ memo'[k].answer = memo[k].answer
  <2>1. memo \in [KeysHere -> MemoRecords] /\ Forgotten \in MemoRecords /\ ~Forgotten.known
    BY DEF PanelsInv, PanelShape, MemoRecords, Forgotten, Made
  <2>2. QED
    BY <1>1, <2>1
<1>4. PanelShape'
  BY <1>1, <1>2, <1>3 DEF PanelsInv, PanelShape
<1>5. WaitersNeed'
  BY <1>1, <1>2 DEF PanelsInv, WaitersNeed
<1>6. ASSUME NEW k \in KeysHere, k \notin mixed' PROVE Keeps(k)'
  <2>1. Keeps(k)
    BY <1>1, <1>6 DEF PanelsInv
  <2>2. OneAtATime(k)'
    BY <1>1, <1>2, <1>3, <2>1 DEF Keeps, OneAtATime
  <2>3. NothingOwedIsLost(k)'
    BY <1>1, <1>2, <1>3, <2>1 DEF Keeps, NothingOwedIsLost, Owed
  <2>4. SentIsShown(k)'
    BY <1>1, <1>2, <2>1 DEF Keeps, SentIsShown, Owed
  <2>5. QED
    BY <2>2, <2>3, <2>4 DEF Keeps
<1>7. QED
  BY <1>2, <1>4, <1>5, <1>6 DEF PanelsInv

\* A change whose handler gave up is carried out after all (LateChange).
LEMMA LateChangeKeeps ==
  ASSUME PanelsInv, LateChange
  PROVE  PanelsInv'
<1>1. PICK w \in late :
        /\ stored' = [stored EXCEPT ![w.key] = After(w.key, w.whole, w.sent)] /\ late' = late \ {w}
        /\ UNCHANGED <<page, memo, gets, shown, runs, mine, mixed, changes>>
  BY DEF LateChange
<1>2. /\ KeysHere' = KeysHere /\ Made' = Made /\ GetRecords' = GetRecords /\ MemoRecords' = MemoRecords
      /\ \A x : RunShape(x) => RunShape(x)'
  BY <1>1, PageRests DEF PanelsInv
<1>3. /\ \A k : Changers(k)' = Changers(k) /\ LateOf(k)' \subseteq LateOf(k) /\ (Reading(k)' <=> Reading(k))
      /\ \A k : \A q \in Runs : Loading(q, k)' <=> Loading(q, k)
  BY <1>1 DEF Changers, LateOf, Reading, Loading
<1>4. PICK fresh : fresh = After(w.key, w.whole, w.sent)
  OBVIOUS
<1>5. /\ w.key \in KeysHere /\ fresh \subseteq stored[w.key] \cup w.sent
      /\ stored' \in [KeysHere -> Made] /\ stored'[w.key] = fresh
      /\ \A k \in KeysHere : k # w.key => stored'[k] = stored[k]
  <2>1. w.key \in KeysHere /\ w.sent \in Made /\ stored \in [KeysHere -> Made]
    BY DEF PanelsInv, PanelShape
  <2>2. fresh \subseteq stored[w.key] \cup w.sent
    BY <1>4 DEF After
  <2>3. fresh \in Made
    BY <2>1, <2>2 DEF Made
  <2>4. QED
    BY <1>1, <1>4, <2>1, <2>2, <2>3
<1>6. PanelShape'
  <2>1. ASSUME NEW q \in Runs PROVE RunShape(runs[q])'
    <3>1. RunShape(runs[q])
      BY DEF PanelsInv, PanelShape
    <3>2. PICK x : x = runs[q]
      OBVIOUS
    <3>3. RunShape(x)'
      BY <1>2, <3>1, <3>2
    <3>4. QED
      BY <1>1, <3>2, <3>3
  <2>2. \A v \in late' : v.key \in KeysHere' /\ v.sent \in Made'
    BY <1>1, <1>2 DEF PanelsInv, PanelShape
  <2>3. QED
    BY <1>1, <1>2, <1>5, <2>1, <2>2 DEF PanelsInv, PanelShape
<1>7. WaitersNeed'
  BY <1>1, <1>2 DEF PanelsInv, WaitersNeed
<1>8. ASSUME NEW k \in KeysHere, k \notin mixed' PROVE Keeps(k)'
  <2>1. Keeps(k)
    BY <1>1, <1>8 DEF PanelsInv
  <2>2. OneAtATime(k)'
    BY <1>1, <1>3, <2>1 DEF Keeps, OneAtATime
  <2>3. CASE k = w.key
    <3>1. LateOf(k) # {} /\ mine[k] \cap w.sent \subseteq shown[k]
      BY <2>1, <2>3 DEF LateOf, Keeps, SentIsShown
    <3>2. Changers(k) = {} /\ ~Reading(k) /\ ~memo[k].known
      BY <2>1, <3>1 DEF Keeps, OneAtATime
    <3>3. gets[k].stage = "idle"
      BY <2>1, <3>2, UnderWayIsRead DEF Keeps, PanelsInv
    <3>4. Owed(k) \subseteq shown[k]
      BY <2>1, <3>2 DEF Keeps, NothingOwedIsLost
    <3>5. Owed(k)' \subseteq shown'[k]
      BY <2>3, <3>1, <3>4, <1>1, <1>5 DEF Owed
    <3>6. NothingOwedIsLost(k)'
      <4>1. \A q \in Runs : ~Loading(q, k)'
        BY <1>3, <3>2 DEF Reading, Loading
      <4>2. ~memo'[k].known /\ gets'[k].stage # "answered"
        BY <3>2, <3>3, <1>1
      <4>3. QED
        BY <3>5, <4>1, <4>2 DEF NothingOwedIsLost
    <3>7. SentIsShown(k)'
      BY <1>1, <1>3, <2>1, <3>2 DEF Keeps, SentIsShown
    <3>8. QED
      BY <2>2, <3>6, <3>7 DEF Keeps
  <2>4. CASE k # w.key
    <3>1. Owed(k)' = Owed(k)
      BY <2>4, <1>1, <1>5 DEF Owed
    <3>2. NothingOwedIsLost(k)'
      BY <1>1, <1>3, <2>1, <3>1 DEF Keeps, NothingOwedIsLost
    <3>3. SentIsShown(k)'
      BY <1>1, <1>3, <2>1, <3>1 DEF Keeps, SentIsShown
    <3>4. QED
      BY <2>2, <3>2, <3>3 DEF Keeps
  <2>5. QED
    BY <2>3, <2>4
<1>9. QED
  BY <1>2, <1>6, <1>7, <1>8 DEF PanelsInv

\* Somebody else changes a resource: nothing that this page made (OtherChanges).
LEMMA OtherChangesKeep ==
  ASSUME PanelsInv, NEW k0 \in KeysHere, OtherChanges(k0)
  PROVE  PanelsInv'
<1>1. /\ UNCHANGED <<page, memo, gets, shown, runs, late, mine, mixed>>
      /\ changes' = changes + 1 /\ changes \in Nat
      /\ stored' = [stored EXCEPT ![k0] = @ \cup {changes'}]
  BY DEF OtherChanges, PanelsInv, PanelShape
<1>2. /\ KeysHere' = KeysHere /\ Made \subseteq Made' /\ GetRecords \subseteq GetRecords'
      /\ MemoRecords \subseteq MemoRecords' /\ \A x : RunShape(x) => RunShape(x)'
  BY <1>1, PageStays
<1>3. /\ \A k : Changers(k)' = Changers(k) /\ LateOf(k)' = LateOf(k) /\ (Reading(k)' <=> Reading(k))
      /\ \A k : \A q \in Runs : Loading(q, k)' <=> Loading(q, k)
  BY <1>1 DEF Changers, LateOf, Reading, Loading
<1>4. stored' \in [KeysHere -> Made'] /\ \A k \in KeysHere : Owed(k)' = Owed(k)
  <2>1. stored \in [KeysHere -> Made] /\ mine \in [KeysHere -> Made]
    BY DEF PanelsInv, PanelShape
  <2>2. stored[k0] \cup {changes'} \in Made'
    BY <1>1, <2>1 DEF Made
  <2>3. \A k \in KeysHere : stored[k] \in Made'
    BY <1>2, <2>1
  <2>4. \A k \in KeysHere : changes' \notin mine[k]
    BY <1>1, <2>1 DEF Made
  <2>5. \A k \in KeysHere : stored'[k] = IF k = k0 THEN stored[k] \cup {changes'} ELSE stored[k]
    BY <1>1, <2>1
  <2>6. stored' \in [KeysHere -> Made']
    BY <1>1, <2>1, <2>2, <2>3
  <2>7. \A k \in KeysHere : Owed(k)' = Owed(k)
    BY <1>1, <2>4, <2>5 DEF Owed
  <2>8. QED
    BY <2>6, <2>7
<1>5. PanelShape'
  <2>1. ASSUME NEW q \in Runs PROVE RunShape(runs[q])'
    <3>1. RunShape(runs[q])
      BY DEF PanelsInv, PanelShape
    <3>2. PICK x : x = runs[q]
      OBVIOUS
    <3>3. RunShape(x)'
      BY <1>2, <3>1, <3>2
    <3>4. QED
      BY <1>1, <3>2, <3>3
  <2>2. \A v \in late' : v.key \in KeysHere' /\ v.sent \in Made'
    BY <1>1, <1>2 DEF PanelsInv, PanelShape
  <2>3. /\ shown' \in [KeysHere' -> Made'] /\ mine' \in [KeysHere' -> Made']
        /\ memo' \in [KeysHere' -> MemoRecords'] /\ gets' \in [KeysHere' -> GetRecords']
    BY <1>1, <1>2 DEF PanelsInv, PanelShape
  <2>4. page' \in Pages /\ changes' \in Nat /\ \A k \in KeysHere' : gets'[k].stage = "idle" => gets'[k].waiting = {}
    BY <1>1, <1>2 DEF PanelsInv, PanelShape
  <2>5. QED
    BY <1>1, <1>2, <1>4, <2>1, <2>2, <2>3, <2>4 DEF PanelsInv, PanelShape
<1>6. WaitersNeed'
  BY <1>1, <1>2 DEF PanelsInv, WaitersNeed
<1>7. ASSUME NEW k \in KeysHere, k \notin mixed' PROVE Keeps(k)'
  <2>1. Keeps(k) /\ Owed(k)' = Owed(k)
    BY <1>1, <1>4, <1>7 DEF PanelsInv
  <2>2. OneAtATime(k)'
    BY <1>1, <1>3, <2>1 DEF Keeps, OneAtATime
  <2>3. NothingOwedIsLost(k)'
    BY <1>1, <1>3, <2>1 DEF Keeps, NothingOwedIsLost
  <2>4. SentIsShown(k)'
    BY <1>1, <1>3, <2>1 DEF Keeps, SentIsShown
  <2>5. QED
    BY <2>2, <2>3, <2>4 DEF Keeps
<1>8. QED
  BY <1>2, <1>5, <1>6, <1>7 DEF PanelsInv

\* A handler gives up; what it sent may still be carried out (ChangeFails).
LEMMA ChangeFailsKeeps ==
  ASSUME PanelsInv, NEW r \in Runs, ChangeFails(r)
  PROVE  PanelsInv'
<1>1. PICK h, sent : h = runs[r].handler /\ sent = runs[r].sent
  OBVIOUS
<1>2. /\ UNCHANGED <<page, stored, memo, gets, shown, mine, mixed, changes>>
      /\ runs[r].step \in {"asked", "changed"} /\ runs' = [runs EXCEPT ![r] = NoRun]
      /\ \/ late' = late
         \/ /\ runs[r].step = "asked"
            /\ late' = late \cup {[key |-> h.key, whole |-> h.whole, sent |-> sent]}
  BY <1>1 DEF ChangeFails
<1>3. /\ KeysHere' = KeysHere /\ Made' = Made /\ GetRecords' = GetRecords /\ MemoRecords' = MemoRecords
      /\ \A x : RunShape(x) => RunShape(x)'
  BY <1>2, PageRests DEF PanelsInv
<1>4. h.key \in KeysHere /\ sent \in Made /\ r \in Changers(h.key) /\ \A k : k # h.key => r \notin Changers(k)
  BY <1>1, <1>2 DEF PanelsInv, PanelShape, RunShape, GoodHandler, KeepsUp, Changers
<1>5. /\ \A q \in Runs : q # r => runs'[q] = runs[q]
      /\ runs'[r] = NoRun /\ runs' = [q \in Runs |-> runs'[q]]
  BY <1>2 DEF PanelsInv, PanelShape
<1>6. /\ \A k : Changers(k)' = Changers(k) \ {r}
      /\ \A k : Reading(k)' <=> Reading(k)
      /\ \A k : \A q \in Runs : Loading(q, k)' <=> Loading(q, k)
      /\ \A k, q : Loading(q, k) => q # r
  <2>1. runs'[r].step = "none"
    BY <1>5, NothingRuns
  <2>2. \A k : Changers(k)' = Changers(k) \ {r}
    BY <1>5, <2>1 DEF Changers
  <2>3. \A k : \A q \in Runs : Loading(q, k)' <=> Loading(q, k)
    BY <1>2, <1>5, <2>1 DEF Loading
  <2>4. \A k : Reading(k)' <=> Reading(k)
    BY <1>2, <1>5, <2>1 DEF Reading
  <2>5. \A k, q : Loading(q, k) => q # r
    BY <1>2 DEF Loading
  <2>6. QED
    BY <2>2, <2>3, <2>4, <2>5
<1>7. /\ \A k : k # h.key => LateOf(k)' = LateOf(k)
      /\ \A w \in LateOf(h.key)' : w \in LateOf(h.key) \/ (w.sent = sent /\ runs[r].step = "asked")
      /\ \A w \in late' : w.key \in KeysHere /\ w.sent \in Made
  <2>1. \A w \in late : w.key \in KeysHere /\ w.sent \in Made
    BY DEF PanelsInv, PanelShape
  <2>2. CASE late' = late
    BY <2>1, <2>2 DEF LateOf
  <2>3. CASE late' # late
    <3>1. PICK w0 : w0.key = h.key /\ w0.sent = sent /\ late' = late \cup {w0} /\ runs[r].step = "asked"
      BY <1>2, <2>3
    <3>2. QED
      BY <2>1, <3>1, <1>4 DEF LateOf
  <2>4. QED
    BY <2>2, <2>3
<1>8. PanelShape'
  <2>1. ASSUME NEW q \in Runs PROVE RunShape(runs[q])'
    <3>1. RunShape(runs'[q])
      BY <1>5, NothingRuns DEF PanelsInv, PanelShape
    <3>2. PICK x : x = runs'[q]
      OBVIOUS
    <3>3. RunShape(x)'
      BY <1>3, <3>1, <3>2
    <3>4. QED
      BY <3>2, <3>3
  <2>2. QED
    BY <1>2, <1>3, <1>5, <1>7, <2>1 DEF PanelsInv, PanelShape
<1>9. WaitersNeed'
  <2>1. runs'[r].step = "none"
    BY <1>5, NothingRuns
  <2>2. QED
    BY <1>2, <1>3, <1>5, <2>1 DEF PanelsInv, WaitersNeed
<1>10. ASSUME NEW k \in KeysHere, k \notin mixed' PROVE Keeps(k)'
  <2>1. Keeps(k) /\ Owed(k)' = Owed(k)
    BY <1>2, <1>10 DEF PanelsInv, Owed
  <2>2. \A q \in Runs : Loading(q, k)' => runs'[q] = runs[q]
    BY <1>5, <1>6
  <2>3. NothingOwedIsLost(k)'
    BY <1>2, <1>6, <2>1, <2>2 DEF Keeps, NothingOwedIsLost
  <2>4. CASE k = h.key
    <3>1. Changers(k) = {r} /\ LateOf(k) = {} /\ ~Reading(k) /\ ~memo[k].known
      BY <2>1, <2>4, <1>4 DEF Keeps, OneAtATime
    <3>2. Changers(k)' = {}
      BY <3>1, <1>6
    <3>3. OneAtATime(k)'
      BY <1>2, <1>6, <2>1, <3>1, <3>2 DEF Keeps, OneAtATime
    <3>4. runs[r].step = "asked" => mine[k] \cap sent \subseteq shown[k]
      BY <2>1, <3>1, <1>1 DEF Keeps, SentIsShown
    <3>5. SentIsShown(k)'
      BY <1>2, <1>7, <2>4, <3>1, <3>2, <3>4 DEF SentIsShown
    <3>6. QED
      BY <2>3, <3>3, <3>5 DEF Keeps
  <2>5. CASE k # h.key
    <3>1. Changers(k)' = Changers(k) /\ LateOf(k)' = LateOf(k) /\ \A q \in Changers(k) : runs'[q] = runs[q]
      BY <2>5, <1>4, <1>5, <1>6, <1>7 DEF Changers
    <3>2. OneAtATime(k)'
      BY <1>2, <1>6, <2>1, <3>1 DEF Keeps, OneAtATime
    <3>3. SentIsShown(k)'
      BY <1>2, <2>1, <3>1 DEF Keeps, SentIsShown
    <3>4. QED
      BY <2>3, <3>2, <3>3 DEF Keeps
  <2>6. QED
    BY <2>4, <2>5
<1>11. QED
  BY <1>2, <1>3, <1>8, <1>9, <1>10 DEF PanelsInv

\* The answer to a request arrives at everybody who waits for it (Arrives).
LEMMA ArrivesKeeps ==
  ASSUME PanelsInv, NEW k0 \in KeysHere, Arrives(k0)
  PROVE  PanelsInv'
<1>1. PICK answer, waiting : answer = gets[k0].answer /\ waiting = gets[k0].waiting
  OBVIOUS
<1>2. /\ answer \in Made /\ waiting \subseteq Runs
      /\ \A r \in waiting : runs[r].step = "loading" /\ k0 \in runs[r].need
      /\ \A r \in Runs : runs[r].step = "loading" /\ k0 \in runs[r].need => r \in waiting
      /\ gets[k0].stage = "answered"
  BY <1>1 DEF PanelsInv, PanelShape, WaitersNeed, GetRecords, Arrives
<1> DEFINE table0 == [r \in Runs |-> IF r \in gets[k0].waiting THEN Served(r, k0, gets[k0].answer) ELSE runs[r]]
           done0 == {r \in gets[k0].waiting : table0[r].need = {}}
           showers0(j) == {r \in done0 : j \in table0[r].load.keys}
<1>3. /\ UNCHANGED <<page, stored, late, mine, mixed, changes>>
      /\ memo' = IF gets[k0].keeps THEN [memo EXCEPT ![k0] = [known |-> TRUE, answer |-> answer]] ELSE memo
      /\ gets' = [gets EXCEPT ![k0] = NoGet]
  BY <1>1 DEF Arrives
<1>4. /\ runs' = [r \in Runs |-> IF r \in done0 THEN NoRun ELSE table0[r]]
      /\ shown' = [j \in KeysHere |-> IF showers0(j) = {} THEN shown[j]
                                      ELSE table0[CHOOSE r \in showers0(j) : TRUE].got[j]]
  BY DEF Arrives
<1>5. \A r \in Runs : table0[r] = IF r \in waiting THEN Served(r, k0, answer) ELSE runs[r]
  BY <1>1
<1> HIDE DEF table0
<1>6. PICK table, done : table = table0 /\ done = {r \in waiting : table[r].need = {}}
  OBVIOUS
<1>7. done0 = done /\ done \subseteq waiting /\ \A r \in waiting : r \in done <=> table[r].need = {}
  BY <1>1, <1>6
<1> HIDE DEF done0
<1>8. \A j : \A r : r \in showers0(j) <=> r \in done /\ j \in table[r].load.keys
  BY <1>6, <1>7
<1> HIDE DEF showers0
<1>9. /\ \A r \in done : runs'[r] = NoRun
      /\ \A r \in Runs : r \notin done => runs'[r] = table[r]
      /\ runs' = [r \in Runs |-> runs'[r]]
  BY <1>2, <1>4, <1>6, <1>7
<1>10. ASSUME NEW j \in KeysHere
       PROVE  \/ /\ \A r \in done : j \notin table[r].load.keys
                 /\ shown'[j] = shown[j]
              \/ \E r \in done : j \in table[r].load.keys /\ shown'[j] = table[r].got[j]
  <2>1. CASE showers0(j) = {}
    BY <2>1, <1>4, <1>8
  <2>2. CASE showers0(j) # {}
    <3>1. PICK r : r = CHOOSE q \in showers0(j) : TRUE
      OBVIOUS
    <3>2. r \in showers0(j)
      BY <2>2, <3>1
    <3>3. shown'[j] = table[r].got[j]
      BY <2>2, <3>1, <1>4, <1>6
    <3>4. QED
      BY <3>2, <3>3, <1>8
  <2>3. QED
    BY <2>1, <2>2
<1>11. shown' = [j \in KeysHere |-> shown'[j]]
  BY <1>4
<1>12. ASSUME NEW r \in waiting
       PROVE  /\ {"step", "load", "handler", "need", "got", "sent"} \subseteq DOMAIN table[r]
              /\ table[r].step = "loading" /\ table[r].load = runs[r].load /\ table[r].sent = runs[r].sent
              /\ table[r].need = runs[r].need \ {k0} /\ runs[r].need \subseteq runs[r].load.keys
              /\ runs[r].load.keys \subseteq KeysHere
              /\ table[r].got \in [runs[r].load.keys -> Made] /\ table[r].got[k0] = answer
              /\ \A j \in runs[r].load.keys : j # k0 => table[r].got[j] = runs[r].got[j]
  <2>1. /\ {"step", "load", "handler", "need", "got", "sent"} \subseteq DOMAIN runs[r]
        /\ runs[r].step = "loading" /\ runs[r].got \in [runs[r].load.keys -> Made]
        /\ runs[r].load.keys \subseteq KeysHere /\ runs[r].need \subseteq runs[r].load.keys
    BY <1>2 DEF PanelsInv, PanelShape, RunShape
  <2>2. PICK need, got :
          /\ need = runs[r].need \ {k0}
          /\ got = [j \in DOMAIN runs[r].got |-> IF j = k0 THEN answer ELSE runs[r].got[j]]
    OBVIOUS
  <2>3. table[r] = [runs[r] EXCEPT !.need = need, !.got = got]
    BY <2>2, <1>2, <1>5, <1>6 DEF Served
  <2>4. /\ table[r].step = "loading" /\ table[r].load = runs[r].load /\ table[r].sent = runs[r].sent
        /\ table[r].need = need /\ table[r].got = got
        /\ {"step", "load", "handler", "need", "got", "sent"} \subseteq DOMAIN table[r]
    BY <2>1, <2>3
  <2>5. /\ got \in [runs[r].load.keys -> Made] /\ got[k0] = answer
        /\ \A j \in runs[r].load.keys : j # k0 => got[j] = runs[r].got[j]
    BY <1>2, <2>1, <2>2
  <2>6. QED
    BY <2>1, <2>2, <2>4, <2>5
<1>13. /\ \A q \in Runs : q \notin waiting => runs'[q] = runs[q]
       /\ \A q \in Runs : q \in waiting /\ q \notin done => runs'[q] = table[q] /\ table[q].need # {}
       /\ \A q \in Runs : q \in done => runs'[q].step = "none"
       /\ \A q \in done : runs[q].need \subseteq {k0}
  <2>1. \A q \in Runs : q \notin waiting => table[q] = runs[q]
    BY <1>5, <1>6
  <2>2. \A q \in done : runs[q].need \subseteq {k0}
    BY <1>7, <1>12
  <2>3. QED
    BY <1>2, <1>7, <1>9, <2>1, <2>2, NothingRuns
<1>14. /\ KeysHere' = KeysHere /\ Made' = Made /\ GetRecords' = GetRecords /\ MemoRecords' = MemoRecords
       /\ \A x : RunShape(x) => RunShape(x)'
  BY <1>3, PageRests DEF PanelsInv
<1>15. /\ \A k : Changers(k)' = Changers(k) /\ LateOf(k)' = LateOf(k)
       /\ \A k : \A q \in Runs : Loading(q, k)' <=> Loading(q, k) /\ q \notin done
  <2>1. ASSUME NEW k, NEW q \in Runs
        PROVE  /\ q \in Changers(k)' <=> q \in Changers(k)
               /\ Loading(q, k)' <=> Loading(q, k) /\ q \notin done
    <3>1. CASE q \in done
      BY <3>1, <1>2, <1>7, <1>13 DEF Changers, Loading
    <3>2. CASE q \in waiting /\ q \notin done
      BY <3>2, <1>2, <1>12, <1>13 DEF Changers, Loading
    <3>3. CASE q \notin waiting
      BY <3>3, <1>7, <1>13 DEF Changers, Loading
    <3>4. QED
      BY <3>1, <3>2, <3>3
  <2>2. ASSUME NEW k PROVE Changers(k)' = Changers(k)
    <3>1. Changers(k)' \subseteq Runs /\ Changers(k) \subseteq Runs
      BY DEF Changers
    <3>2. QED
      BY <2>1, <3>1
  <2>3. \A k : LateOf(k)' = LateOf(k)
    BY <1>3 DEF LateOf
  <2>4. QED
    BY <2>1, <2>2, <2>3
<1>16. /\ gets' \in [KeysHere -> GetRecords] /\ gets'[k0].stage = "idle" /\ gets'[k0].waiting = {}
       /\ \A k \in KeysHere : k # k0 => gets'[k] = gets[k]
       /\ memo' \in [KeysHere -> MemoRecords]
       /\ \A k \in KeysHere : k # k0 => memo'[k] = memo[k]
       /\ memo'[k0].known => memo'[k0].answer \in {memo[k0].answer, answer}
       /\ memo'[k0].known /\ memo'[k0].answer # answer => memo[k0].known /\ memo'[k0] = memo[k0]
  <2>1. /\ gets \in [KeysHere -> GetRecords] /\ memo \in [KeysHere -> MemoRecords]
        /\ NoGet \in GetRecords /\ NoGet.stage = "idle" /\ NoGet.waiting = {}
    BY DEF PanelsInv, PanelShape, NoGet, GetRecords, Made
  <2>2. PICK kept : kept = [known |-> TRUE, answer |-> answer]
    OBVIOUS
  <2>3. kept \in MemoRecords /\ kept.answer = answer
    BY <2>2, <1>2 DEF MemoRecords
  <2>4. /\ memo' \in [KeysHere -> MemoRecords] /\ \A k \in KeysHere : k # k0 => memo'[k] = memo[k]
        /\ memo'[k0] \in {memo[k0], kept} /\ (memo'[k0] = kept \/ memo'[k0] = memo[k0])
    BY <2>1, <2>2, <2>3, <1>3
  <2>5. QED
    BY <1>3, <2>1, <2>3, <2>4
<1>17. PanelShape'
  <2>1. ASSUME NEW q \in Runs PROVE RunShape(runs[q])'
    <3>1. RunShape(runs'[q])
      <4>1. CASE q \in done
        BY <4>1, <1>9, NothingRuns
      <4>2. CASE q \in waiting /\ q \notin done
        <5>1. runs'[q] = table[q] /\ table[q].need # {} /\ runs[q].sent \in Made
          BY <4>2, <1>13 DEF PanelsInv, PanelShape, RunShape
        <5>2. QED
          BY <4>2, <5>1, <1>12 DEF RunShape
      <4>3. CASE q \notin waiting
        BY <4>3, <1>13 DEF PanelsInv, PanelShape
      <4>4. QED
        BY <4>1, <4>2, <4>3
    <3>2. PICK x : x = runs'[q]
      OBVIOUS
    <3>3. RunShape(x)'
      BY <1>14, <3>1, <3>2
    <3>4. QED
      BY <3>2, <3>3
  <2>2. shown' \in [KeysHere -> Made]
    <3>1. ASSUME NEW j \in KeysHere PROVE shown'[j] \in Made
      <4>1. shown[j] \in Made
        BY DEF PanelsInv, PanelShape
      <4>2. \A r \in done : j \in table[r].load.keys => table[r].got[j] \in Made
        BY <1>7, <1>12
      <4>3. QED
        BY <1>10, <4>1, <4>2
    <3>2. QED
      BY <1>11, <3>1
  <2>3. \A k \in KeysHere : gets'[k].stage = "idle" => gets'[k].waiting = {}
    BY <1>16 DEF PanelsInv, PanelShape
  <2>4. QED
    BY <1>3, <1>9, <1>14, <1>16, <2>1, <2>2, <2>3 DEF PanelsInv, PanelShape
<1>18. WaitersNeed'
  <2>1. ASSUME NEW q \in Runs, NEW k \in KeysHere
        PROVE  q \in gets'[k].waiting <=> runs'[q].step = "loading" /\ k \in runs'[q].need
    <3>0. q \in gets[k].waiting <=> runs[q].step = "loading" /\ k \in runs[q].need
      BY DEF PanelsInv, WaitersNeed
    <3>1. CASE q \in done
      <4>1. runs'[q].step = "none" /\ (q \in gets[k].waiting => k = k0)
        BY <3>0, <3>1, <1>13
      <4>2. QED
        BY <4>1, <1>16
    <3>2. CASE q \in waiting /\ q \notin done
      BY <3>0, <3>2, <1>2, <1>12, <1>13, <1>16
    <3>3. CASE q \notin waiting
      BY <3>0, <3>3, <1>1, <1>2, <1>13, <1>16
    <3>4. QED
      BY <3>1, <3>2, <3>3
  <2>2. QED
    BY <1>14, <2>1 DEF WaitersNeed
<1>19. ASSUME NEW k \in KeysHere, k \notin mixed' PROVE Keeps(k)'
  <2>1. Keeps(k) /\ Owed(k)' = Owed(k)
    BY <1>3, <1>19 DEF PanelsInv, Owed
  <2>2. Reading(k) <=> \E q \in Runs : Loading(q, k)
    BY DEF Reading, Loading
  <2>3. Reading(k)' <=> \E q \in Runs : Loading(q, k) /\ q \notin done
    <3>1. Reading(k)' <=> \E q \in Runs : Loading(q, k)'
      BY DEF Reading, Loading
    <3>2. QED
      BY <3>1, <1>15
  <2>4. k = k0 => Reading(k) /\ Owed(k) \subseteq answer
    BY <1>1, <1>2, <2>1, UnderWayIsRead DEF Keeps, NothingOwedIsLost, PanelsInv
  <2>5. ~Reading(k) => shown'[k] = shown[k]
    <3>1. ASSUME NEW r \in done, k \in table[r].load.keys PROVE Loading(r, k)
      BY <3>1, <1>2, <1>7, <1>12 DEF Loading
    <3>2. QED
      BY <3>1, <2>2, <1>2, <1>7, <1>10
  <2>6. OneAtATime(k)'
    BY <1>15, <1>16, <2>1, <2>2, <2>3, <2>4 DEF Keeps, OneAtATime
  <2>7. NothingOwedIsLost(k)'
    <3>0. NothingOwedIsLost(k)
      BY <2>1 DEF Keeps
    <3>1. memo'[k].known => Owed(k) \subseteq memo'[k].answer
      BY <3>0, <2>4, <1>16 DEF NothingOwedIsLost
    <3>2. gets'[k].stage = "answered" => Owed(k) \subseteq gets'[k].answer
      BY <3>0, <1>16 DEF NothingOwedIsLost
    <3>3. ASSUME NEW q \in Runs, Loading(q, k)', k \notin runs'[q].need
          PROVE  Owed(k) \subseteq runs'[q].got[k]
      <4>1. Loading(q, k) /\ q \notin done
        BY <3>3, <1>15
      <4>2. CASE q \notin waiting
        BY <3>0, <3>3, <4>1, <4>2, <1>13 DEF NothingOwedIsLost
      <4>3. CASE q \in waiting
        <5>1. k \in runs[q].load.keys /\ runs'[q] = table[q]
          BY <4>1, <4>3, <1>13 DEF Loading
        <5>2. CASE k = k0
          BY <4>3, <5>1, <5>2, <2>4, <1>12
        <5>3. CASE k # k0
          <6>1. k \notin runs[q].need
            BY <3>3, <4>3, <5>1, <5>3, <1>12
          <6>2. QED
            BY <3>0, <4>1, <4>3, <5>1, <5>3, <6>1, <1>12 DEF NothingOwedIsLost
        <5>4. QED
          BY <5>2, <5>3
      <4>4. QED
        BY <4>2, <4>3
    <3>4. Owed(k) \subseteq shown'[k] \/ Reading(k)'
      <4>1. CASE \A r \in done : k \notin table[r].load.keys
        <5>1. shown'[k] = shown[k]
          BY <4>1, <1>10
        <5>2. \A r \in done : ~Loading(r, k)
          BY <4>1, <1>7, <1>12 DEF Loading
        <5>3. QED
          BY <3>0, <5>1, <5>2, <2>2, <2>3 DEF NothingOwedIsLost
      <4>2. CASE \E r \in done : k \in table[r].load.keys
        <5>1. PICK r \in done : k \in table[r].load.keys /\ shown'[k] = table[r].got[k]
          BY <4>2, <1>10
        <5>2. r \in waiting /\ r \in Runs /\ Loading(r, k)
          BY <5>1, <1>2, <1>7, <1>12 DEF Loading
        <5>3. k # k0 => k \notin runs[r].need
          BY <5>1, <1>13
        <5>4. CASE k = k0
          BY <5>1, <5>2, <5>4, <2>4, <1>12
        <5>5. CASE k # k0
          BY <3>0, <5>1, <5>2, <5>3, <5>5, <1>12 DEF NothingOwedIsLost
        <5>6. QED
          BY <5>4, <5>5
      <4>3. QED
        BY <4>1, <4>2
    <3>5. QED
      BY <2>1, <3>1, <3>2, <3>3, <3>4 DEF NothingOwedIsLost
  <2>8. SentIsShown(k)'
    <3>1. CASE Changers(k) = {} /\ LateOf(k) = {}
      <4>1. Changers(k)' = {} /\ LateOf(k)' = {}
        BY <3>1, <1>15
      <4>2. QED
        BY <4>1 DEF SentIsShown
    <3>2. CASE Changers(k) # {} \/ LateOf(k) # {}
      <4>1. shown'[k] = shown[k]
        BY <3>2, <2>1, <2>5 DEF Keeps, OneAtATime
      <4>2. \A q \in Changers(k) : runs'[q] = runs[q]
        BY <1>2, <1>13 DEF Changers
      <4>3. QED
        BY <4>1, <4>2, <2>1, <1>3, <1>15 DEF Keeps, SentIsShown
    <3>3. QED
      BY <3>1, <3>2
  <2>9. QED
    BY <2>6, <2>7, <2>8 DEF Keeps
<1>20. QED
  BY <1>3, <1>14, <1>17, <1>18, <1>19 DEF PanelsInv

\* A request fails: what its readers wait for is not promised any longer (GetFails).
LEMMA GetFailsKeeps ==
  ASSUME PanelsInv, NEW k0 \in KeysHere, GetFails(k0)
  PROVE  PanelsInv'
<1>1. PICK waiting : waiting = gets[k0].waiting
  OBVIOUS
<1>2. /\ waiting \subseteq Runs
      /\ \A r \in Runs : r \in waiting <=> runs[r].step = "loading" /\ k0 \in runs[r].need
      /\ \A r \in Runs : runs[r].step = "loading" =>
            runs[r].need \subseteq runs[r].load.keys /\ runs[r].load.keys \subseteq KeysHere
  BY <1>1 DEF PanelsInv, PanelShape, WaitersNeed, GetRecords, RunShape
<1>3. /\ UNCHANGED <<page, stored, memo, shown, late, mine, changes>>
      /\ gets[k0].stage # "idle"
      /\ mixed' = mixed \cup UNION {runs[r].load.keys : r \in waiting}
      /\ runs' = [r \in Runs |-> IF r \in waiting THEN NoRun ELSE runs[r]]
      /\ gets' = [j \in KeysHere |-> IF j = k0 THEN NoGet ELSE [gets[j] EXCEPT !.waiting = @ \ waiting]]
  BY <1>1 DEF GetFails
<1>4. /\ \A q \in Runs : q \notin waiting => runs'[q] = runs[q]
      /\ \A q \in Runs : q \in waiting => runs'[q].step = "none" /\ RunShape(runs'[q])
  BY <1>3, NothingRuns
<1>5. ASSUME NEW j \in KeysHere
      PROVE  /\ gets'[j] \in GetRecords
             /\ j = k0 => gets'[j].stage = "idle" /\ gets'[j].waiting = {}
             /\ j # k0 => /\ gets'[j].stage = gets[j].stage /\ gets'[j].answer = gets[j].answer
                          /\ gets'[j].waiting = gets[j].waiting \ waiting
  <2>1. gets[j] \in GetRecords /\ NoGet \in GetRecords /\ NoGet.stage = "idle" /\ NoGet.waiting = {}
    BY DEF PanelsInv, PanelShape, NoGet, GetRecords, Made
  <2>2. CASE j = k0
    BY <2>1, <2>2, <1>3
  <2>3. CASE j # k0
    <3> DEFINE left == [gets[j] EXCEPT !.waiting = @ \ waiting]
    <3>1. /\ left \in GetRecords /\ left.stage = gets[j].stage /\ left.answer = gets[j].answer
          /\ left.waiting = gets[j].waiting \ waiting
      BY <2>1 DEF GetRecords
    <3>2. gets'[j] = left
      BY <2>3, <1>3
    <3> HIDE DEF left
    <3>3. QED
      BY <2>3, <3>1, <3>2
  <2>4. QED
    BY <2>2, <2>3
<1>6. /\ KeysHere' = KeysHere /\ Made' = Made /\ GetRecords' = GetRecords /\ MemoRecords' = MemoRecords
      /\ \A x : RunShape(x) => RunShape(x)'
  BY <1>3, PageRests DEF PanelsInv
<1>7. /\ \A k : Changers(k)' = Changers(k) /\ LateOf(k)' = LateOf(k)
      /\ \A k : \A q \in Runs : Loading(q, k)' <=> Loading(q, k) /\ q \notin waiting
  <2>1. ASSUME NEW k, NEW q \in Runs
        PROVE  /\ q \in Changers(k)' <=> q \in Changers(k)
               /\ Loading(q, k)' <=> Loading(q, k) /\ q \notin waiting
    BY <1>2, <1>4 DEF Changers, Loading
  <2>2. ASSUME NEW k PROVE Changers(k)' = Changers(k)
    <3>1. Changers(k)' \subseteq Runs /\ Changers(k) \subseteq Runs
      BY DEF Changers
    <3>2. QED
      BY <2>1, <3>1
  <2>3. \A k : LateOf(k)' = LateOf(k)
    BY <1>3 DEF LateOf
  <2>4. QED
    BY <2>1, <2>2, <2>3
<1>8. PanelShape'
  <2>1. ASSUME NEW q \in Runs PROVE RunShape(runs[q])'
    <3>1. RunShape(runs'[q])
      BY <1>4 DEF PanelsInv, PanelShape
    <3>2. PICK x : x = runs'[q]
      OBVIOUS
    <3>3. RunShape(x)'
      BY <1>6, <3>1, <3>2
    <3>4. QED
      BY <3>2, <3>3
  <2>2. gets' \in [KeysHere -> GetRecords]
    BY <1>3, <1>5
  <2>3. \A k \in KeysHere : gets'[k].stage = "idle" => gets'[k].waiting = {}
    BY <1>5 DEF PanelsInv, PanelShape
  <2>4. runs' = [r \in Runs |-> runs'[r]]
    BY <1>3
  <2>5. QED
    BY <1>3, <1>6, <2>1, <2>2, <2>3, <2>4 DEF PanelsInv, PanelShape
<1>9. WaitersNeed'
  <2>1. ASSUME NEW q \in Runs, NEW k \in KeysHere
        PROVE  q \in gets'[k].waiting <=> runs'[q].step = "loading" /\ k \in runs'[q].need
    <3>0. q \in gets[k].waiting <=> runs[q].step = "loading" /\ k \in runs[q].need
      BY DEF PanelsInv, WaitersNeed
    <3>1. CASE k = k0
      BY <3>0, <3>1, <1>2, <1>4, <1>5
    <3>2. CASE k # k0
      BY <3>0, <3>2, <1>4, <1>5
    <3>3. QED
      BY <3>1, <3>2
  <2>2. QED
    BY <1>6, <2>1 DEF WaitersNeed
<1>10. ASSUME NEW k \in KeysHere, k \notin mixed' PROVE Keeps(k)'
  <2>1. Keeps(k) /\ Owed(k)' = Owed(k)
    BY <1>3, <1>10 DEF PanelsInv, Owed
  <2>2. \A q \in waiting : ~Loading(q, k)
    BY <1>3, <1>10 DEF Loading
  <2>3. Reading(k)' <=> Reading(k)
    <3>1. Reading(k) <=> \E q \in Runs : Loading(q, k)
      BY DEF Reading, Loading
    <3>2. Reading(k)' <=> \E q \in Runs : Loading(q, k)'
      BY DEF Reading, Loading
    <3>3. QED
      BY <3>1, <3>2, <2>2, <1>7
  <2>4. k # k0
    <3>1. CASE k = k0
      <4>1. waiting # {}
        BY <3>1, <2>1, <1>1, <1>3 DEF Keeps, OneAtATime
      <4>2. \A q \in waiting : Loading(q, k)
        BY <3>1, <1>2 DEF Loading
      <4>3. QED
        BY <4>1, <4>2, <2>2
    <3>2. QED
      BY <3>1
  <2>5. gets[k].waiting \cap waiting = {}
    BY <2>2, <1>2 DEF PanelsInv, WaitersNeed, Loading
  <2>6. OneAtATime(k)'
    BY <1>3, <1>5, <1>7, <2>1, <2>3, <2>4, <2>5 DEF Keeps, OneAtATime
  <2>7. NothingOwedIsLost(k)'
    <3>1. \A q \in Runs : Loading(q, k)' => Loading(q, k) /\ runs'[q] = runs[q]
      BY <1>4, <1>7
    <3>2. gets'[k].stage = gets[k].stage /\ gets'[k].answer = gets[k].answer
      BY <2>4, <1>5
    <3>3. QED
      BY <3>1, <3>2, <1>3, <2>1, <2>3 DEF Keeps, NothingOwedIsLost
  <2>8. SentIsShown(k)'
    <3>1. \A q \in Changers(k) : runs'[q] = runs[q]
      BY <1>2, <1>4 DEF Changers
    <3>2. QED
      BY <3>1, <1>3, <1>7, <2>1 DEF Keeps, SentIsShown
  <2>9. QED
    BY <2>6, <2>7, <2>8 DEF Keeps
<1>11. QED
  BY <1>3, <1>6, <1>8, <1>9, <1>10 DEF PanelsInv

LEMMA PanelsInvStarts ==
  ASSUME PanelsInit
  PROVE  PanelsInv
<1>1. PanelShape
  <2>1. NoGet \in GetRecords /\ Forgotten \in MemoRecords /\ {} \in Made /\ NoGet.waiting = {}
    BY DEF NoGet, Forgotten, GetRecords, MemoRecords, Made
  <2>2. QED
    <3>1. /\ stored \in [KeysHere -> Made] /\ shown \in [KeysHere -> Made] /\ mine \in [KeysHere -> Made]
          /\ memo \in [KeysHere -> MemoRecords] /\ gets \in [KeysHere -> GetRecords]
          /\ \A k \in KeysHere : gets[k].waiting = {}
      <4>1. /\ stored = [k \in KeysHere |-> {}] /\ shown = [k \in KeysHere |-> {}]
            /\ mine = [k \in KeysHere |-> {}] /\ memo = [k \in KeysHere |-> Forgotten]
            /\ gets = [k \in KeysHere |-> NoGet]
        BY DEF PanelsInit
      <4>2. QED
        BY <2>1, <4>1
    <3>2. runs = [r \in Runs |-> runs[r]] /\ \A r \in Runs : RunShape(runs[r])
      BY NothingRuns DEF PanelsInit
    <3>3. page \in Pages /\ changes \in Nat /\ late = {}
      BY DEF PanelsInit
    <3>4. QED
      BY <3>1, <3>2, <3>3 DEF PanelShape
<1>2. \A k \in KeysHere : gets[k].stage = "idle" /\ gets[k].waiting = {} /\ ~memo[k].known /\ Owed(k) = {}
  BY DEF PanelsInit, NoGet, Forgotten, Owed
<1>3. \A r \in Runs : runs[r].step = "none"
  BY NothingRuns DEF PanelsInit
<1>4. WaitersNeed
  BY <1>2, <1>3 DEF WaitersNeed
<1>5. ASSUME NEW k \in KeysHere PROVE Keeps(k)
  <2>1. Changers(k) = {} /\ LateOf(k) = {} /\ \A r \in Runs : ~Loading(r, k)
    BY <1>3 DEF Changers, LateOf, Loading, PanelsInit
  <2>2. QED
    BY <1>2, <2>1 DEF Keeps, OneAtATime, NothingOwedIsLost, SentIsShown
<1>6. QED
  BY <1>1, <1>4, <1>5 DEF PanelsInv

LEMMA PanelsInvStep ==
  ASSUME PanelsInv, [PanelsNext]_panelVars
  PROVE  PanelsInv'
<1>1. ASSUME NEW load \in Here.loads, StartLoad(load) PROVE PanelsInv'
  BY <1>1, StartLoadKeeps
<1>2. ASSUME NEW handler \in Here.handlers, StartHandler(handler) PROVE PanelsInv'
  BY <1>2, StartHandlerKeeps
<1>3. ASSUME NEW r \in Runs, Change(r) PROVE PanelsInv'
  BY <1>3, ChangeKeeps
<1>4. ASSUME NEW r \in Runs, Changed(r) PROVE PanelsInv'
  BY <1>4, ChangedKeeps
<1>5. ASSUME NEW r \in Runs, ChangeFails(r) PROVE PanelsInv'
  BY <1>5, ChangeFailsKeeps
<1>6. ASSUME NEW k \in KeysHere, AnswerGet(k) PROVE PanelsInv'
  BY <1>6, AnswerGetKeeps
<1>7. ASSUME NEW k \in KeysHere, OtherChanges(k) PROVE PanelsInv'
  BY <1>7, OtherChangesKeep
<1>8. ASSUME NEW k \in KeysHere, Arrives(k) PROVE PanelsInv'
  BY <1>8, ArrivesKeeps
<1>9. ASSUME NEW k \in KeysHere, GetFails(k) PROVE PanelsInv'
  BY <1>9, GetFailsKeeps
<1>10. ASSUME NEW k \in KeysHere, MemoExpires(k) PROVE PanelsInv'
  BY <1>10, MemoExpiresKeeps
<1>11. CASE LateChange
  BY <1>11, LateChangeKeeps
<1>12. CASE UNCHANGED panelVars
  <2>1. UNCHANGED <<page, stored, memo, gets, shown, runs, late, mine, mixed, changes>>
    BY <1>12 DEF panelVars
  <2>2. /\ \A k : Changers(k)' = Changers(k) /\ LateOf(k)' = LateOf(k) /\ (Reading(k)' <=> Reading(k))
        /\ \A k : \A q \in Runs : Loading(q, k)' <=> Loading(q, k)
        /\ \A q \in Runs : RunShape(runs[q])'
        /\ KeysHere' = KeysHere /\ Made' = Made /\ GetRecords' = GetRecords /\ MemoRecords' = MemoRecords
    BY <2>1, RunsRest
  <2>3. PanelShape' /\ WaitersNeed'
    BY <2>1, <2>2 DEF PanelsInv, PanelShape, WaitersNeed
  <2>4. ASSUME NEW k \in KeysHere, k \notin mixed' PROVE Keeps(k)'
    BY <2>1, <2>2, <2>4 DEF PanelsInv, Keeps, OneAtATime, NothingOwedIsLost, SentIsShown, Owed
  <2>5. QED
    BY <2>2, <2>3, <2>4 DEF PanelsInv
<1>13. QED
  BY <1>1, <1>2, <1>3, <1>4, <1>5, <1>6, <1>7, <1>8, <1>9, <1>10, <1>11, <1>12 DEF PanelsNext

\* PanelsInv says that a quiet page shows its changes.
LEMMA QuietPageShows ==
  ASSUME PanelsInv
  PROVE  ShowsItsChanges
<1>1. ASSUME Quiet, NEW k \in KeysHere \ mixed PROVE Owed(k) \subseteq shown[k]
  BY <1>1 DEF Quiet, PanelsInv, Keeps, NothingOwedIsLost, Reading
<1>2. QED
  BY <1>1 DEF ShowsItsChanges, Owed

\* No page makes more changes than the model lets it, nor leaves anything but changes behind.
PanelBounds ==
    changes <= MaxChanges /\ late \subseteq [key : KeysHere, whole : BOOLEAN, sent : SUBSET Nat]

LEMMA PanelBoundsStep ==
  ASSUME PanelsInv, PanelBounds, [PanelsNext]_panelVars
  PROVE  PanelBounds'
<1>1. KeysHere' = KeysHere
  <2>1. page' = page
    BY DEF PanelsNext, panelVars, StartLoad, StartHandler, Change, Changed, ChangeFails, AnswerGet,
       OtherChanges, Arrives, GetFails, MemoExpires, LateChange
  <2>2. QED
    BY <2>1 DEF KeysHere, Here, PageNamed
<1>2. changes' <= MaxChanges
  <2>1. changes' = changes \/ (changes < MaxChanges /\ changes' = changes + 1)
    BY DEF PanelsNext, panelVars, StartLoad, StartHandler, Change, Changed, ChangeFails, AnswerGet,
       OtherChanges, Arrives, GetFails, MemoExpires, LateChange
  <2>2. QED
    BY <2>1, PanelsAssumption DEF PanelsInv, PanelShape, PanelBounds
<1>3. CASE late' \subseteq late
  BY <1>1, <1>2, <1>3 DEF PanelBounds
<1>4. ASSUME NEW r \in Runs, ChangeFails(r) PROVE PanelBounds'
  <2>1. PICK w : /\ w = [key |-> runs[r].handler.key, whole |-> runs[r].handler.whole, sent |-> runs[r].sent]
                 /\ late' \subseteq late \cup {w}
    BY <1>4 DEF ChangeFails
  <2>2. w \in [key : KeysHere, whole : BOOLEAN, sent : SUBSET Nat]
    <3>1. GoodHandler(runs[r].handler) /\ runs[r].sent \in Made
      BY <1>4 DEF ChangeFails, PanelsInv, PanelShape, RunShape
    <3>2. Made \subseteq SUBSET Nat
      BY DEF Made
    <3>3. QED
      BY <2>1, <3>1, <3>2 DEF GoodHandler, KeepsUp
  <2>3. QED
    BY <1>1, <1>2, <2>1, <2>2 DEF PanelBounds
<1>5. late' \subseteq late \/ \E r \in Runs : ChangeFails(r)
  <2>1. late' # late => (\E r \in Runs : ChangeFails(r)) \/ LateChange
    BY DEF PanelsNext, panelVars, StartLoad, StartHandler, Change, Changed, AnswerGet, OtherChanges,
       Arrives, GetFails, MemoExpires
  <2>2. LateChange => late' \subseteq late
    BY DEF LateChange
  <2>3. QED
    BY <2>1, <2>2
<1>6. QED
  BY <1>3, <1>4, <1>5

LEMMA PanelsTyped ==
  ASSUME PanelsInv, PanelBounds
  PROVE  PanelsTypeOK
<1>1. Made \subseteq SUBSET (1..MaxChanges)
  BY PanelsAssumption DEF Made, PanelBounds, PanelsInv, PanelShape
<1>2. \A k \in KeysHere : /\ stored[k] \in Made /\ shown[k] \in Made
                          /\ gets[k] \in GetRecords /\ memo[k] \in MemoRecords
  BY DEF PanelsInv, PanelShape
<1>3. \A k \in KeysHere : gets[k].waiting \subseteq Runs /\ memo[k].known \in BOOLEAN
  BY <1>2 DEF GetRecords, MemoRecords
<1>4. late \subseteq [key : KeysHere, whole : BOOLEAN, sent : SUBSET (1..MaxChanges)]
  BY <1>1 DEF PanelBounds, PanelsInv, PanelShape
<1>5. \A r \in Runs : runs[r].step \in {"none", "asked", "changed", "loading"}
  BY DEF PanelsInv, PanelShape, RunShape
<1>6. page \in Pages
  BY DEF PanelsInv, PanelShape
<1>7. QED
  BY <1>1, <1>2, <1>3, <1>4, <1>5, <1>6 DEF PanelsTypeOK

LEMMA PanelsInvariance == PanelsSpec => [](PanelsInv /\ PanelBounds)
<1>1. PanelsInit => PanelsInv /\ PanelBounds
  BY PanelsInvStarts, PanelsAssumption DEF PanelsInit, PanelBounds
<1>2. PanelsInv /\ PanelBounds /\ [PanelsNext]_panelVars => PanelsInv' /\ PanelBounds'
  BY PanelsInvStep, PanelBoundsStep
<1>3. QED
  BY <1>1, <1>2, PTL DEF PanelsSpec

-----------------------------------------------------------------------------
(* The administration as a whole: one part runs, the others rest.           *)

LEMMA TabTyped == AdminSessionSpec => []AdminSessionTypeOK
<1>1. AdminSessionInit => AdminSessionTypeOK
  BY DEF AdminSessionInit, AdminSessionTypeOK
<1>2. AdminSessionTypeOK /\ [AdminSessionNext]_adminSessionVars => AdminSessionTypeOK'
  <2> SUFFICES ASSUME AdminSessionTypeOK, [AdminSessionNext]_adminSessionVars PROVE AdminSessionTypeOK'
    OBVIOUS
  <2> USE DEF AdminSessionTypeOK
  <2>1. CASE UNCHANGED adminSessionVars
    BY <2>1 DEF adminSessionVars
  <2>2. ASSUME NEW where \in {"login", "panel"}, Visit(where) PROVE AdminSessionTypeOK'
    BY <2>2 DEF Visit, MayAsk
  <2>3. CASE Redirect
    BY <2>3 DEF Redirect, LoadProfile, MayAsk
  <2>4. CASE ProfileServed
    BY <2>4 DEF ProfileServed
  <2>5. CASE ProfileAccepted
    BY <2>5 DEF ProfileAccepted
  <2>6. CASE ProfileRefused
    BY <2>6 DEF ProfileRefused
  <2>7. CASE ProfileLost
    BY <2>7 DEF ProfileLost
  <2>8. CASE AskChallenge
    BY <2>8 DEF AskChallenge
  <2>9. CASE Verified
    BY <2>9 DEF Verified
  <2>10. CASE SignedIn
    BY <2>10 DEF SignedIn
  <2>11. CASE SignInFails
    BY <2>11 DEF SignInFails
  <2>12. CASE Leave
    BY <2>12 DEF Leave, MarkSignedOut
  <2>13. CASE Left
    BY <2>13 DEF Left, MarkSignedOut
  <2>14. CASE OtherTabSignsIn
    BY <2>14 DEF OtherTabSignsIn
  <2>15. QED
    BY <2>1, <2>2, <2>3, <2>4, <2>5, <2>6, <2>7, <2>8, <2>9, <2>10, <2>11, <2>12, <2>13, <2>14
       DEF AdminSessionNext
<1>3. QED
  BY <1>1, <1>2, PTL DEF AdminSessionSpec

LEMMA PartsRun == AdministrationSpec => FundingSpec /\ AccountsSpec /\ AdminSessionSpec /\ PanelsSpec
<1> DEFINE Step == FundingPart \/ AccountsPart \/ TabPart \/ PanelsPart
<1> DEFINE all == <<part, allVars, accountVars, adminSessionVars, panelVars>>
<1>1. AdministrationInit => FundingInit /\ AccountsInit /\ AdminSessionInit /\ PanelsInit
  BY DEF AdministrationInit
<1>2. [Step]_all => [FundingNext]_allVars
  BY DEF FundingPart, AccountsPart, TabPart, PanelsPart
<1>3. [Step]_all => [AccountsNext]_accountVars
  BY DEF FundingPart, AccountsPart, TabPart, PanelsPart
<1>4. [Step]_all => [AdminSessionNext]_adminSessionVars
  BY DEF FundingPart, AccountsPart, TabPart, PanelsPart
<1>5. [Step]_all => [PanelsNext]_panelVars
  BY DEF FundingPart, AccountsPart, TabPart, PanelsPart
<1>6. QED
  BY <1>1, <1>2, <1>3, <1>4, <1>5, PTL
     DEF AdministrationSpec, FundingSpec, AccountsSpec, AdminSessionSpec, PanelsSpec

\* Every variable of the administration keeps its shape.
THEOREM AdministrationTypeCorrect == AdministrationSpec => []AdministrationTypeOK
<1>1. AccountsInv => AccountsTypeOK
  BY DEF AccountsInv
<1>2. PanelsInv /\ PanelBounds => PanelsTypeOK
  BY PanelsTyped
<1>3. QED
  BY <1>1, <1>2, PartsRun, FundingTypeCorrect, AccountsInvariance, TabTyped, PanelsInvariance, PTL
     DEF AdministrationTypeOK

LEMMA UpdatesAsAsked == AccountsSpec => UpdatesWhatWasAsked
<1>1. AccountsInv /\ [AccountsNext]_accountVars =>
        [\A r \in Edits : edit[r].kind = "update" /\ edit[r].pc = "writing"
              /\ account'[edit[r].target] # account[edit[r].target] /\ edit'[r].pc = "idle" /\ ~raced' =>
           /\ edit[r].askedRole = Unasked => account'[edit[r].target].role = account[edit[r].target].role
           /\ edit[r].askedActive = Unasked => account'[edit[r].target].active = account[edit[r].target].active]_accountVars
  BY UpdatesStep
<1>2. QED
  BY <1>1, AccountsInvariance, PTL DEF AccountsSpec, UpdatesWhatWasAsked

\* An administrator who signed out of a tab stays so, an active super administrator is
\* left, and an update changes what it names and nothing else; where no other request
\* wrote in between (use-admin-auth.ts, and updateAdmin and deleteAdmin of auth.service.ts).
THEOREM AdministratorsStand == AdministrationSpec => AdminsStandUnraced
<1>1. TabInv /\ AccountsInv => SignedOutStays /\ SuperAdminRemainsUnraced
  BY DEF TabInv, AccountsInv
<1>2. QED
  BY <1>1, PartsRun, TabInvariance, AccountsInvariance, UpdatesAsAsked, PTL DEF AdminsStandUnraced

\* A page at rest shows every change it made that is still stored (requestJson of
\* api-request.ts with the handlers of every page).
THEOREM PanelsShowChanges == AdministrationSpec => []ShowsItsChanges
<1>1. PanelsInv => ShowsItsChanges
  BY QuietPageShows
<1>2. QED
  BY <1>1, PartsRun, PanelsInvariance, PTL

\* Every vault holds what it held at first and what executed batches brought to it, less
\* what was paid to stakers, to the last unit (execute_funding_batch beside
\* claim_stake_position).
THEOREM VaultsOweNothing == AdministrationSpec => []VaultOwesNothing
  BY PartsRun, VaultInvariance, PTL

\* A funding batch of the administration pays at most once, within its approval.
THEOREM AdministrationPaysOnce == AdministrationSpec => []BatchPaysOnce
  BY PartsRun, BatchPaidOnce, PTL
-----------------------------------------------------------------------------
(***************************************************************************)
(* The staking administration of the API.                                  *)
(***************************************************************************)
\* The part of the shape that the argument needs; amounts play no role.
RequestFields == {"pc", "action", "wallet", "multisig", "liability", "planned"}
Executing == {"loaded", "sent", "confirmed", "recorded"}
ActionShape ==
    /\ situation \in Situation
    /\ request = [s \in Sessions |-> request[s]]
    /\ \A s \in Sessions : DOMAIN request[s] = RequestFields
    /\ tx \in [Sessions -> {"unsent", "pending", "landed", "reverted", "dead"}]
    /\ call \in [Calls -> [pc: Executing \cup {"idle", "done", "failed"}, session: Sessions]]
    /\ projection \in [Sessions -> {"none", "APPROVED", "EXECUTED"}]
    /\ events \in [Sessions -> Nat]

\* From its session on a request stands, whatever becomes of its transaction and of the
\* calls that execute it; only a funding batch takes several steps to get there.
RequestStands ==
    /\ \A s \in Sessions :
          s \in session \/ tx[s] # "unsent" \/ projection[s] = "EXECUTED"
              => request[s].pc = "prepared"
    /\ \A s \in Sessions :
          request[s].pc \in {"liability", "planned", "approved"} => request[s].action = Funding
    /\ \A c \in Calls : call[c].pc \in Executing => request[call[c].session].pc = "prepared"

\* An execute call confirms what has landed, and logs what it has projected.
CallsConfirm ==
    \A c \in Calls :
        /\ call[c].pc \in {"confirmed", "recorded"} => tx[call[c].session] = "landed"
        /\ call[c].pc = "recorded" => projection[call[c].session] = "EXECUTED"

\* An account is initialised by at most one landed transaction, and by none before it exists.
AccountOf(action) == IF action \in PoolActions THEN pool ELSE swap
Winners(action) == {s \in Sessions : request[s].action = action /\ tx[s] = "landed"}
OneWinner ==
    ~situation.account.exists => \A action \in BootstrapActions :
        IF AccountOf(action).exists
        THEN \E s \in Sessions : /\ Winners(action) = {s}
                                 /\ AccountOf(action).operator = request[s].wallet
        ELSE Winners(action) = {}

\* On mainnet a bootstrap is prepared with the configured multisig, and none without one.
UnderMultisig ==
    (env.network = "mainnet" /\ env.requireMultisig) => \A s \in Sessions :
        request[s].pc = "prepared" /\ request[s].action \in BootstrapActions =>
            env.multisig # NoKey /\ request[s].multisig = env.multisig

ActionInv ==
    /\ ActionShape /\ RequestStands /\ CallsConfirm /\ OneWinner /\ UnderMultisig
    /\ ExecutedIsOnChain /\ MainnetUnderMultisig

LEMMA InitActionInv == AdminInit => ActionInv
<1> SUFFICES ASSUME AdminInit PROVE ActionInv
  OBVIOUS
<1> USE AdminAssumption DEF AdminInit, NoRequest
<1>1. PICK s0 \in Sessions : s0 = CHOOSE s \in Sessions : TRUE
  OBVIOUS
<1>2. call = [c \in Calls |-> [pc |-> "idle", session |-> s0]]
  BY <1>1
<1>4. ActionShape
  BY <1>2 DEF ActionShape, RequestFields, Executing, Situation
<1>5. RequestStands /\ CallsConfirm /\ ExecutedIsOnChain
  BY <1>2 DEF RequestStands, CallsConfirm, ExecutedIsOnChain, Executing
<1>6. OneWinner /\ UnderMultisig /\ MainnetUnderMultisig
  BY DEF OneWinner, AccountOf, Winners, UnderMultisig, MainnetUnderMultisig, env
<1> QED
  BY <1>4, <1>5, <1>6 DEF ActionInv

LEMMA ShapeStep == ActionShape /\ [AdminNext]_adminStakingVars => ActionShape'
<1> SUFFICES ASSUME ActionShape, [AdminNext]_adminStakingVars PROVE ActionShape'
  OBVIOUS
<1> USE DEF ActionShape, RequestFields, Executing, chainVars, mirrorVars
<1>1. CASE UNCHANGED adminStakingVars
  BY <1>1 DEF adminStakingVars
<1>2. ASSUME NEW s \in Sessions, NEW action \in ConfigActions, NEW w \in Admins, NEW given \in
             Keys, PrepareConfig(s, action, w, given)
      PROVE  ActionShape'
  BY <1>2 DEF PrepareConfig
<1>3. ASSUME NEW s \in Sessions, NEW w \in Admins, NEW given \in Keys, ReadLiability(s, w,
             given)
      PROVE  ActionShape'
  BY <1>3 DEF ReadLiability
<1>4. ASSUME NEW s \in Sessions, ReadVault(s) PROVE ActionShape'
  BY <1>4 DEF ReadVault
<1>5. ASSUME NEW s \in Sessions, RecordApproval(s) PROVE ActionShape'
  BY <1>5 DEF RecordApproval, Planned
<1>6. ASSUME NEW s \in Sessions, SaveSession(s) PROVE ActionShape'
  BY <1>6 DEF SaveSession
<1>7. ASSUME NEW s \in Sessions, GiveUpPreparing(s) PROVE ActionShape'
  BY <1>7 DEF GiveUpPreparing
<1>8. ASSUME NEW s \in Sessions, SessionExpires(s) PROVE ActionShape'
  BY <1>8 DEF SessionExpires
<1>9. ASSUME NEW s \in Sessions, Land(s) PROVE ActionShape'
  BY <1>9 DEF Land
<1>10. ASSUME NEW s \in Sessions, BlockhashExpires(s) PROVE ActionShape'
  BY <1>10 DEF BlockhashExpires
<1>11. ASSUME NEW c \in Calls, NEW s \in Sessions, NEW w \in Admins, LoadSession(c, s, w)
      PROVE  ActionShape'
  BY <1>11 DEF LoadSession
<1>12. ASSUME NEW c \in Calls, SendTransaction(c) PROVE ActionShape'
  BY <1>12 DEF SendTransaction, CallPc
<1>13. ASSUME NEW c \in Calls, ConfirmTransaction(c) PROVE ActionShape'
  BY <1>13 DEF ConfirmTransaction, CallPc, Confirmed
<1>14. ASSUME NEW c \in Calls, LoseConfirmation(c) PROVE ActionShape'
  BY <1>14 DEF LoseConfirmation, CallPc
<1>15. ASSUME NEW c \in Calls, RecordExecution(c) PROVE ActionShape'
  BY <1>15 DEF RecordExecution, CallPc
<1>16. ASSUME NEW c \in Calls, RecordEvent(c) PROVE ActionShape'
  BY <1>16 DEF RecordEvent, CallPc, Recorded
<1>17. ASSUME NEW c \in Calls, MirrorWriteFails(c) PROVE ActionShape'
  BY <1>17 DEF MirrorWriteFails, CallPc
<1>18. ASSUME NEW p \in Positions, OpenPosition(p) PROVE ActionShape'
  BY <1>18 DEF OpenPosition
<1>19. ASSUME NEW p \in Positions, ClaimPosition(p) PROVE ActionShape'
  BY <1>19 DEF ClaimPosition
<1>20. ASSUME NEW p \in Positions, MirrorPosition(p) PROVE ActionShape'
  BY <1>20 DEF MirrorPosition
<1> QED
  BY <1>1, <1>2, <1>3, <1>4, <1>5, <1>6, <1>7, <1>8, <1>9, <1>10, <1>11, <1>12, <1>13,
     <1>14, <1>15, <1>16, <1>17, <1>18, <1>19, <1>20
  DEF AdminNext, Prepare, Execute

LEMMA RequestStandsStep ==
  ASSUME ActionShape, RequestStands, [AdminNext]_adminStakingVars
  PROVE  RequestStands'
<1> USE DEF ActionShape, RequestFields, Executing, RequestStands, chainVars, mirrorVars
<1>1. CASE UNCHANGED adminStakingVars
  BY <1>1 DEF adminStakingVars
<1>2. ASSUME NEW s \in Sessions, NEW action \in ConfigActions, NEW w \in Admins, NEW given \in
             Keys, PrepareConfig(s, action, w, given)
      PROVE  RequestStands'
  BY <1>2 DEF PrepareConfig
<1>3. ASSUME NEW s \in Sessions, NEW w \in Admins, NEW given \in Keys, ReadLiability(s, w,
             given)
      PROVE  RequestStands'
  BY <1>3 DEF ReadLiability
<1>4. ASSUME NEW s \in Sessions, ReadVault(s) PROVE RequestStands'
  BY <1>4 DEF ReadVault
<1>5. ASSUME NEW s \in Sessions, RecordApproval(s) PROVE RequestStands'
  BY <1>5 DEF RecordApproval, Planned
<1>6. ASSUME NEW s \in Sessions, SaveSession(s) PROVE RequestStands'
  BY <1>6 DEF SaveSession
<1>7. ASSUME NEW s \in Sessions, GiveUpPreparing(s) PROVE RequestStands'
  BY <1>7 DEF GiveUpPreparing
<1>8. ASSUME NEW s \in Sessions, SessionExpires(s) PROVE RequestStands'
  BY <1>8 DEF SessionExpires
<1>9. ASSUME NEW s \in Sessions, Land(s) PROVE RequestStands'
  BY <1>9 DEF Land
<1>10. ASSUME NEW s \in Sessions, BlockhashExpires(s) PROVE RequestStands'
  BY <1>10 DEF BlockhashExpires
<1>11. ASSUME NEW c \in Calls, NEW s \in Sessions, NEW w \in Admins, LoadSession(c, s, w)
      PROVE  RequestStands'
  BY <1>11 DEF LoadSession
<1>12. ASSUME NEW c \in Calls, SendTransaction(c) PROVE RequestStands'
  BY <1>12 DEF SendTransaction, CallPc
<1>13. ASSUME NEW c \in Calls, ConfirmTransaction(c) PROVE RequestStands'
  BY <1>13 DEF ConfirmTransaction, CallPc, Confirmed
<1>14. ASSUME NEW c \in Calls, LoseConfirmation(c) PROVE RequestStands'
  BY <1>14 DEF LoseConfirmation, CallPc
<1>15. ASSUME NEW c \in Calls, RecordExecution(c) PROVE RequestStands'
  BY <1>15 DEF RecordExecution, CallPc
<1>16. ASSUME NEW c \in Calls, RecordEvent(c) PROVE RequestStands'
  BY <1>16 DEF RecordEvent, CallPc, Recorded
<1>17. ASSUME NEW c \in Calls, MirrorWriteFails(c) PROVE RequestStands'
  BY <1>17 DEF MirrorWriteFails, CallPc
<1>18. ASSUME NEW p \in Positions, OpenPosition(p) PROVE RequestStands'
  BY <1>18 DEF OpenPosition
<1>19. ASSUME NEW p \in Positions, ClaimPosition(p) PROVE RequestStands'
  BY <1>19 DEF ClaimPosition
<1>20. ASSUME NEW p \in Positions, MirrorPosition(p) PROVE RequestStands'
  BY <1>20 DEF MirrorPosition
<1> QED
  BY <1>1, <1>2, <1>3, <1>4, <1>5, <1>6, <1>7, <1>8, <1>9, <1>10, <1>11, <1>12, <1>13,
     <1>14, <1>15, <1>16, <1>17, <1>18, <1>19, <1>20
  DEF AdminNext, Prepare, Execute

LEMMA ConfirmStep ==
  ASSUME ActionShape, RequestStands, CallsConfirm, ExecutedIsOnChain, [AdminNext]_adminStakingVars
  PROVE  CallsConfirm' /\ ExecutedIsOnChain'
<1> USE DEF ActionShape, RequestFields, Executing, RequestStands, CallsConfirm,
      ExecutedIsOnChain, chainVars, mirrorVars
<1>1. CASE UNCHANGED adminStakingVars
  BY <1>1 DEF adminStakingVars
<1>2. ASSUME NEW s \in Sessions, NEW action \in ConfigActions, NEW w \in Admins, NEW given \in
             Keys, PrepareConfig(s, action, w, given)
      PROVE  CallsConfirm' /\ ExecutedIsOnChain'
  BY <1>2 DEF PrepareConfig
<1>3. ASSUME NEW s \in Sessions, NEW w \in Admins, NEW given \in Keys, ReadLiability(s, w,
             given)
      PROVE  CallsConfirm' /\ ExecutedIsOnChain'
  BY <1>3 DEF ReadLiability
<1>4. ASSUME NEW s \in Sessions, ReadVault(s) PROVE CallsConfirm' /\ ExecutedIsOnChain'
  BY <1>4 DEF ReadVault
<1>5. ASSUME NEW s \in Sessions, RecordApproval(s) PROVE CallsConfirm' /\ ExecutedIsOnChain'
  BY <1>5 DEF RecordApproval, Planned
<1>6. ASSUME NEW s \in Sessions, SaveSession(s) PROVE CallsConfirm' /\ ExecutedIsOnChain'
  BY <1>6 DEF SaveSession
<1>7. ASSUME NEW s \in Sessions, GiveUpPreparing(s) PROVE CallsConfirm' /\ ExecutedIsOnChain'
  BY <1>7 DEF GiveUpPreparing
<1>8. ASSUME NEW s \in Sessions, SessionExpires(s) PROVE CallsConfirm' /\ ExecutedIsOnChain'
  BY <1>8 DEF SessionExpires
<1>9. ASSUME NEW s \in Sessions, Land(s) PROVE CallsConfirm' /\ ExecutedIsOnChain'
  BY <1>9 DEF Land
<1>10. ASSUME NEW s \in Sessions, BlockhashExpires(s) PROVE CallsConfirm' /\ ExecutedIsOnChain'
  BY <1>10 DEF BlockhashExpires
<1>11. ASSUME NEW c \in Calls, NEW s \in Sessions, NEW w \in Admins, LoadSession(c, s, w)
      PROVE  CallsConfirm' /\ ExecutedIsOnChain'
  BY <1>11 DEF LoadSession
<1>12. ASSUME NEW c \in Calls, SendTransaction(c) PROVE CallsConfirm' /\ ExecutedIsOnChain'
  BY <1>12 DEF SendTransaction, CallPc
<1>13. ASSUME NEW c \in Calls, ConfirmTransaction(c) PROVE CallsConfirm' /\ ExecutedIsOnChain'
  BY <1>13 DEF ConfirmTransaction, CallPc, Confirmed
<1>14. ASSUME NEW c \in Calls, LoseConfirmation(c) PROVE CallsConfirm' /\ ExecutedIsOnChain'
  BY <1>14 DEF LoseConfirmation, CallPc
<1>15. ASSUME NEW c \in Calls, RecordExecution(c) PROVE CallsConfirm' /\ ExecutedIsOnChain'
  <2>1. tx[call[c].session] = "landed"
    BY <1>15 DEF RecordExecution
  <2>2. CallsConfirm'
    BY <1>15, <2>1 DEF RecordExecution, CallPc
  <2>3. ExecutedIsOnChain'
    BY <1>15, <2>1 DEF RecordExecution
  <2> QED
    BY <2>2, <2>3
<1>16. ASSUME NEW c \in Calls, RecordEvent(c) PROVE CallsConfirm' /\ ExecutedIsOnChain'
  BY <1>16 DEF RecordEvent, CallPc, Recorded
<1>17. ASSUME NEW c \in Calls, MirrorWriteFails(c) PROVE CallsConfirm' /\ ExecutedIsOnChain'
  BY <1>17 DEF MirrorWriteFails, CallPc
<1>18. ASSUME NEW p \in Positions, OpenPosition(p) PROVE CallsConfirm' /\ ExecutedIsOnChain'
  BY <1>18 DEF OpenPosition
<1>19. ASSUME NEW p \in Positions, ClaimPosition(p) PROVE CallsConfirm' /\ ExecutedIsOnChain'
  BY <1>19 DEF ClaimPosition
<1>20. ASSUME NEW p \in Positions, MirrorPosition(p) PROVE CallsConfirm' /\ ExecutedIsOnChain'
  BY <1>20 DEF MirrorPosition
<1> QED
  BY <1>1, <1>2, <1>3, <1>4, <1>5, <1>6, <1>7, <1>8, <1>9, <1>10, <1>11, <1>12, <1>13,
     <1>14, <1>15, <1>16, <1>17, <1>18, <1>19, <1>20
  DEF AdminNext, Prepare, Execute

\* What OneWinner looks at stands still.
WinnersRest ==
    /\ UNCHANGED <<situation, pool, swap>>
    /\ \A s \in Sessions :
          /\ tx'[s] = "landed" <=> tx[s] = "landed"
          /\ tx[s] = "landed" => /\ request'[s].action = request[s].action
                                 /\ request'[s].wallet = request[s].wallet

LEMMA RestingWinners ==
  ASSUME OneWinner, WinnersRest
  PROVE  OneWinner'
<1>1. \A action \in BootstrapActions : Winners(action)' = Winners(action)
  BY DEF WinnersRest, Winners
<1>2. \A action \in BootstrapActions : AccountOf(action)' = AccountOf(action)
  BY DEF WinnersRest, AccountOf
<1>3. \A action \in BootstrapActions : \A s \in Winners(action) : request'[s].wallet =
      request[s].wallet
  BY DEF WinnersRest, Winners
<1> QED
  BY <1>1, <1>2, <1>3 DEF OneWinner, WinnersRest

LEMMA OnlyLandingWins ==
  ASSUME ActionShape, RequestStands, [AdminNext]_adminStakingVars, \A s \in Sessions : ~Land(s)
  PROVE  WinnersRest
<1> USE DEF ActionShape, RequestFields, Executing, RequestStands, WinnersRest, chainVars,
      mirrorVars
<1>1. CASE UNCHANGED adminStakingVars
  BY <1>1 DEF adminStakingVars
<1>2. ASSUME NEW s \in Sessions, NEW action \in ConfigActions, NEW w \in Admins, NEW given \in
             Keys, PrepareConfig(s, action, w, given)
      PROVE  WinnersRest
  BY <1>2 DEF PrepareConfig
<1>3. ASSUME NEW s \in Sessions, NEW w \in Admins, NEW given \in Keys, ReadLiability(s, w,
             given)
      PROVE  WinnersRest
  BY <1>3 DEF ReadLiability
<1>4. ASSUME NEW s \in Sessions, ReadVault(s) PROVE WinnersRest
  BY <1>4 DEF ReadVault
<1>5. ASSUME NEW s \in Sessions, RecordApproval(s) PROVE WinnersRest
  BY <1>5 DEF RecordApproval, Planned
<1>6. ASSUME NEW s \in Sessions, SaveSession(s) PROVE WinnersRest
  BY <1>6 DEF SaveSession
<1>7. ASSUME NEW s \in Sessions, GiveUpPreparing(s) PROVE WinnersRest
  BY <1>7 DEF GiveUpPreparing
<1>8. ASSUME NEW s \in Sessions, SessionExpires(s) PROVE WinnersRest
  BY <1>8 DEF SessionExpires
<1>9. ASSUME NEW s \in Sessions, BlockhashExpires(s) PROVE WinnersRest
  BY <1>9 DEF BlockhashExpires
<1>10. ASSUME NEW c \in Calls, NEW s \in Sessions, NEW w \in Admins, LoadSession(c, s, w)
      PROVE  WinnersRest
  BY <1>10 DEF LoadSession
<1>11. ASSUME NEW c \in Calls, SendTransaction(c) PROVE WinnersRest
  BY <1>11 DEF SendTransaction, CallPc
<1>12. ASSUME NEW c \in Calls, ConfirmTransaction(c) PROVE WinnersRest
  BY <1>12 DEF ConfirmTransaction, CallPc, Confirmed
<1>13. ASSUME NEW c \in Calls, LoseConfirmation(c) PROVE WinnersRest
  BY <1>13 DEF LoseConfirmation, CallPc
<1>14. ASSUME NEW c \in Calls, RecordExecution(c) PROVE WinnersRest
  BY <1>14 DEF RecordExecution, CallPc
<1>15. ASSUME NEW c \in Calls, RecordEvent(c) PROVE WinnersRest
  BY <1>15 DEF RecordEvent, CallPc, Recorded
<1>16. ASSUME NEW c \in Calls, MirrorWriteFails(c) PROVE WinnersRest
  BY <1>16 DEF MirrorWriteFails, CallPc
<1>17. ASSUME NEW p \in Positions, OpenPosition(p) PROVE WinnersRest
  BY <1>17 DEF OpenPosition
<1>18. ASSUME NEW p \in Positions, ClaimPosition(p) PROVE WinnersRest
  BY <1>18 DEF ClaimPosition
<1>19. ASSUME NEW p \in Positions, MirrorPosition(p) PROVE WinnersRest
  BY <1>19 DEF MirrorPosition
<1> QED
  BY <1>1, <1>2, <1>3, <1>4, <1>5, <1>6, <1>7, <1>8, <1>9, <1>10, <1>11, <1>12, <1>13,
     <1>14, <1>15, <1>16, <1>17, <1>18, <1>19
  DEF AdminNext, Prepare, Execute

\* A landing makes a winner only of an account that did not exist, and makes it exist.
LEMMA WinnerStep ==
  ASSUME ActionShape, RequestStands, OneWinner, [AdminNext]_adminStakingVars
  PROVE  OneWinner'
<1>1. CASE \A s \in Sessions : ~Land(s)
  BY <1>1, OnlyLandingWins, RestingWinners
<1>2. ASSUME NEW s \in Sessions, Land(s) PROVE OneWinner'
  <2> DEFINE act == request[s].action
  <2>1. situation' = situation /\ request' = request /\ tx[s] = "pending"
    BY <1>2 DEF Land
  <2>2. CASE tx'[s] = "landed" /\ act \in BootstrapActions
    <3>1. /\ ~AccountOf(act).exists
          /\ AccountOf(act)' = [exists |-> TRUE, operator |-> request[s].wallet,
                                multisig |-> request[s].multisig]
          /\ tx' = [tx EXCEPT ![s] = "landed"]
      BY <1>2, <2>2 DEF Land, ActionShape, ProgramAccepts, Uninitialised, AccountOf,
         BootstrapActions,
         PoolActions, Funding
    <3>2. \A action \in BootstrapActions \ {act} :
            AccountOf(action)' = AccountOf(action)
      BY <1>2, <2>2 DEF Land, AccountOf, BootstrapActions, PoolActions, Funding
    <3>3. \A action \in BootstrapActions \ {act} : Winners(action)' = Winners(action)
      BY <3>1, <2>1 DEF Winners, ActionShape
    <3>4. ~situation.account.exists => Winners(act)' = {s}
      BY <3>1, <2>1, <2>2 DEF Winners, ActionShape, OneWinner
    <3> QED
      BY <2>1, <2>2, <3>1, <3>2, <3>3, <3>4 DEF OneWinner
  <2>3. CASE ~(tx'[s] = "landed" /\ act \in BootstrapActions)
    <3>1. UNCHANGED <<pool, swap>>
      BY <1>2, <2>3 DEF Land, ActionShape, BootstrapActions
    <3>2. \A action \in BootstrapActions : Winners(action)' = Winners(action)
      BY <1>2, <2>1, <2>3 DEF Land, Winners, ActionShape
    <3> QED
      BY <2>1, <3>1, <3>2 DEF OneWinner, AccountOf
  <2> QED
    BY <2>2, <2>3
<1> QED
  BY <1>1, <1>2

LEMMA MultisigStep ==
  ASSUME ActionShape, RequestStands, UnderMultisig, MainnetUnderMultisig, [AdminNext]_adminStakingVars
  PROVE  UnderMultisig' /\ MainnetUnderMultisig'
<1> USE DEF ActionShape, RequestFields, RequestStands, UnderMultisig, MainnetUnderMultisig, env,
      BootstrapActions, PoolActions, Funding, chainVars, mirrorVars
<1>1. CASE UNCHANGED adminStakingVars
  BY <1>1 DEF adminStakingVars
<1>2. ASSUME NEW s \in Sessions, NEW action \in ConfigActions, NEW w \in Admins, NEW given \in
             Keys, PrepareConfig(s, action, w, given)
      PROVE  UnderMultisig' /\ MainnetUnderMultisig'
  BY <1>2 DEF PrepareConfig, CriticalActionAllowed, BootstrapMultisig
<1>3. ASSUME NEW s \in Sessions, NEW w \in Admins, NEW given \in Keys, ReadLiability(s, w,
             given)
      PROVE  UnderMultisig' /\ MainnetUnderMultisig'
  BY <1>3 DEF ReadLiability
<1>4. ASSUME NEW s \in Sessions, ReadVault(s) PROVE UnderMultisig' /\ MainnetUnderMultisig'
  BY <1>4 DEF ReadVault
<1>5. ASSUME NEW s \in Sessions, RecordApproval(s) PROVE UnderMultisig' /\ MainnetUnderMultisig'
  BY <1>5 DEF RecordApproval, Planned
<1>6. ASSUME NEW s \in Sessions, SaveSession(s) PROVE UnderMultisig' /\ MainnetUnderMultisig'
  BY <1>6 DEF SaveSession
<1>7. ASSUME NEW s \in Sessions, GiveUpPreparing(s) PROVE UnderMultisig' /\ MainnetUnderMultisig'
  BY <1>7 DEF GiveUpPreparing
<1>8. ASSUME NEW s \in Sessions, SessionExpires(s) PROVE UnderMultisig' /\ MainnetUnderMultisig'
  BY <1>8 DEF SessionExpires
<1>9. ASSUME NEW s \in Sessions, Land(s) PROVE UnderMultisig' /\ MainnetUnderMultisig'
  BY <1>9 DEF Land, ProgramAccepts
<1>10. ASSUME NEW s \in Sessions, BlockhashExpires(s)
      PROVE  UnderMultisig' /\ MainnetUnderMultisig'
  BY <1>10 DEF BlockhashExpires
<1>11. ASSUME NEW c \in Calls, NEW s \in Sessions, NEW w \in Admins, LoadSession(c, s, w)
      PROVE  UnderMultisig' /\ MainnetUnderMultisig'
  BY <1>11 DEF LoadSession
<1>12. ASSUME NEW c \in Calls, SendTransaction(c) PROVE UnderMultisig' /\ MainnetUnderMultisig'
  BY <1>12 DEF SendTransaction, CallPc
<1>13. ASSUME NEW c \in Calls, ConfirmTransaction(c)
      PROVE  UnderMultisig' /\ MainnetUnderMultisig'
  BY <1>13 DEF ConfirmTransaction, CallPc, Confirmed
<1>14. ASSUME NEW c \in Calls, LoseConfirmation(c) PROVE UnderMultisig' /\ MainnetUnderMultisig'
  BY <1>14 DEF LoseConfirmation, CallPc
<1>15. ASSUME NEW c \in Calls, RecordExecution(c) PROVE UnderMultisig' /\ MainnetUnderMultisig'
  BY <1>15 DEF RecordExecution, CallPc
<1>16. ASSUME NEW c \in Calls, RecordEvent(c) PROVE UnderMultisig' /\ MainnetUnderMultisig'
  BY <1>16 DEF RecordEvent, CallPc, Recorded
<1>17. ASSUME NEW c \in Calls, MirrorWriteFails(c) PROVE UnderMultisig' /\ MainnetUnderMultisig'
  BY <1>17 DEF MirrorWriteFails, CallPc
<1>18. ASSUME NEW p \in Positions, OpenPosition(p) PROVE UnderMultisig' /\ MainnetUnderMultisig'
  BY <1>18 DEF OpenPosition
<1>19. ASSUME NEW p \in Positions, ClaimPosition(p) PROVE UnderMultisig' /\ MainnetUnderMultisig'
  BY <1>19 DEF ClaimPosition
<1>20. ASSUME NEW p \in Positions, MirrorPosition(p)
      PROVE  UnderMultisig' /\ MainnetUnderMultisig'
  BY <1>20 DEF MirrorPosition
<1> QED
  BY <1>1, <1>2, <1>3, <1>4, <1>5, <1>6, <1>7, <1>8, <1>9, <1>10, <1>11, <1>12, <1>13,
     <1>14, <1>15, <1>16, <1>17, <1>18, <1>19, <1>20
  DEF AdminNext, Prepare, Execute

LEMMA ActionInvariant == AdminSpec => []ActionInv
<1>1. AdminInit => ActionInv
  BY InitActionInv
<1>2. ActionInv /\ [AdminNext]_adminStakingVars => ActionInv'
  BY ShapeStep, RequestStandsStep, ConfirmStep, WinnerStep, MultisigStep DEF ActionInv
<1> QED
  BY <1>1, <1>2, PTL DEF AdminSpec

LEMMA OneWinnerIsOnce == OneWinner => InitialisedOnce
<1> SUFFICES ASSUME OneWinner, ~situation.account.exists, NEW action \in BootstrapActions
             PROVE  /\ Cardinality(Winners(action)) = IF AccountOf(action).exists THEN 1 ELSE 0
                    /\ \A s \in Winners(action) : AccountOf(action).operator = request[s].wallet
  BY DEF InitialisedOnce, Winners, AccountOf
<1>1. CASE AccountOf(action).exists
  BY <1>1, FS_Singleton DEF OneWinner
<1>2. CASE ~AccountOf(action).exists
  BY <1>2, FS_EmptySet DEF OneWinner
<1> QED
  BY <1>1, <1>2

\* However confirmations get lost, transactions revert, executions are retried and two
\* administrators prepare one initialisation: a batch the mirror shows executed has landed,
\* one initialisation took effect for who signed it, and mainnet has its multisig.
THEOREM ShowsExecuted == AdminSpec => []ShowsWhatWasExecuted
<1>1. ActionInv => ShowsWhatWasExecuted
  BY OneWinnerIsOnce DEF ActionInv, ShowsWhatWasExecuted
<1> QED
  BY <1>1, ActionInvariant, PTL

LEMMA ExecutedStep ==
  ASSUME ActionShape, RequestStands, [AdminNext]_adminStakingVars,
         NEW q \in Sessions, projection[q] = "EXECUTED"
  PROVE  projection'[q] = "EXECUTED"
<1> USE DEF ActionShape, RequestStands, chainVars, mirrorVars
<1>1. CASE UNCHANGED adminStakingVars
  BY <1>1 DEF adminStakingVars
<1>2. ASSUME NEW s \in Sessions, NEW action \in ConfigActions, NEW w \in Admins, NEW given \in
             Keys, PrepareConfig(s, action, w, given)
      PROVE  projection'[q] = "EXECUTED"
  BY <1>2 DEF PrepareConfig
<1>3. ASSUME NEW s \in Sessions, NEW w \in Admins, NEW given \in Keys, ReadLiability(s, w,
             given)
      PROVE  projection'[q] = "EXECUTED"
  BY <1>3 DEF ReadLiability
<1>4. ASSUME NEW s \in Sessions, ReadVault(s) PROVE projection'[q] = "EXECUTED"
  BY <1>4 DEF ReadVault
<1>5. ASSUME NEW s \in Sessions, RecordApproval(s) PROVE projection'[q] = "EXECUTED"
  BY <1>5 DEF RecordApproval, Planned
<1>6. ASSUME NEW s \in Sessions, SaveSession(s) PROVE projection'[q] = "EXECUTED"
  BY <1>6 DEF SaveSession
<1>7. ASSUME NEW s \in Sessions, GiveUpPreparing(s) PROVE projection'[q] = "EXECUTED"
  BY <1>7 DEF GiveUpPreparing
<1>8. ASSUME NEW s \in Sessions, SessionExpires(s) PROVE projection'[q] = "EXECUTED"
  BY <1>8 DEF SessionExpires
<1>9. ASSUME NEW s \in Sessions, Land(s) PROVE projection'[q] = "EXECUTED"
  BY <1>9 DEF Land
<1>10. ASSUME NEW s \in Sessions, BlockhashExpires(s) PROVE projection'[q] = "EXECUTED"
  BY <1>10 DEF BlockhashExpires
<1>11. ASSUME NEW c \in Calls, NEW s \in Sessions, NEW w \in Admins, LoadSession(c, s, w)
      PROVE  projection'[q] = "EXECUTED"
  BY <1>11 DEF LoadSession
<1>12. ASSUME NEW c \in Calls, SendTransaction(c) PROVE projection'[q] = "EXECUTED"
  BY <1>12 DEF SendTransaction, CallPc
<1>13. ASSUME NEW c \in Calls, ConfirmTransaction(c) PROVE projection'[q] = "EXECUTED"
  BY <1>13 DEF ConfirmTransaction, CallPc, Confirmed
<1>14. ASSUME NEW c \in Calls, LoseConfirmation(c) PROVE projection'[q] = "EXECUTED"
  BY <1>14 DEF LoseConfirmation, CallPc
<1>15. ASSUME NEW c \in Calls, RecordExecution(c) PROVE projection'[q] = "EXECUTED"
  BY <1>15 DEF RecordExecution, CallPc
<1>16. ASSUME NEW c \in Calls, RecordEvent(c) PROVE projection'[q] = "EXECUTED"
  BY <1>16 DEF RecordEvent, CallPc, Recorded
<1>17. ASSUME NEW c \in Calls, MirrorWriteFails(c) PROVE projection'[q] = "EXECUTED"
  BY <1>17 DEF MirrorWriteFails, CallPc
<1>18. ASSUME NEW p \in Positions, OpenPosition(p) PROVE projection'[q] = "EXECUTED"
  BY <1>18 DEF OpenPosition
<1>19. ASSUME NEW p \in Positions, ClaimPosition(p) PROVE projection'[q] = "EXECUTED"
  BY <1>19 DEF ClaimPosition
<1>20. ASSUME NEW p \in Positions, MirrorPosition(p) PROVE projection'[q] = "EXECUTED"
  BY <1>20 DEF MirrorPosition
<1> QED
  BY <1>1, <1>2, <1>3, <1>4, <1>5, <1>6, <1>7, <1>8, <1>9, <1>10, <1>11, <1>12, <1>13,
     <1>14, <1>15, <1>16, <1>17, <1>18, <1>19, <1>20
  DEF AdminNext, Prepare, Execute

\* An executed batch is never shown as pending again, although every write of the projection
\* overwrites what it finds.
THEOREM ExecutedLasts == AdminSpec => ExecutedStays
<1>1. ActionInv /\ [AdminNext]_adminStakingVars =>
        [\A s \in Sessions : projection[s] = "EXECUTED" => projection'[s] = "EXECUTED"]_adminStakingVars
  BY ExecutedStep DEF ActionInv
<1> QED
  BY <1>1, ActionInvariant, PTL DEF AdminSpec, ExecutedStays
-----------------------------------------------------------------------------
(* The shape of every request, and what the sums add.                      *)

\* What a prepare request may hold.
RequestRecords ==
    [pc: {"idle", "liability", "planned", "refused", "approved", "prepared", "failed"},
     action: ConfigActions \cup {Funding}, wallet: Keys, multisig: Keys,
     liability: Nat, planned: Nat]

\* A liability is a sum of payouts over finitely many positions.
LEMMA LiabilityIsNat == OpenLiability \in Nat
<1>1. IsFiniteSet({p \in Positions : mirror[p] = "ACTIVE"})
  BY AdminAssumption, FS_Subset
<1>2. \A p \in {p \in Positions : mirror[p] = "ACTIVE"} : Payout[p] \in Nat
  BY AdminAssumption
<1> QED
  BY <1>1, <1>2, SumIsNat DEF OpenLiability

LEMMA InitAdminType == AdminInit => AdminTypeOK
<1> SUFFICES ASSUME AdminInit PROVE AdminTypeOK
  OBVIOUS
<1> USE AdminAssumption DEF AdminInit, NoRequest
<1>1. PICK s0 \in Sessions : s0 = CHOOSE s \in Sessions : TRUE
  OBVIOUS
<1>2. call = [c \in Calls |-> [pc |-> "idle", session |-> s0]]
  BY <1>1
<1>3. situation \in Situation /\ situation.account \in Accounts
  BY DEF Situation
<1>4. NoRequest \in RequestRecords
  BY DEF RequestRecords, Keys
<1> QED
  BY <1>2, <1>3, <1>4 DEF AdminTypeOK, RequestRecords

LEMMA AdminTypeStep == AdminTypeOK /\ [AdminNext]_adminStakingVars => AdminTypeOK'
<1> SUFFICES ASSUME AdminTypeOK, [AdminNext]_adminStakingVars PROVE AdminTypeOK'
  OBVIOUS
<1> USE DEF AdminTypeOK, chainVars, mirrorVars
<1>0. request \in [Sessions -> RequestRecords]
  BY DEF RequestRecords
<1>1. CASE UNCHANGED adminStakingVars
  BY <1>1 DEF adminStakingVars
<1>2. ASSUME NEW s \in Sessions, NEW action \in ConfigActions, NEW w \in Admins, NEW given \in
             Keys, PrepareConfig(s, action, w, given)
      PROVE  AdminTypeOK'
  <2>0. BootstrapMultisig(given, w) \in Keys /\ w \in Keys
    BY DEF BootstrapMultisig, GivenOrWallet, Keys, env, Situation, Environment
  <2>1. request[s] \in RequestRecords
    BY <1>0
  <2>2. [request[s] EXCEPT !.pc = "prepared", !.action = action, !.wallet = w,
                        !.multisig = BootstrapMultisig(given, w)] \in RequestRecords
    BY <2>1, <2>0 DEF RequestRecords
  <2>3. request' \in [Sessions -> RequestRecords]
    BY <1>2, <1>0, <2>2 DEF PrepareConfig
  <2> QED
    BY <1>2, <2>3 DEF PrepareConfig, RequestRecords
<1>3. ASSUME NEW s \in Sessions, NEW w \in Admins, NEW given \in Keys, ReadLiability(s, w,
             given)
      PROVE  AdminTypeOK'
  <2>1. request[s] \in RequestRecords
    BY <1>0
  <2>2. [request[s] EXCEPT !.pc = "liability", !.action = Funding, !.wallet = w,
                        !.liability = OpenLiability] \in RequestRecords
    BY <2>1, LiabilityIsNat DEF RequestRecords, Keys
  <2>3. request' \in [Sessions -> RequestRecords]
    BY <1>3, <1>0, <2>2 DEF ReadLiability
  <2> QED
    BY <1>3, <2>3 DEF ReadLiability, RequestRecords
<1>4. ASSUME NEW s \in Sessions, ReadVault(s) PROVE AdminTypeOK'
  <2>0. Deficit(s) \in Nat
    <3>1. request[s].liability \in Nat
      BY <1>0 DEF RequestRecords
    <3> QED
      BY <3>1 DEF Deficit, NatDiff
  <2>1. request[s] \in RequestRecords
    BY <1>0
  <2>2. [request[s] EXCEPT !.pc = IF Deficit(s) = 0 THEN "refused" ELSE "planned",
                        !.planned = Deficit(s)] \in RequestRecords
    BY <2>1, <2>0 DEF RequestRecords
  <2>3. request' \in [Sessions -> RequestRecords]
    BY <1>4, <1>0, <2>2 DEF ReadVault
  <2> QED
    BY <1>4, <2>3 DEF ReadVault, RequestRecords
<1>5. ASSUME NEW s \in Sessions, RecordApproval(s) PROVE AdminTypeOK'
  <2>1. request[s] \in RequestRecords
    BY <1>0
  <2>2. [request[s] EXCEPT !.pc = "approved"] \in RequestRecords
    BY <2>1 DEF RequestRecords
  <2>3. request' \in [Sessions -> RequestRecords]
    BY <1>5, <1>0, <2>2 DEF RecordApproval, Planned
  <2> QED
    BY <1>5, <2>3 DEF RecordApproval, Planned, RequestRecords
<1>6. ASSUME NEW s \in Sessions, SaveSession(s) PROVE AdminTypeOK'
  <2>1. request[s] \in RequestRecords
    BY <1>0
  <2>2. [request[s] EXCEPT !.pc = "prepared"] \in RequestRecords
    BY <2>1 DEF RequestRecords
  <2>3. request' \in [Sessions -> RequestRecords]
    BY <1>6, <1>0, <2>2 DEF SaveSession
  <2> QED
    BY <1>6, <2>3 DEF SaveSession, RequestRecords
<1>7. ASSUME NEW s \in Sessions, GiveUpPreparing(s) PROVE AdminTypeOK'
  <2>1. request[s] \in RequestRecords
    BY <1>0
  <2>2. [request[s] EXCEPT !.pc = "failed"] \in RequestRecords
    BY <2>1 DEF RequestRecords
  <2>3. request' \in [Sessions -> RequestRecords]
    BY <1>7, <1>0, <2>2 DEF GiveUpPreparing
  <2> QED
    BY <1>7, <2>3 DEF GiveUpPreparing, RequestRecords
<1>8. ASSUME NEW s \in Sessions, SessionExpires(s) PROVE AdminTypeOK'
  BY <1>8 DEF SessionExpires
<1>9. ASSUME NEW s \in Sessions, Land(s) PROVE AdminTypeOK'
  <2>1. pool' \in Accounts /\ swap' \in Accounts /\ vault' \in Nat
    <3>1. request[s].planned \in Nat /\ request[s].wallet \in Keys /\ request[s].multisig \in Keys
      BY <1>0 DEF RequestRecords
    <3>2. [exists |-> TRUE, operator |-> request[s].wallet, multisig |-> request[s].multisig] \in Accounts
      BY <3>1 DEF Accounts
    <3>3. PICK new \in Accounts :
             new = [exists |-> TRUE, operator |-> request[s].wallet, multisig |-> request[s].multisig]
      BY <3>2
    <3>4. pool \in Accounts /\ swap \in Accounts /\ vault \in Nat
      OBVIOUS
    <3>5. \/ pool' = pool /\ swap' = swap /\ vault' = vault
          \/ /\ pool' = new \/ pool' = pool
             /\ swap' = new \/ swap' = swap
             /\ vault' = vault \/ vault' = vault + request[s].planned
      BY <1>9, <3>3 DEF Land
    <3>6. vault' \in Nat
      BY <3>1, <3>4, <3>5
    <3>7. pool' \in Accounts /\ swap' \in Accounts
      <4> HIDE DEF AdminTypeOK
      <4> QED
        BY <3>3, <3>4, <3>5
    <3> QED
      BY <3>6, <3>7
  <2>2. tx' \in [Sessions -> {"unsent", "pending", "landed", "reverted", "dead"}]
    BY <1>9 DEF Land
  <2>3. UNCHANGED <<situation, stake, mirrorVars, request, session, call, paidSince>>
    BY <1>9 DEF Land
  <2>4. {pool', swap'} \subseteq Accounts
    BY <2>1
  <2> QED
    BY <2>1, <2>2, <2>3, <2>4
<1>10. ASSUME NEW s \in Sessions, BlockhashExpires(s) PROVE AdminTypeOK'
  BY <1>10 DEF BlockhashExpires
<1>11. ASSUME NEW c \in Calls, NEW s \in Sessions, NEW w \in Admins, LoadSession(c, s, w)
      PROVE  AdminTypeOK'
  BY <1>11 DEF LoadSession
<1>12. ASSUME NEW c \in Calls, SendTransaction(c) PROVE AdminTypeOK'
  BY <1>12 DEF SendTransaction, CallPc
<1>13. ASSUME NEW c \in Calls, ConfirmTransaction(c) PROVE AdminTypeOK'
  BY <1>13 DEF ConfirmTransaction, CallPc, Confirmed
<1>14. ASSUME NEW c \in Calls, LoseConfirmation(c) PROVE AdminTypeOK'
  BY <1>14 DEF LoseConfirmation, CallPc
<1>15. ASSUME NEW c \in Calls, RecordExecution(c) PROVE AdminTypeOK'
  <2>1. projection' \in [Sessions -> {"none", "APPROVED", "EXECUTED"}]
    BY <1>15 DEF RecordExecution
  <2>2. call' = CallPc(c, "recorded") \/ call' = CallPc(c, "done")
    BY <1>15 DEF RecordExecution
  <2>3. UNCHANGED <<situation, chainVars, mirror, events, request, session, tx, paidSince>>
    BY <1>15 DEF RecordExecution
  <2>4. call' \in [Calls ->
         [pc: {"idle", "loaded", "sent", "confirmed", "recorded", "done", "failed"},
          session: Sessions]]
    <3>1. CASE call' = CallPc(c, "recorded")
      BY <3>1 DEF CallPc
    <3>2. CASE call' = CallPc(c, "done")
      BY <3>2 DEF CallPc
    <3> QED
      BY <2>2, <3>1, <3>2
  <2> QED
    BY <2>1, <2>3, <2>4
<1>16. ASSUME NEW c \in Calls, RecordEvent(c) PROVE AdminTypeOK'
  BY <1>16 DEF RecordEvent, CallPc, Recorded
<1>17. ASSUME NEW c \in Calls, MirrorWriteFails(c) PROVE AdminTypeOK'
  BY <1>17 DEF MirrorWriteFails, CallPc
<1>18. ASSUME NEW p \in Positions, OpenPosition(p) PROVE AdminTypeOK'
  BY <1>18 DEF OpenPosition
<1>19. ASSUME NEW p \in Positions, ClaimPosition(p) PROVE AdminTypeOK'
  <2>1. Payout[p] \in Nat /\ vault >= Payout[p]
    BY <1>19, AdminAssumption DEF ClaimPosition
  <2>2. vault' \in Nat
    BY <1>19, <2>1 DEF ClaimPosition
  <2>4. paidSince' \in [Sessions -> Nat]
    BY <1>19, <2>1 DEF ClaimPosition
  <2>3. stake' \in [Positions -> {"none", "open", "paid"}]
    BY <1>19 DEF ClaimPosition
  <2> QED
    BY <1>19, <2>2, <2>3, <2>4 DEF ClaimPosition
<1>20. ASSUME NEW p \in Positions, MirrorPosition(p) PROVE AdminTypeOK'
  BY <1>20 DEF MirrorPosition
<1> QED
  BY <1>1, <1>2, <1>3, <1>4, <1>5, <1>6, <1>7, <1>8, <1>9, <1>10, <1>11, <1>12, <1>13,
     <1>14, <1>15, <1>16, <1>17, <1>18, <1>19, <1>20
  DEF AdminNext, Prepare, Execute

\* Every request, transaction, call and row of the mirror keeps its shape, and no vault,
\* liability or claim goes below zero (staking-admin-execution.service.ts).
THEOREM AdminTyped == AdminSpec => []AdminTypeOK
  BY InitAdminType, AdminTypeStep, PTL DEF AdminSpec

-----------------------------------------------------------------------------
(* A batch covers what it saw.                                             *)

\* Until its batch lands, what the vault holds, what is planned for it and what was paid
\* since make up the liability a request has read.
PlanCovers ==
    \A s \in Sessions :
        request[s].pc \in {"planned", "approved", "prepared"} /\ request[s].action = Funding
            => vault + request[s].planned + paidSince[s] >= request[s].liability

LEMMA PlanCoversStep ==
  AdminTypeOK /\ RequestStands /\ PlanCovers /\ [AdminNext]_adminStakingVars => PlanCovers'
<1> SUFFICES ASSUME AdminTypeOK, RequestStands, PlanCovers, [AdminNext]_adminStakingVars,
                    NEW q \in Sessions,
                    request'[q].pc \in {"planned", "approved", "prepared"},
                    request'[q].action = Funding
             PROVE  vault' + request'[q].planned + paidSince'[q] >= request'[q].liability
  BY DEF PlanCovers
<1> USE DEF chainVars, mirrorVars
<1>0. /\ request \in [Sessions -> RequestRecords] /\ request[q] \in RequestRecords
      /\ vault \in Nat /\ paidSince[q] \in Nat
      /\ request[q].planned \in Nat /\ request[q].liability \in Nat
  BY DEF AdminTypeOK, RequestRecords
<1>a. request[q].pc \in {"planned", "approved", "prepared"} /\ request[q].action = Funding
        => vault + request[q].planned + paidSince[q] >= request[q].liability
  BY DEF PlanCovers
<1>u. ASSUME UNCHANGED <<vault, paidSince, request>>
      PROVE  vault' + request'[q].planned + paidSince'[q] >= request'[q].liability
  BY <1>a, <1>u
<1>1. CASE UNCHANGED adminStakingVars
  BY <1>1, <1>u DEF adminStakingVars
<1>2. ASSUME NEW s \in Sessions, NEW action \in ConfigActions, NEW w \in Admins, NEW given \in
             Keys, PrepareConfig(s, action, w, given)
      PROVE  vault' + request'[q].planned + paidSince'[q] >= request'[q].liability
  <2>1. CASE q = s
    <3>1. request'[q].action = action
      BY <1>2, <1>0, <2>1 DEF PrepareConfig, RequestRecords
    <3> QED
      BY <3>1 DEF ConfigActions, BootstrapActions, UpdateActions, Funding
  <2>2. CASE q # s
    BY <1>2, <1>0, <1>a, <2>2 DEF PrepareConfig
  <2> QED
    BY <2>1, <2>2
<1>3. ASSUME NEW s \in Sessions, NEW w \in Admins, NEW given \in Keys, ReadLiability(s, w,
             given)
      PROVE  vault' + request'[q].planned + paidSince'[q] >= request'[q].liability
  <2>1. CASE q = s
    <3>1. request'[q].pc = "liability"
      BY <1>3, <1>0, <2>1 DEF ReadLiability, RequestRecords
    <3> QED
      BY <3>1
  <2>2. CASE q # s
    BY <1>3, <1>0, <1>a, <2>2 DEF ReadLiability
  <2> QED
    BY <2>1, <2>2
<1>4. ASSUME NEW s \in Sessions, ReadVault(s)
      PROVE  vault' + request'[q].planned + paidSince'[q] >= request'[q].liability
  <2>1. CASE q = s
    <3>1. request'[q].planned = Deficit(q) /\ request'[q].liability = request[q].liability
      BY <1>4, <1>0, <2>1 DEF ReadVault, RequestRecords
    <3>2. vault + Deficit(q) >= request[q].liability /\ Deficit(q) \in Nat
      BY <1>0 DEF Deficit, NatDiff
    <3>3. vault' = vault /\ paidSince' = paidSince
      BY <1>4 DEF ReadVault
    <3> QED
      BY <1>0, <3>1, <3>2, <3>3
  <2>2. CASE q # s
    BY <1>4, <1>0, <1>a, <2>2 DEF ReadVault
  <2> QED
    BY <2>1, <2>2
<1>5. ASSUME NEW s \in Sessions, RecordApproval(s)
      PROVE  vault' + request'[q].planned + paidSince'[q] >= request'[q].liability
  <2>1. /\ request'[q].planned = request[q].planned
        /\ request'[q].liability = request[q].liability
        /\ request'[q].action = request[q].action
        /\ request[q].pc \in {"planned", "approved", "prepared"}
    BY <1>5, <1>0 DEF RecordApproval, Planned, RequestRecords
  <2> QED
    BY <1>5, <1>a, <2>1 DEF RecordApproval
<1>6. ASSUME NEW s \in Sessions, SaveSession(s)
      PROVE  vault' + request'[q].planned + paidSince'[q] >= request'[q].liability
  <2>1. /\ request'[q].planned = request[q].planned
        /\ request'[q].liability = request[q].liability
        /\ request'[q].action = request[q].action
        /\ request[q].pc \in {"planned", "approved", "prepared"}
    BY <1>6, <1>0 DEF SaveSession, RequestRecords
  <2> QED
    BY <1>6, <1>a, <2>1 DEF SaveSession
<1>7. ASSUME NEW s \in Sessions, GiveUpPreparing(s)
      PROVE  vault' + request'[q].planned + paidSince'[q] >= request'[q].liability
  <2>1. CASE q = s
    <3>1. request'[q].pc = "failed"
      BY <1>7, <1>0, <2>1 DEF GiveUpPreparing, RequestRecords
    <3> QED
      BY <3>1
  <2>2. CASE q # s
    BY <1>7, <1>0, <1>a, <2>2 DEF GiveUpPreparing
  <2> QED
    BY <2>1, <2>2
<1>8. ASSUME NEW s \in Sessions, SessionExpires(s)
      PROVE  vault' + request'[q].planned + paidSince'[q] >= request'[q].liability
  BY <1>8, <1>u DEF SessionExpires
<1>9. ASSUME NEW s \in Sessions, Land(s)
      PROVE  vault' + request'[q].planned + paidSince'[q] >= request'[q].liability
  <2>1. request' = request /\ paidSince' = paidSince
    BY <1>9 DEF Land
  <2>2. request[s].planned \in Nat
    BY <1>0 DEF RequestRecords
  <2>3. vault' = vault \/ vault' = vault + request[s].planned
    BY <1>9 DEF Land
  <2>4. vault' >= vault /\ vault' \in Nat
    BY <1>0, <2>2, <2>3
  <2> QED
    BY <1>0, <1>a, <2>1, <2>4
<1>10. ASSUME NEW s \in Sessions, BlockhashExpires(s)
       PROVE  vault' + request'[q].planned + paidSince'[q] >= request'[q].liability
  BY <1>10, <1>u DEF BlockhashExpires
<1>11. ASSUME NEW c \in Calls, NEW s \in Sessions, NEW w \in Admins, LoadSession(c, s, w)
       PROVE  vault' + request'[q].planned + paidSince'[q] >= request'[q].liability
  BY <1>11, <1>u DEF LoadSession
<1>12. ASSUME NEW c \in Calls,
              SendTransaction(c) \/ ConfirmTransaction(c) \/ LoseConfirmation(c)
       PROVE  vault' + request'[q].planned + paidSince'[q] >= request'[q].liability
  BY <1>12, <1>u DEF SendTransaction, ConfirmTransaction, LoseConfirmation
<1>13. ASSUME NEW c \in Calls, RecordExecution(c) \/ RecordEvent(c) \/ MirrorWriteFails(c)
       PROVE  vault' + request'[q].planned + paidSince'[q] >= request'[q].liability
  BY <1>13, <1>u DEF RecordExecution, RecordEvent, MirrorWriteFails
<1>14. ASSUME NEW p \in Positions, OpenPosition(p) \/ MirrorPosition(p)
       PROVE  vault' + request'[q].planned + paidSince'[q] >= request'[q].liability
  BY <1>14, <1>u DEF OpenPosition, MirrorPosition
<1>15. ASSUME NEW p \in Positions, ClaimPosition(p)
       PROVE  vault' + request'[q].planned + paidSince'[q] >= request'[q].liability
  <2>1. Payout[p] \in Nat /\ vault >= Payout[p]
    BY <1>15, AdminAssumption DEF ClaimPosition
  <2>2. vault' = vault - Payout[p] /\ request' = request
    BY <1>15 DEF ClaimPosition
  <2>3. paidSince'[q] = paidSince[q] + Payout[p]
    BY <1>15, <2>2 DEF ClaimPosition
  <2> QED
    BY <1>0, <1>a, <2>1, <2>2, <2>3
<1> QED
  BY <1>1, <1>2, <1>3, <1>4, <1>5, <1>6, <1>7, <1>8, <1>9, <1>10, <1>11, <1>12, <1>13,
     <1>14, <1>15
  DEF AdminNext, Prepare, Execute

LEMMA LandingCovers ==
  ASSUME AdminTypeOK, RequestStands, PlanCovers, [AdminNext]_adminStakingVars,
         NEW s \in Sessions, tx'[s] = "landed", tx[s] = "pending", request[s].action = Funding
  PROVE  vault' + paidSince[s] >= request[s].liability
<1>1. Land(s)
  <2>0. tx'[s] # tx[s] /\ tx' # tx
    OBVIOUS
  <2>1. CASE UNCHANGED adminStakingVars
    BY <2>0, <2>1 DEF adminStakingVars
  <2>2. CASE \E q \in Sessions : Land(q)
    BY <2>2 DEF Land, AdminTypeOK
  <2>3. ASSUME NEW q \in Sessions, Prepare(q) PROVE tx' = tx
    BY <2>3 DEF Prepare, PrepareConfig, ReadLiability, ReadVault, RecordApproval, SaveSession,
       GiveUpPreparing, SessionExpires
  <2>4. ASSUME NEW q \in Sessions, BlockhashExpires(q) PROVE tx'[s] # "landed"
    BY <2>4 DEF BlockhashExpires, AdminTypeOK
  <2>5. ASSUME NEW c \in Calls, SendTransaction(c) PROVE tx'[s] # "landed"
    BY <2>5 DEF SendTransaction, AdminTypeOK
  <2>6. ASSUME NEW c \in Calls, Execute(c), ~SendTransaction(c) PROVE tx' = tx
    BY <2>6 DEF Execute, LoadSession, ConfirmTransaction, LoseConfirmation, RecordExecution,
       RecordEvent, MirrorWriteFails
  <2>7. ASSUME NEW p \in Positions, OpenPosition(p) \/ ClaimPosition(p) \/ MirrorPosition(p)
        PROVE  tx' = tx
    BY <2>7 DEF OpenPosition, ClaimPosition, MirrorPosition
  <2> QED
    BY <2>0, <2>1, <2>2, <2>3, <2>4, <2>5, <2>6, <2>7 DEF AdminNext
<1>2. vault' = vault + request[s].planned
  BY <1>1 DEF Land, AdminTypeOK
<1>3. request[s].pc = "prepared"
  BY DEF RequestStands
<1>4. vault + request[s].planned + paidSince[s] >= request[s].liability
  BY <1>3 DEF PlanCovers
<1>5. vault \in Nat /\ request[s].planned \in Nat /\ paidSince[s] \in Nat
      /\ request[s].liability \in Nat
  BY DEF AdminTypeOK
<1> QED
  BY <1>2, <1>4, <1>5

\* A batch executed stays executed in the mirror, and one that lands leaves the vault with
\* the liability it was prepared for, less what was paid out since: whatever else is
\* prepared, claimed and mirrored in between (prepareFundingBatch reads the mirror first
\* and the vault after it).
THEOREM BatchesWork == AdminSpec => BatchesDoTheirWork
<1>1. AdminInit => PlanCovers
  BY DEF AdminInit, NoRequest, PlanCovers
<1>2. AdminSpec => [](AdminTypeOK /\ RequestStands /\ PlanCovers)
  <2>1. ActionInv => RequestStands
    BY DEF ActionInv
  <2> QED
    BY <1>1, <2>1, PlanCoversStep, ActionInvariant, AdminTyped, PTL DEF AdminSpec
<1>3. AdminTypeOK /\ RequestStands /\ PlanCovers /\ [AdminNext]_adminStakingVars =>
        [\A s \in Sessions :
            (tx'[s] = "landed" /\ tx[s] = "pending" /\ request[s].action = Funding)
                => vault' + paidSince[s] >= request[s].liability]_adminStakingVars
  BY LandingCovers
<1> QED
  BY <1>2, <1>3, ExecutedLasts, PTL DEF AdminSpec, BatchesDoTheirWork, CoversWhatItSaw
=============================================================================
