---------------------------- MODULE PayoutRounding ----------------------------
(***************************************************************************)
(* What the API computes for a position and what the program accepts.  The *)
(* API works in fractional RA and rounds each amount it sends to whole     *)
(* micros on its own; the program insists that the whole micros add up.    *)
(*                                                                         *)
(* Fractional amounts are exact here, in units so small that a percentage  *)
(* of a percentage of an amount is whole.  The API's doubles come closer   *)
(* than that to the exact value for the amounts it allows.                 *)
(***************************************************************************)
EXTENDS Integers, FiniteSetsExt

CONSTANTS
    Steps,          \* amounts are told apart down to 1/Steps of a micro
    Principals,     \* principalRa of the quotes, in those steps
    Aprs,           \* per cent for the period
    FeeRates        \* claimFeeBps an administrator may set

ASSUME RoundingAssumption ==
    /\ Steps \in Nat \ {0} /\ Principals \subseteq Nat \ {0}
    /\ Aprs \subseteq Nat /\ FeeRates \subseteq 0 .. 10000

Micro == Steps * 100 * 10000    \* units in one micro

VARIABLES
    quote,      \* [principal, apr] of the stake being prepared
    feeBps,     \* SolanaRaSettings.claimFeeBps
    chain,      \* the position: "none", "open", "claimed"
    snapshot,   \* micros the program stored
    estimate,   \* WalletStakePosition.rewardEstimate
    refused,    \* whether the program refused the last transaction
    paid        \* micros paid out

payoutVars == <<quote, feeBps, chain, snapshot, estimate, refused, paid>>

-----------------------------------------------------------------------------

\* Math.round on a non-negative number.
toScaledU64(v) == (v + Micro \div 2) \div Micro

PrincipalRa(q) == q.principal * 100 * 10000
RewardRa(q) == q.principal * q.apr * 10000
PrincipalAlone(q) == PrincipalRa(q)
FinalRaPayout(q) == PrincipalRa(q) + RewardRa(q)

CreateArgs(q) ==
    [principal |-> toScaledU64(PrincipalRa(q)), reward |-> toScaledU64(RewardRa(q)),
     final |-> toScaledU64(FinalRaPayout(q))]

ClaimFeeRa(gross, bps) == (gross \div 10000) * bps

ClaimArgs(gross, bps) ==
    [gross |-> toScaledU64(gross), fee |-> toScaledU64(ClaimFeeRa(gross, bps)),
     net |-> toScaledU64(Max({0, gross - ClaimFeeRa(gross, bps)}))]

\* InvalidPayoutSnapshot and InvalidClaimSettlement.
AnySnapshot(a) == TRUE
SnapshotAddsUp(a) == a.principal + a.reward = a.final
GrossAlone(a, stored) == a.gross = stored.final
SettlementAddsUp(a, stored) == a.fee + a.net = a.gross /\ a.gross = stored.final

-----------------------------------------------------------------------------

NoSnapshot == [principal |-> 0, reward |-> 0, final |-> 0]

PayoutInit ==
    /\ quote \in [principal: Principals, apr: Aprs] /\ feeBps \in FeeRates
    /\ chain = "none" /\ snapshot = NoSnapshot
    /\ estimate = 0 /\ refused = FALSE /\ paid = 0

\* A stake after a refused one is quoted at the price of the moment.
Requote ==
    /\ chain = "none" /\ refused
    /\ quote' \in [principal: Principals, apr: {quote.apr}]
    /\ refused' = FALSE
    /\ UNCHANGED <<feeBps, chain, snapshot, estimate, paid>>

CreatePosition ==
    LET a == CreateArgs(quote) IN
    /\ chain = "none"
    /\ refused' = ~SnapshotAddsUp(a)
    /\ IF SnapshotAddsUp(a)
         THEN chain' = "open" /\ snapshot' = a /\ estimate' = FinalRaPayout(quote)
         ELSE UNCHANGED <<chain, snapshot, estimate>>
    /\ UNCHANGED <<quote, feeBps, paid>>

ClaimPosition ==
    LET a == ClaimArgs(estimate, feeBps) IN
    /\ chain = "open"
    /\ refused' = ~SettlementAddsUp(a, snapshot)
    /\ IF SettlementAddsUp(a, snapshot)
         THEN chain' = "claimed" /\ paid' = a.net
         ELSE UNCHANGED <<chain, paid>>
    /\ UNCHANGED <<quote, feeBps, snapshot, estimate>>

SetClaimFee ==
    /\ feeBps' \in FeeRates \ {feeBps}
    /\ UNCHANGED <<quote, chain, snapshot, estimate, refused, paid>>

PayoutNext == Requote \/ CreatePosition \/ ClaimPosition \/ SetClaimFee
PayoutSpec == PayoutInit /\ [][PayoutNext]_payoutVars

-----------------------------------------------------------------------------
(* Properties.                                                              *)

\* Every variable keeps its shape.
PayoutTypeOK ==
    /\ quote \in [principal: Principals, apr: Aprs] /\ feeBps \in FeeRates
    /\ chain \in {"none", "open", "claimed"}
    /\ snapshot.final = snapshot.principal + snapshot.reward
    /\ estimate \in Nat /\ refused \in BOOLEAN /\ paid \in 0 .. snapshot.final

Apart(a, b) == Max({a - b, b - a})

\* The three amounts of a stake, and of a claim, miss each other by at most one
\* micro, so that the program's refusals come from rounding and nothing else.
RoundingIsTheOnlyError ==
    LET c == CreateArgs(quote)
        d == ClaimArgs(estimate, feeBps) IN
    /\ Apart(c.principal + c.reward, c.final) <= 1
    /\ Apart(d.fee + d.net, d.gross) <= 1
    /\ chain = "open" => d.gross = snapshot.final

\* A claim that was accepted paid what the position locked less the fee, to half
\* a micro of the exact fee; the vault keeps that fee and nothing more.
PaysTheRoundedShare ==
    [][chain = "open" /\ chain' = "claimed" =>
          2 * Apart((snapshot.final - paid') * Micro, ClaimFeeRa(estimate, feeBps)) <= Micro]_payoutVars

\* A claim the API has prepared, of a position the program accepted and the API
\* recorded, satisfies what the program requires of its amounts.
ClaimIsAccepted == ~(refused /\ chain = "open")
=============================================================================
