----------------------------- MODULE MCConversion -----------------------------
(* The conversion of small balances: what a session is made of, by requests  *)
(* that share two caches (ConvertBuild), and its execution leg by leg        *)
(* (ConvertSession).  The two share no variable: every behaviour runs one of *)
(* them while the other rests in one initial state, so that their states add *)
(* up instead of multiplying.                                                *)
(*                                                                           *)
(* Two legs, the first of two transactions, and two execute requests, after  *)
(* another or at once.  Two requests build sessions of up to two tokens, one *)
(* after another or at once, with two turns of what is around them, or three *)
(* with a single request.                                                    *)
EXTENDS ConvertSession, ConvertBuild, TLC

MCTxCount == <<2, 1>>

VARIABLE part   \* which of the two runs

ConversionInit ==
    /\ ConvertInit /\ BuildInit
    /\ part \in {"convert", "build"}
    /\ \A t \in Tokens : wallet.amounts[t] = 1
    /\ wallet.sol \in {1, 3} /\ ~wallet.opened /\ (part = "convert" => wallet.sol = 3)

ConvertPart == part = "convert" /\ ConvertNext /\ UNCHANGED <<part, buildVars>>
BuildPart == part = "build" /\ BuildNext /\ UNCHANGED <<part, convertVars>>

ConversionSpec ==
    ConversionInit
    /\ [][ConvertPart \/ BuildPart]_<<part, convertVars, buildVars>>

\* Every variable of both parts keeps its shape; no leg is credited a negative amount.
ConversionTypeOK == ConvertTypeOK /\ BuildTypeOK

\* A conversion adds up: its legs are credited no more RA than was received, none of it
\* twice, and the session's status is the one its legs call for (executeWalletConvert).
ConversionAddsUp == CreditedOnce /\ StatusMatchesLegs

\* Whatever the caches hold and whatever changes while it is prepared, a session is what
\* was asked for: swaps of the amounts and promises it quotes, through the pool that was
\* configured, none of which had landed before (prepareWalletConvert,
\* fetchRaydiumConvertQuote, buildRaydiumSwapTransactions).
SessionsAreAsQuoted ==
    SwapsAreAsQuoted /\ QuotesFollowThePool /\ SessionsAreAsAsked /\ NoSwapTwice

\* The requests of one part stand for those of the other too.
Interchangeable == Permutations(Calls)
=============================================================================
