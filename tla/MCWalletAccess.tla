---------------------------- MODULE MCWalletAccess ----------------------------
(* What the API keeps of a wallet: its signing in (AuthChallenge), the       *)
(* presence sessions that follow (WalletSessions) and its balances           *)
(* (WalletBalances).  The parts share no variable: every behaviour runs one  *)
(* of them while the others rest in one initial state, so that their states  *)
(* add up instead of multiplying.                                            *)
(*                                                                           *)
(* Of four sign-in requests two can issue challenges while two carry one.    *)
(* Requests for two sessions race, two at a time, with the sweeps of two     *)
(* processes; the clock goes far enough for a session to become stale and    *)
(* for its time to be counted.  Two calls about balances overlap while two   *)
(* amounts change on the chain.                                              *)
EXTENDS AuthChallenge, WalletSessions, WalletBalances, TLC

MCProgramOf == "ra" :> "spl" @@ "sol" :> "system" @@ "bonk" :> "spl"
MCAccountsOf == "ra" :> 1 @@ "sol" :> 0 @@ "bonk" :> 1
MCPriceOf == "ra" :> 1 @@ "sol" :> 1 @@ "bonk" :> 1

VARIABLE part   \* which of them runs

AccessInit ==
    /\ ChallengeInit /\ SessionInit /\ BalancesInit
    /\ part \in {"challenge", "sessions", "balances"}
    /\ part # "challenge" => ~barred /\ ~adminOn
    /\ headerNet = "dev"

ChallengePart ==
    part = "challenge" /\ ChallengeNext /\ UNCHANGED <<part, sessionVars, balanceVars>>
SessionPart ==
    part = "sessions" /\ SessionNext /\ UNCHANGED <<part, challengeVars, balanceVars>>
BalancesPart ==
    part = "balances" /\ BalancesNext /\ UNCHANGED <<part, challengeVars, sessionVars>>

AccessSpec ==
    /\ AccessInit
    /\ [][ChallengePart \/ SessionPart \/ BalancesPart]_<<
            part, challengeVars, sessionVars, balanceVars>>

\* Every variable of every part keeps its shape; no span or total is negative.
AccessTypeOK == ChallengeTypeOK /\ SessionTypeOK /\ BalancesTypeOK

\* What presence shows and counts is so: the total is the sum of what ended sessions
\* lasted, no session of a blocked wallet is online and none comes back once ended
\* (users.service.ts, finalizeSession and updateWalletUserBlock).
PresenceIsTrue == [](TotalIsTheSum /\ BlockedIsOffline) /\ EndedForGood

\* The values of one part stand for those of another too.
Interchangeable ==
    Permutations(Callers) \cup Permutations(Sessions) \cup Permutations(Sweepers)
=============================================================================
