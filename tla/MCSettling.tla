------------------------------ MODULE MCSettling ------------------------------
(* What has to come right in the end: settings on their way to every tab and *)
(* the rules they set (SettingsSpread), the audit log and its database       *)
(* (AuditTrail) and the rate-limit store (RateLimit).  The parts             *)
(* share no variable: every behaviour runs one of them while the others rest *)
(* in one initial state, so that their states add up instead of multiplying. *)
(* Fairness is that of each part, that of AuditFairness while the log is     *)
(* what runs: the other parts have no fair step to take at rest.             *)
EXTENDS SettingsSpread, AuditTrail, RateLimit

MCDefaultRules == [minUsd |-> 2, maxUsd |-> 4, feeBps |-> 5, tokens |-> 5,
                   primary |-> "DEXSCREENER", secondary |-> "RAYDIUM", enabled |-> TRUE]
MCDollars == {-1, 0, 1, 3, 5}
MCPoints == {-1, 0, 10000, 10001}
MCCounts == {0, 1, 5, 6}

VARIABLE settling   \* which of them runs

SettlingInit ==
    /\ settling \in {"spread", "audit", "rate", "rules"}
    /\ SpreadInit /\ AuditInit /\ RateInit /\ RulesInit
    /\ settling # "spread" => item = "branding"
    /\ settling # "audit" => logDb /\ migrated = 0 /\ try["t"].boot /\ openPools = {"p"}
    /\ settling # "rate" => backend = "rest"

SpreadPart ==
    settling = "spread" /\ SpreadNext /\ UNCHANGED <<settling, auditVars, rateVars, ruleRow>>
AuditPart ==
    settling = "audit" /\ AuditNext /\ UNCHANGED <<settling, spreadVars, rateVars, ruleRow>>
RatePart ==
    settling = "rate" /\ RateNext /\ UNCHANGED <<settling, spreadVars, auditVars, ruleRow>>
RulesPart ==
    settling = "rules" /\ RulesNext /\ UNCHANGED <<settling, spreadVars, auditVars, rateVars>>

SettlingSpec ==
    /\ SettlingInit
    /\ [][SpreadPart \/ AuditPart \/ RatePart \/ RulesPart]_<<
            settling, spreadVars, auditVars, rateVars, ruleRow>>
    /\ SpreadFairness /\ RateFairness
    /\ \A t \in Tries : WF_auditVars(settling = "audit" /\ TryNext(t))
    /\ \A o \in Officers : WF_auditVars(settling = "audit" /\ ReportNext(o))

\* Every variable of every part keeps its shape.
SettlingTypeOK ==
    SpreadTypeOK /\ AuditTypeOK /\ RateTypeOK /\ RulesTypeOK

\* Meanwhile nothing gets out of hand: no key is granted more than its limit, the stored
\* rules of RA are enforced as they are shown, and every open pool of the audit log is
\* accounted for (rate-limit-store.ts, system-ra.service.ts, audit-log.service.ts).
LimitsHold == WithinLimit /\ EnforcesWhatItShows /\ PoolsAreAccountedFor

\* What settles, settles: every tab ends on the network last saved, reports are written
\* again once the database stays, and a key at its limit is over in the end
\* (useRuntimeSolanaNetwork, audit-log.service.ts, rate-limit-store.ts).
SettlesInTheEnd == OperationsNeverGoBack /\ NetworkSettles /\ LoggingResumes /\ SocketLimitEnds
=============================================================================
