------------------------------ MODULE RateLimit ------------------------------
(***************************************************************************)
(* One key of the shared rate-limit store.  Over a Redis socket the count  *)
(* and its expiry are one script; over Upstash's REST interface they are   *)
(* separate calls.  A call that throws sends the request to the counter in *)
(* this process's memory, whatever Redis has already done for it.          *)
(***************************************************************************)
EXTENDS Integers

CONSTANTS
    Requests,   \* requests that may be in flight at once
    Limit,      \* max of the key
    Backends,   \* what the process may be configured with: "socket", "rest"
    CountBound, \* the most any count is followed to
    Failures    \* how many calls to Redis may fail

ASSUME RateAssumption ==
    /\ Limit \in Nat \ {0} /\ CountBound \in Nat /\ CountBound > Limit /\ Failures \in Nat
    /\ Backends \subseteq {"socket", "rest"}

VARIABLES
    backend,    \* RATE_LIMIT_REDIS_URL or RATE_LIMIT_REDIS_REST_URL
    count,      \* the key's value in Redis, 0 when it is not there
    expiring,   \* whether the key has a time to live
    memory,     \* the count in the fallback's map, 0 when none or over
    failed,     \* calls that failed so far
    request,    \* where each request stands
    granted,    \* history: requests Redis allowed since the key came to be
    spared      \* history: requests the fallback allowed in its window

rateVars == <<backend, count, expiring, memory, failed, request, granted, spared>>

Idle == [pc |-> "idle", count |-> 0, current |-> FALSE]

RateInit ==
    /\ backend \in Backends
    /\ count = 0 /\ expiring = FALSE /\ memory = 0 /\ failed = 0
    /\ request = [r \in Requests |-> Idle]
    /\ granted = 0 /\ spared = 0

AllowedOneMore(n) == n <= Limit + 1
Allowed(n) == n <= Limit

\* A request that is answered from the count n it was given; one whose key has
\* gone meanwhile belongs to a window that is over.
Respond(r, n, current) ==
    /\ granted' = IF Allowed(n) /\ current THEN granted + 1 ELSE granted
    /\ request' = [request EXCEPT ![r] = Idle]

-----------------------------------------------------------------------------

\* The Lua script: INCR, PEXPIRE when the count is 1, PTTL.
ExpireOnZero(n) == n = 0
ExpireOn(n) == n = 1

ConsumeScript(r) ==
    /\ backend = "socket" /\ request[r].pc = "idle" /\ count < CountBound
    /\ count' = count + 1
    /\ expiring' = (expiring \/ ExpireOn(count + 1))
    /\ Respond(r, count + 1, TRUE)
    /\ UNCHANGED <<backend, failed, memory, spared>>

\* Upstash: three calls, each of which may throw.
Incr(r) ==
    /\ backend = "rest" /\ request[r].pc = "idle" /\ count < CountBound
    /\ count' = count + 1
    /\ request' = [request EXCEPT ![r] =
           [pc |-> IF count + 1 = 1 THEN "expire" ELSE "ttl", count |-> count + 1, current |-> TRUE]]
    /\ UNCHANGED <<backend, failed, expiring, memory, granted, spared>>

Pexpire(r) ==
    /\ request[r].pc = "expire"
    /\ expiring' = (count > 0)
    /\ request' = [request EXCEPT ![r].pc = "ttl"]
    /\ UNCHANGED <<backend, failed, count, memory, granted, spared>>

Pttl(r) ==
    /\ request[r].pc = "ttl"
    /\ Respond(r, request[r].count, request[r].current)
    /\ UNCHANGED <<backend, failed, count, expiring, memory, spared>>

\* InMemoryRateLimitStore.consume; its window starts with its first request.
Fallback(r) ==
    /\ memory < CountBound /\ failed < Failures
    /\ failed' = failed + 1
    /\ memory' = memory + 1
    /\ spared' = IF Allowed(memory + 1) THEN spared + 1 ELSE spared
    /\ request' = [request EXCEPT ![r] = Idle]

\* The first call throws, before or after Redis did its part.
ConsumeFails(r) ==
    /\ request[r].pc = "idle"
    /\ \/ UNCHANGED <<count, expiring>>
       \/ /\ count < CountBound
          /\ count' = count + 1
          /\ expiring' = (expiring \/ (backend = "socket" /\ ExpireOn(count + 1)))
    /\ Fallback(r)
    /\ UNCHANGED <<backend, granted>>

\* A later call throws.
LaterCallFails(r) ==
    /\ request[r].pc \in {"expire", "ttl"}
    /\ expiring' \in {expiring, expiring \/ (request[r].pc = "expire" /\ count > 0)}
    /\ Fallback(r)
    /\ UNCHANGED <<backend, count, granted>>

KeyExpires ==
    /\ expiring
    /\ count' = 0 /\ expiring' = FALSE /\ granted' = 0
    /\ request' = [r \in Requests |-> [request[r] EXCEPT !.current = FALSE]]
    /\ UNCHANGED <<backend, failed, memory, spared>>

MemoryWindowEnds ==
    /\ memory > 0
    /\ memory' = 0 /\ spared' = 0
    /\ UNCHANGED <<backend, failed, count, expiring, request, granted>>

RateNext ==
    \/ \E r \in Requests :
          \/ ConsumeScript(r) \/ Incr(r) \/ Pexpire(r) \/ Pttl(r)
          \/ ConsumeFails(r) \/ LaterCallFails(r)
    \/ KeyExpires \/ MemoryWindowEnds

RateSpec == RateInit /\ [][RateNext]_rateVars

\* Time passes: a key that expires does, and a call in flight ends.
RateFairness ==
    /\ WF_rateVars(KeyExpires)
    /\ \A r \in Requests : WF_rateVars(Pexpire(r) \/ Pttl(r) \/ LaterCallFails(r))
FairRateSpec == RateSpec /\ RateFairness

-----------------------------------------------------------------------------
(* Properties.                                                              *)

\* Every variable keeps its shape; over a socket a key never lacks its expiry.
RateTypeOK ==
    /\ backend \in Backends /\ count \in 0 .. CountBound /\ expiring \in BOOLEAN
    /\ memory \in 0 .. CountBound /\ failed \in 0 .. Failures
    /\ granted \in Nat /\ spared \in Nat
    /\ request \in [Requests ->
           [pc: {"idle", "expire", "ttl"}, count: 0 .. CountBound, current: BOOLEAN]]
    /\ expiring => count > 0
    /\ backend = "socket" /\ count > 0 => expiring

\* However requests interleave and fail, Redis allows no more than the limit
\* while a key lives, and the fallback no more in its window.
WithinLimit == granted <= Limit /\ spared <= Limit

\* Over a socket, where count and expiry are one script, a key that has reached
\* its limit is over in the end, whatever calls fail.
SocketLimitEnds == (backend = "socket" /\ count >= Limit) ~> count = 0

\* A key that has reached its limit is over in the end: "Please retry shortly."
LimitedNotForever == count >= Limit ~> count = 0
=============================================================================
