------------------------------ MODULE AuthChallenge ------------------------------
(* Signing in by signing a message.                                          *)
(*   apps/api/src/users/users-wallet-auth.service.ts (a visitor's wallet)    *)
(*   apps/api/src/auth/auth.service.ts (an administrator's wallet)           *)
(* Both services keep their challenges in one table, AuthNonceChallenge,     *)
(* whose key is the wallet, so they share one row per wallet. Every database *)
(* call is a step, and requests of both services interleave between calls.   *)
(* The model follows one wallet: no call touches another wallet's live row.  *)
EXTENDS Naturals

CONSTANTS Requests,    \* requests to either service; each runs once
          MaxIssued    \* bound on the number of challenges issued

ASSUME ChallengeAssumption == MaxIssued \in Nat

VARIABLES stored,      \* the wallet's row of AuthNonceChallenge
          issued,      \* challenges issued so far: the newest one's number
          signed,      \* challenges the wallet's owner has signed
          request,     \* what each request is doing
          barred,      \* WalletUser.isBlocked
          adminOn      \* an active Admin with an active role has this wallet

challengeVars == <<stored, issued, signed, request, barred, adminOn>>

Challenges == 1 .. MaxIssued
Services == {"user", "admin"}
RequestStages == {"idle", "issuing", "issued", "loading", "consuming", "authorizing",
                  "granted", "refused"}

\* `live` says whether a row's expiresAt lies ahead; challenge 0 is no row.
NoChallenge == [challenge |-> 0, live |-> FALSE]
StoredRecords == {NoChallenge} \cup [challenge : Challenges, live : BOOLEAN]

Idle == [stage |-> "idle", challenge |-> 0, service |-> "user"]

ChallengeInit ==
  /\ stored = NoChallenge
  /\ issued = 0
  /\ signed = {}
  /\ request = [r \in Requests |-> Idle]
  /\ barred \in BOOLEAN
  /\ adminOn \in BOOLEAN

Moves(r, stage) == request' = [request EXCEPT ![r] = [@ EXCEPT !.stage = stage]]

---------------------------------------------------------------------------
(* Issuing a challenge: createWalletAuthNonce and getNonce.                  *)

\* The row once the expired challenges are deleted.
Pruned == IF stored.live THEN stored ELSE NoChallenge

BeginIssue(r) ==
  /\ request[r].stage = "idle"
  /\ stored' = Pruned
  /\ Moves(r, "issuing")
  /\ UNCHANGED <<issued, signed, barred, adminOn>>

\* The upsert: whatever the row held is replaced.
Issue(r) ==
  /\ request[r].stage = "issuing"
  /\ issued < MaxIssued
  /\ issued' = issued + 1
  /\ stored' = [challenge |-> issued', live |-> TRUE]
  /\ Moves(r, "issued")
  /\ UNCHANGED <<signed, barred, adminOn>>

---------------------------------------------------------------------------
(* Verifying an answer: verifyWalletAuth and verifyWallet.                   *)

Usable(c) == stored.challenge = c /\ stored.live

BeginVerify(r) ==
  \E c \in 1 .. issued, s \in Services :
    /\ request[r].stage = "idle"
    /\ stored' = Pruned
    /\ request' = [request EXCEPT ![r] =
                     [stage |-> "loading", challenge |-> c, service |-> s]]
    /\ UNCHANGED <<issued, signed, barred, adminOn>>

\* The row is read, its message and expiry compared, the signature checked.
Load(r) ==
  /\ request[r].stage = "loading"
  /\ LET c == request[r].challenge IN
     Moves(r, IF Usable(c) /\ c \in signed THEN "consuming" ELSE "refused")
  /\ UNCHANGED <<stored, issued, signed, barred, adminOn>>

\* What deleteMany deletes: the wallet's row if it still holds this message.
Deletes(c) == Usable(c)

Deleted == NoChallenge

\* The answer goes on only when its own deleteMany deleted a row.
GoesOnAnyway(c) == TRUE
MayGoOn(c) == Deletes(c)

Consume(r) ==
  /\ request[r].stage = "consuming"
  /\ LET c == request[r].challenge IN
     /\ stored' = IF Deletes(c) THEN Deleted ELSE stored
     /\ Moves(r, IF MayGoOn(c) THEN "authorizing" ELSE "refused")
  /\ UNCHANGED <<issued, signed, barred, adminOn>>

\* The wallet's standing is looked at last, when the challenge is spent.
Authorized(r) == IF request[r].service = "user" THEN ~barred ELSE adminOn

Authorize(r) ==
  /\ request[r].stage = "authorizing"
  /\ Moves(r, IF Authorized(r) THEN "granted" ELSE "refused")
  /\ UNCHANGED <<stored, issued, signed, barred, adminOn>>

---------------------------------------------------------------------------
(* The rest of the world.                                                    *)

\* The owner signs a message it was given.
Sign == \E c \in (1 .. issued) \ signed :
          /\ signed' = signed \cup {c}
          /\ UNCHANGED <<stored, issued, request, barred, adminOn>>

\* WALLET_AUTH_NONCE_TTL_MS or nonceTtlMs passes.
Expire == /\ stored.live
          /\ stored' = [stored EXCEPT !.live = FALSE]
          /\ UNCHANGED <<issued, signed, request, barred, adminOn>>

\* An administrator blocks or unblocks the wallet.
SetBarred == /\ barred' = ~barred
              /\ UNCHANGED <<stored, issued, signed, request, adminOn>>

\* An administrator record or its role is switched on or off.
SetAdmin == /\ adminOn' = ~adminOn
            /\ UNCHANGED <<stored, issued, signed, request, barred>>

ChallengeNext ==
  \/ \E r \in Requests : \/ BeginIssue(r) \/ Issue(r)
                         \/ BeginVerify(r) \/ Load(r)
                         \/ Consume(r) \/ Authorize(r)
  \/ Sign \/ Expire \/ SetBarred \/ SetAdmin

ChallengeSpec == ChallengeInit /\ [][ChallengeNext]_challengeVars

---------------------------------------------------------------------------
(* Properties.                                                               *)

\* The variables have their types, and no challenge is stored or answered
\* that was not issued.
ChallengeTypeOK ==
  /\ stored \in StoredRecords
  /\ stored.challenge <= issued
  /\ issued \in 0 .. MaxIssued
  /\ signed \subseteq Challenges
  /\ request \in [Requests -> [stage : RequestStages, challenge : 0 .. issued,
                               service : Services]]
  /\ barred \in BOOLEAN
  /\ adminOn \in BOOLEAN

HasSpent(r) == request[r].stage \in {"authorizing", "granted"}

\* A signed message signs in once. However many requests carry it, to
\* whichever service, and however they interleave between reading the row and
\* deleting it, at most one of them gets past the deletion.
AnsweredOnce ==
  \A r, q \in Requests :
    (HasSpent(r) /\ HasSpent(q) /\ request[r].challenge = request[q].challenge)
      => r = q

\* Only the newest challenge signs in: a request that read the row in time
\* but deletes after the row was replaced, or after it expired, is refused.
NewestOnly ==
  [][\A r \in Requests :
       (HasSpent(r)' /\ ~HasSpent(r)) => (request[r].challenge = issued /\ stored.live)]_challengeVars

===============================================================================
