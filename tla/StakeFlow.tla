------------------------------ MODULE StakeFlow ------------------------------
(***************************************************************************)
(* A wallet's stakes and claims from the web client through the API to the *)
(* chain and back into Postgres and the devnet mirror.  The client drives: *)
(* it asks the API to prepare a transaction, has the wallet sign it, asks  *)
(* the API to execute it, and last asks the API to record what happened.   *)
(* Nothing else does: no job of the API looks at the chain on its own.     *)
(*                                                                         *)
(* A stake is named by its prepare session.  Its client run is StakeModal; *)
(* a claim of it is a run of ClaimModal in some tab.  One wallet is        *)
(* modelled: runs of different wallets share no state but the chain's.     *)
(***************************************************************************)
EXTENDS Integers, FiniteSets, FiniteSetsExt

CONSTANTS
    Stakes,     \* stake sessions, each with the one client run that made it
    Tabs,       \* browser tabs a claim may be run in
    Opened,     \* stakes opened and recorded at some earlier time
    Blockhashes \* recent blockhashes a claim may carry, in order: 1 .. n

ASSUME FlowAssumption ==
    /\ IsFiniteSet(Stakes) /\ Stakes # {} /\ Opened \subseteq Stakes
    /\ \E n \in Blockhashes : n \in Nat /\ Blockhashes = 1 .. n

VARIABLES
    blocked,    \* WalletUser.isBlocked
    live,       \* stake sessions that Redis still holds
    claimHash,  \* blockhash of the claim session each stake has in Redis, or 0
    run,        \* progress of each stake's client run
    awaiting,   \* stakes whose execute request waits for the chain
    chain,      \* each position on the chain
    now,        \* the most recent blockhash
    sent,       \* claims that were broadcast: <<stake, blockhash>>
    paidBy,     \* blockhash of the claim that was paid, or 0
    row,        \* WalletStakePosition.status
    active,     \* WalletUser.activeStakePositions
    settled,    \* CLAIM activities that refer to each row
    mirror,     \* staking_position_projection.status
    executed,   \* stakes with a POSITION_EXECUTED event
    created,    \* stakes with a LIABILITY_CREATED event
    freed,      \* stakes with a LIABILITY_SETTLED event
    claim,      \* the claim each tab runs
    raced       \* history: a claim committed over a row or a count that moved

chainVars == <<chain, now, sent, paidBy>>
rowVars == <<row, active, settled, raced>>
mirrorVars == <<mirror, executed, created, freed>>
sessionVars == <<blocked, live, claimHash>>
stakeVars == <<run, awaiting>>
flowVars == <<blocked, live, claimHash, run, awaiting, chain, now,
              sent, paidBy, row, active, settled, mirror, executed, created, freed,
              claim, raced>>

NoClaim == [pc |-> "idle", stake |-> CHOOSE s \in Stakes : TRUE, hash |-> 0,
            found |-> "ACTIVE", count |-> 0]

FlowInit ==
    /\ blocked = FALSE /\ live = {}
    /\ claimHash = [s \in Stakes |-> 0]
    /\ run = [s \in Stakes |-> IF s \in Opened THEN "recorded" ELSE "idle"]
    /\ awaiting = {} /\ executed = Opened
    /\ chain = [s \in Stakes |-> IF s \in Opened THEN "mature" ELSE "none"]
    /\ now = 1 /\ sent = {} /\ paidBy = [s \in Stakes |-> 0]
    /\ row = [s \in Stakes |-> IF s \in Opened THEN "ACTIVE" ELSE "none"]
    /\ active = Cardinality(Opened) /\ settled = [s \in Stakes |-> 0] /\ raced = FALSE
    /\ mirror = row /\ created = Opened /\ freed = {}
    /\ claim = [t \in Tabs |-> NoClaim]

Advance(s, from, to) == run[s] = from /\ run' = [run EXCEPT ![s] = to]
Turn(t, from, to) == claim[t].pc = from /\ claim' = [claim EXCEPT ![t].pc = to]

-----------------------------------------------------------------------------
(* Opening a position.                                                      *)

\* The quote, the transaction and the session; the wallet signs.
PrepareStake(s) ==
    /\ ~blocked
    /\ Advance(s, "idle", "prepared")
    /\ live' = live \cup {s}
    /\ UNCHANGED <<blocked, claimHash, awaiting, claim, chainVars, rowVars, mirrorVars>>

\* loadPreparedStakeSession, validateSignedEnvelope, sendRawTransaction.
ExecuteStake(s) ==
    /\ ~blocked /\ s \in live
    /\ Advance(s, "prepared", "sending")
    /\ chain' = [chain EXCEPT ![s] = "pending"]
    /\ awaiting' = awaiting \cup {s}
    /\ UNCHANGED <<sessionVars, claim, now, sent, paidBy, rowVars,
                   mirrorVars>>

ConfirmedOnceSent(status) == status \in {"pending", "open", "mature", "paid"}
Confirmed(status) == status \in {"open", "mature", "paid"}

\* The execute request ends: confirmTransaction returned, an event is written or
\* its failure logged, and a client that still waits gets its answer ...
ConfirmStake(s) ==
    /\ s \in awaiting /\ Confirmed(chain[s])
    /\ awaiting' = awaiting \ {s}
    /\ executed' \in {executed, executed \cup {s}}
    /\ run' = IF run[s] = "sending" THEN [run EXCEPT ![s] = "confirmed"] ELSE run
    /\ UNCHANGED <<sessionVars, claim, chainVars, rowVars, mirror, created, freed>>

\* ... or confirmTransaction threw, whatever becomes of the transaction.
GiveUpConfirming(s) ==
    /\ s \in awaiting
    /\ awaiting' = awaiting \ {s}
    /\ run' = IF run[s] = "sending" THEN [run EXCEPT ![s] = "failed"] ELSE run
    /\ UNCHANGED <<sessionVars, claim, chainVars, rowVars, mirrorVars>>

\* POST /users/stakes: the session is checked again, then one transaction
\* writes the row, its STAKE activity and the counter.  The session stays.
PersistStake(s) ==
    /\ ~blocked /\ s \in live
    /\ Advance(s, "confirmed", "mirroring")
    /\ row' = [row EXCEPT ![s] = "ACTIVE"]
    /\ active' = active + 1
    /\ UNCHANGED <<sessionVars, awaiting, claim, chainVars, settled, raced,
                   mirrorVars>>

\* The run stops early.  Some request failed, or was not answered within 12 s,
\* and the modal shows it; or the modal was closed or restarted, processingRunIdRef
\* moved on, and nothing is said.  What was done on the server or the chain stays.
StakeFails(s) ==
    /\ run[s] \in {"prepared", "sending", "confirmed"}
    /\ run' = [run EXCEPT ![s] = "failed"]
    /\ UNCHANGED <<sessionVars, awaiting, claim, chainVars, rowVars, mirrorVars>>

\* syncStakingMirrorPosition after PersistStake: the projection, the event, or
\* a warning in the log.
MirrorStake(s) ==
    /\ Advance(s, "mirroring", "logging")
    /\ mirror' = [mirror EXCEPT ![s] = "ACTIVE"]
    /\ UNCHANGED <<sessionVars, awaiting, claim, chainVars, rowVars, executed, created, freed>>

LogStake(s) ==
    /\ Advance(s, "logging", "recorded")
    /\ created' = created \cup {s}
    /\ UNCHANGED <<sessionVars, awaiting, claim, chainVars, rowVars, mirror, executed, freed>>

StakeMirrorFails(s) ==
    /\ run[s] \in {"mirroring", "logging"}
    /\ run' = [run EXCEPT ![s] = "recorded"]
    /\ UNCHANGED <<sessionVars, awaiting, claim, chainVars, rowVars, mirrorVars>>

-----------------------------------------------------------------------------
(* Claiming it.                                                             *)

\* Prepare asks that the row and the on-chain accounts exist; it looks neither
\* at the row's status nor at the position's.  The session is keyed by the
\* stake's, so the last prepare is the one that counts, and two prepares under
\* one blockhash are one transaction.
PrepareClaim(t, s) ==
    /\ ~blocked /\ row[s] # "none" /\ Confirmed(chain[s])
    /\ claim[t].pc = "idle"
    /\ claim' = [claim EXCEPT ![t] = [NoClaim EXCEPT !.pc = "prepared", !.stake = s, !.hash = now]]
    /\ claimHash' = [claimHash EXCEPT ![s] = now]
    /\ UNCHANGED <<blocked, live, stakeVars, chainVars, rowVars, mirrorVars>>

\* The session is there and its hash is the signed one; the node simulates the
\* transaction before it takes it.
ExecuteClaim(t) ==
    LET c == claim[t] IN
    /\ ~blocked /\ claimHash[c.stake] = c.hash /\ chain[c.stake] = "mature"
    /\ Turn(t, "prepared", "sending")
    /\ sent' = sent \cup {<<c.stake, c.hash>>}
    /\ UNCHANGED <<sessionVars, stakeVars, chain, now, paidBy, rowVars, mirrorVars>>

Paid(c) == paidBy[c.stake] = c.hash

ConfirmClaim(t) ==
    /\ Paid(claim[t])
    /\ Turn(t, "sending", "confirmed")
    /\ UNCHANGED <<sessionVars, stakeVars, chainVars, rowVars, mirrorVars>>

\* The run ends early: a request fails or is not answered in time, or the tab is
\* closed.  A failure before the payment is confirmed is shown; a failure to
\* record it is not, for postJson turns it into null and claimUserStakePosition
\* drops the null: the modal goes on to "Claim Successful".
ClaimFails(t) ==
    /\ claim[t].pc \in {"prepared", "sending", "confirmed", "loaded"}
    /\ claim' = [claim EXCEPT ![t] = NoClaim]
    /\ UNCHANGED <<sessionVars, stakeVars, chainVars, rowVars, mirrorVars>>

AnyStatus(status) == TRUE
Settleable(status) == status = "ACTIVE"

\* POST /users/stakes/:id/claim reads the row first; one that is no longer
\* ACTIVE is returned as it is.
LoadRow(t) ==
    LET s == claim[t].stake IN
    /\ ~blocked /\ claim[t].pc = "confirmed"
    /\ claim' = IF Settleable(row[s])
                  THEN [claim EXCEPT ![t].pc = "loaded", ![t].found = row[s]]
                  ELSE [claim EXCEPT ![t] = NoClaim]
    /\ UNCHANGED <<sessionVars, stakeVars, chainVars, rowVars, mirrorVars>>

\* The settling transaction reads the counter ...
ReadCount(t) ==
    /\ claim[t].pc = "loaded"
    /\ claim' = [claim EXCEPT ![t].pc = "settling", ![t].count = active]
    /\ UNCHANGED <<sessionVars, stakeVars, chainVars, rowVars, mirrorVars>>

Undecremented(count) == count
NoFloor(count) == count - 1
NextActive(count) == Max({0, count - 1})

\* ... and commits the row, the CLAIM activity and the count it computed.
CommitClaim(t) ==
    LET c == claim[t]
        s == c.stake IN
    /\ Turn(t, "settling", "mirroring")
    /\ row' = [row EXCEPT ![s] = "CLAIMED"]
    /\ settled' = [settled EXCEPT ![s] = @ + 1]
    /\ active' = NextActive(c.count)
    /\ raced' = (raced \/ row[s] # c.found \/ active # c.count)
    /\ UNCHANGED <<sessionVars, stakeVars, chainVars, mirrorVars>>

AsFound(c) == c.found
Projected(c) == row[c.stake]

MirrorClaim(t) ==
    /\ Turn(t, "mirroring", "logging")
    /\ mirror' = [mirror EXCEPT ![claim[t].stake] = Projected(claim[t])]
    /\ UNCHANGED <<sessionVars, stakeVars, chainVars, rowVars, executed, created, freed>>

LogClaim(t) ==
    /\ claim[t].pc = "logging"
    /\ claim' = [claim EXCEPT ![t] = NoClaim]
    /\ freed' = freed \cup {claim[t].stake}
    /\ UNCHANGED <<sessionVars, stakeVars, chainVars, rowVars, mirror, executed, created>>

ClaimMirrorFails(t) ==
    /\ claim[t].pc \in {"mirroring", "logging"}
    /\ claim' = [claim EXCEPT ![t] = NoClaim]
    /\ UNCHANGED <<sessionVars, stakeVars, chainVars, rowVars, mirrorVars>>

-----------------------------------------------------------------------------
(* The chain, Redis and the administrator.                                  *)

\* A pending stake lands, or its blockhash expires first.
LandStake(s) ==
    /\ chain[s] = "pending"
    /\ \E outcome \in {"open", "dropped"} : chain' = [chain EXCEPT ![s] = outcome]
    /\ UNCHANGED <<sessionVars, stakeVars, now, sent, paidBy, claim, rowVars,
                   mirrorVars>>

\* unlock_at passes, at least seven days after the stake: its requests and its
\* session are long over.
Mature(s) ==
    /\ chain[s] = "open" /\ s \notin live
    /\ s \notin awaiting /\ run[s] \in {"recorded", "failed"}
    /\ chain' = [chain EXCEPT ![s] = "mature"]
    /\ UNCHANGED <<sessionVars, stakeVars, now, sent, paidBy, claim, rowVars,
                   mirrorVars>>

\* claim_stake_position pays a mature position once.
LandClaim(s, h) ==
    /\ <<s, h>> \in sent /\ chain[s] = "mature"
    /\ chain' = [chain EXCEPT ![s] = "paid"]
    /\ paidBy' = [paidBy EXCEPT ![s] = h]
    /\ UNCHANGED <<sessionVars, stakeVars, now, sent, claim, rowVars,
                   mirrorVars>>

NewBlockhash ==
    /\ now + 1 \in Blockhashes
    /\ now' = now + 1
    /\ sent' \in {sent, {}}     \* older claims may still land, or have expired
    /\ UNCHANGED <<sessionVars, stakeVars, chain, paidBy, claim, rowVars,
                   mirrorVars>>

\* A claim's session expires too: what it then refuses, ClaimFails refuses.
SessionExpires(s) ==
    /\ s \in live /\ live' = live \ {s}
    /\ UNCHANGED <<blocked, claimHash, stakeVars, claim, chainVars, rowVars, mirrorVars>>

\* updateWalletUserBlock.
SetBlocked ==
    /\ blocked' = ~blocked
    /\ UNCHANGED <<live, claimHash, stakeVars, claim, chainVars, rowVars, mirrorVars>>

-----------------------------------------------------------------------------

StakeRequest(s) ==
    ExecuteStake(s) \/ ConfirmStake(s) \/ GiveUpConfirming(s) \/ PersistStake(s) \/ StakeFails(s)
StakeSync(s) == MirrorStake(s) \/ LogStake(s) \/ StakeMirrorFails(s)
ClaimRequest(t) ==
    \/ ExecuteClaim(t) \/ ConfirmClaim(t) \/ ClaimFails(t)
    \/ LoadRow(t) \/ ReadCount(t) \/ CommitClaim(t)
ClaimSync(t) == MirrorClaim(t) \/ LogClaim(t) \/ ClaimMirrorFails(t)

FlowNext ==
    \/ \E s \in Stakes :
          \/ PrepareStake(s) \/ StakeRequest(s) \/ StakeSync(s)
          \/ LandStake(s) \/ Mature(s) \/ SessionExpires(s)
          \/ \E h \in Blockhashes : LandClaim(s, h)
    \/ \E t \in Tabs :
          \/ \E s \in Stakes : PrepareClaim(t, s)
          \/ ClaimRequest(t) \/ ClaimSync(t)
    \/ NewBlockhash \/ SetBlocked

FlowSpec == FlowInit /\ [][FlowNext]_flowVars

-----------------------------------------------------------------------------
(* Properties.                                                              *)

\* Every variable keeps its shape, and the counter never exceeds the stakes.
FlowTypeOK ==
    /\ blocked \in BOOLEAN /\ live \subseteq Stakes
    /\ claimHash \in [Stakes -> Blockhashes \cup {0}]
    /\ run \in [Stakes -> {"idle", "prepared", "sending", "confirmed", "mirroring",
                           "logging", "recorded", "failed"}]
    /\ awaiting \cup executed \subseteq Stakes
    /\ chain \in [Stakes -> {"none", "pending", "open", "dropped", "mature", "paid"}]
    /\ now \in Blockhashes /\ sent \subseteq Stakes \X Blockhashes
    /\ paidBy \in [Stakes -> Blockhashes \cup {0}]
    /\ row \in [Stakes -> {"none", "ACTIVE", "CLAIMED"}]
    /\ active \in 0 .. Cardinality(Stakes)
    /\ settled \in [Stakes -> Nat]
    /\ mirror \in [Stakes -> {"none", "ACTIVE", "CLAIMED"}]
    /\ created \subseteq Stakes /\ freed \subseteq Stakes /\ raced \in BOOLEAN
    /\ claim \in [Tabs ->
          [pc: {"idle", "prepared", "sending", "confirmed", "loaded", "settling",
                "mirroring", "logging"},
           stake: Stakes, hash: Blockhashes \cup {0}, found: {"ACTIVE", "CLAIMED"},
           count: 0 .. Cardinality(Stakes)]]

\* The database never runs ahead of the chain: an ACTIVE row has its position
\* open there, a CLAIMED one has been paid there.  Nothing on the server checks
\* this when it records; it holds because of the order of the client's requests.
RowsBackedByChain ==
    \A s \in Stakes :
        /\ row[s] = "ACTIVE" => chain[s] \in {"open", "mature", "paid"}
        /\ row[s] = "CLAIMED" => chain[s] = "paid"
        /\ s \in executed => chain[s] \in {"open", "mature", "paid"}

\* One position yields one CLAIM activity unless two tabs recorded the same
\* payment at the same time: the row's status is the only guard.
SettledOnce == \A s \in Stakes : settled[s] <= 1 \/ raced

\* The wallet's counter of active positions is exact until a claim writes it from
\* a count, or settles a row, that another request has moved since it was read.
CountIsExact == raced \/ active = Cardinality({s \in Stakes : row[s] = "ACTIVE"})

\* The mirror follows the rows: it never shows a state the row has not reached,
\* and each event comes after the projection that carries it.
MirrorFollowsRow ==
    \A s \in Stakes :
        /\ mirror[s] # "none" => row[s] # "none"
        /\ mirror[s] = "CLAIMED" => row[s] = "CLAIMED"
        /\ s \in created => mirror[s] # "none"
        /\ s \in freed => mirror[s] = "CLAIMED"
=============================================================================
