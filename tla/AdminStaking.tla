----------------------------- MODULE AdminStaking -----------------------------
(***************************************************************************)
(* Administrative staking actions of the API: an administrator prepares a  *)
(* transaction, signs it, and asks the API to execute it.  Preparing and   *)
(* executing are separate HTTP requests, each a sequence of awaits on      *)
(* Postgres, Redis and the Solana RPC, so each await is an action and      *)
(* requests interleave.  A session carries one transaction and is the only *)
(* thing that links the two requests; its id also names the funding batch. *)
(*                                                                         *)
(* The programs themselves are in StakePool and SwapNode; here a           *)
(* transaction is accepted or refused by what it finds on the chain.       *)
(***************************************************************************)
EXTENDS Integers, FiniteSets, Functions

CONSTANTS
    Admins,         \* wallets administrators sign with
    NoKey,          \* an optional key that was not given
    Sessions,       \* prepare requests, each with the session it may create
    Calls,          \* execute requests
    Positions,      \* stake positions
    Payout,         \* final_ra_payout of each
    VaultAtFirst,   \* RA in the reward vault at first
    Situations      \* what the API is started with, and what people then do

Keys == Admins \cup {NoKey}
Environment ==
    [network: {"devnet", "mainnet"}, ready: BOOLEAN, multisig: Keys,
     requireMultisig: BOOLEAN, bootstrap: BOOLEAN, updates: BOOLEAN]

Accounts == [exists: BOOLEAN, operator: Keys, multisig: Keys]

BootstrapActions == {"INITIALIZE_GLOBAL_CONFIG", "INITIALIZE_SWAP_NODE"}
UpdateActions == {"UPDATE_GLOBAL_CONFIG", "UPDATE_SWAP_NODE_CONFIG",
                  "UPSERT_TOKEN_STAKE_CONFIG"}
ConfigActions == BootstrapActions \cup UpdateActions
Funding == "EXECUTE_FUNDING_BATCH"
PoolActions == {"INITIALIZE_GLOBAL_CONFIG", "UPDATE_GLOBAL_CONFIG",
                "UPSERT_TOKEN_STAKE_CONFIG"}

\* The API's environment, what the two configuration accounts hold at first, who
\* asks for which action, and which positions get opened.
Situation ==
    [env: Environment, account: Accounts,
     asks: SUBSET (Admins \X (ConfigActions \cup {Funding})),
     stakes: SUBSET Positions]

ASSUME AdminAssumption ==
    /\ NoKey \notin Admins /\ Admins # {} /\ Sessions # {}
    /\ IsFiniteSet(Positions) /\ Payout \in [Positions -> Nat] /\ VaultAtFirst \in Nat
    /\ Situations \subseteq Situation

VARIABLES
    situation,  \* fixed while the API runs: readOptionalEnv, readBooleanEnv
    pool, swap, \* the two programs' configuration accounts
    vault,      \* RA in the reward vault
    stake,      \* each position on the chain
    mirror,     \* staking_position_projection.status of each
    request,    \* each prepare request, and what it learnt
    session,    \* sessions that Redis still holds
    tx,         \* the transaction of each session, on the chain
    call,       \* each execute request
    projection, \* staking_funding_batch_projection.status of each batch
    events,     \* BATCH_EXECUTED rows of each batch
    paidSince   \* history: RA claimed since the request read the liability

chainVars == <<pool, swap, vault, stake>>
mirrorVars == <<mirror, projection, events>>
adminStakingVars ==
    <<situation, pool, swap, vault, stake, mirror, request, session, tx, call, projection,
      events, paidSince>>

env == situation.env

NoAccount == [exists |-> FALSE, operator |-> NoKey, multisig |-> NoKey]
NoRequest == [pc |-> "idle", action |-> Funding, wallet |-> NoKey,
              multisig |-> NoKey, liability |-> 0, planned |-> 0]

AdminInit ==
    /\ situation \in Situations
    /\ pool = situation.account /\ swap = situation.account
    /\ vault = VaultAtFirst
    /\ stake = [p \in Positions |-> "none"]
    /\ mirror = [p \in Positions |-> "none"]
    /\ request = [s \in Sessions |-> NoRequest]
    /\ session = {}
    /\ tx = [s \in Sessions |-> "unsent"]
    /\ call = [c \in Calls |-> [pc |-> "idle", session |-> CHOOSE s \in Sessions : TRUE]]
    /\ projection = [s \in Sessions |-> "none"]
    /\ events = [s \in Sessions |-> 0]
    /\ paidSince = [s \in Sessions |-> 0]

-----------------------------------------------------------------------------
(* What mainnet requires of a critical action.                             *)

MatchesConfigured(given) == env.multisig = NoKey \/ given \in {NoKey, env.multisig}

CriticalActionAllowed(action, given) ==
    env.network = "mainnet" =>
        /\ env.ready
        /\ MatchesConfigured(given)
        /\ action \in BootstrapActions => env.multisig # NoKey /\ env.bootstrap
        /\ action \in UpdateActions =>
              /\ env.requireMultisig => env.multisig # NoKey
              /\ env.updates

GivenOrWallet(given, wallet) == IF given = NoKey THEN wallet ELSE given

\* The multisig authority a configuration is initialised with.
BootstrapMultisig(given, wallet) ==
    IF env.network = "mainnet" /\ env.requireMultisig
    THEN env.multisig
    ELSE GivenOrWallet(given, wallet)

-----------------------------------------------------------------------------
(* Preparing.                                                              *)

\* An account exists for the API only when the registry is complete.
Sees(account) == env.ready /\ account.exists

ReadyFor(action) ==
    CASE action = "INITIALIZE_GLOBAL_CONFIG" -> env.ready /\ ~pool.exists
      [] action = "INITIALIZE_SWAP_NODE"     -> env.ready /\ ~swap.exists
      [] action = "UPDATE_GLOBAL_CONFIG"     -> Sees(pool)
      [] action = "UPDATE_SWAP_NODE_CONFIG"  -> Sees(swap)
      [] action = Funding ->
            env.network = "devnet" /\ Sees(pool) /\ Sees(swap)
      [] OTHER -> env.ready

\* The checks of a configuration action are as stale when its session is used
\* as if they were made when it is saved: they are one step.
PrepareConfig(s, action, wallet, given) ==
    /\ request[s].pc = "idle"
    /\ action \in ConfigActions
    /\ CriticalActionAllowed(action, given)
    /\ ReadyFor(action)
    /\ request' = [request EXCEPT ![s] =
         [@ EXCEPT !.pc = "prepared", !.action = action, !.wallet = wallet,
                   !.multisig = BootstrapMultisig(given, wallet)]]
    /\ session' = session \cup {s}
    /\ UNCHANGED <<situation, chainVars, mirrorVars, tx, call, paidSince>>

OpenLiability == SumFunctionOnSet(Payout, {p \in Positions : mirror[p] = "ACTIVE"})

\* A coverage batch first reads the liability from the mirror...
ReadLiability(s, wallet, given) ==
    /\ request[s].pc = "idle"
    /\ CriticalActionAllowed(Funding, given)
    /\ ReadyFor(Funding)
    /\ request' = [request EXCEPT ![s] =
         [@ EXCEPT !.pc = "liability", !.action = Funding, !.wallet = wallet,
                   !.liability = OpenLiability]]
    /\ UNCHANGED <<situation, chainVars, mirrorVars, session, tx, call, paidSince>>

SignedDiff(a, b) == a - b
NatDiff(a, b) == IF a > b THEN a - b ELSE 0

PendingLiability ==
    SumFunctionOnSet([s \in Sessions |-> request[s].planned],
                     {s \in Sessions : projection[s] = "APPROVED"})
DeficitBeyondPending(s) ==
    NatDiff(request[s].liability, vault + PendingLiability)
Deficit(s) == NatDiff(request[s].liability, vault)

\* ... then the balance of the vault, and refuses when it is enough.
ReadVault(s) ==
    /\ request[s].pc = "liability"
    /\ request' = [request EXCEPT ![s] =
         [@ EXCEPT !.pc = IF Deficit(s) = 0 THEN "refused" ELSE "planned",
                   !.planned = Deficit(s)]]
    /\ UNCHANGED <<situation, chainVars, mirrorVars, session, tx, call, paidSince>>

PlannedOrPrepared(s) ==
    request[s].action = Funding /\ request[s].pc \in {"planned", "prepared"}
Planned(s) == request[s].pc = "planned"

RecordApproval(s) ==
    /\ Planned(s)
    /\ projection' = [projection EXCEPT ![s] = "APPROVED"]
    /\ request' = [request EXCEPT ![s].pc = IF @ = "planned" THEN "approved" ELSE @]
    /\ UNCHANGED <<situation, chainVars, mirror, events, session, tx, call, paidSince>>

SaveSession(s) ==
    /\ request[s].pc = "approved"
    /\ request' = [request EXCEPT ![s] = [@ EXCEPT !.pc = "prepared"]]
    /\ session' = session \cup {s}
    /\ UNCHANGED <<situation, chainVars, mirrorVars, tx, call, paidSince>>

\* A database, RPC or Redis call throws, or the process stops.
GiveUpPreparing(s) ==
    /\ request[s].pc \in {"liability", "planned", "approved"}
    /\ request' = [request EXCEPT ![s] = [@ EXCEPT !.pc = "failed"]]
    /\ UNCHANGED <<situation, chainVars, mirrorVars, session, tx, call, paidSince>>

SessionExpires(s) ==
    /\ s \in session
    /\ session' = session \ {s}
    /\ UNCHANGED <<situation, chainVars, mirrorVars, request, tx, call, paidSince>>

-----------------------------------------------------------------------------
(* The transaction on the chain.                                           *)

MayWrite(account, wallet) ==
    account.exists /\ wallet \in {account.operator, account.multisig}

AlwaysNew(account) == TRUE
Uninitialised(account) == ~account.exists

ProgramAccepts(s) ==
    LET r == request[s]
        account == IF r.action \in PoolActions THEN pool ELSE swap
    IN  IF r.action \in BootstrapActions
        THEN Uninitialised(account)
        ELSE MayWrite(account, r.wallet)

\* The wallet may also lack the RA it offers.
Land(s) ==
    LET r == request[s]
        account == [exists |-> TRUE, operator |-> r.wallet, multisig |-> r.multisig]
    IN  /\ tx[s] = "pending"
        /\ \/ /\ ProgramAccepts(s)
              /\ tx' = [tx EXCEPT ![s] = "landed"]
              /\ pool' = IF r.action = "INITIALIZE_GLOBAL_CONFIG" THEN account ELSE pool
              /\ swap' = IF r.action = "INITIALIZE_SWAP_NODE" THEN account ELSE swap
              /\ vault' = IF r.action = Funding THEN vault + r.planned ELSE vault
           \/ /\ ~ProgramAccepts(s) \/ r.action = Funding
              /\ tx' = [tx EXCEPT ![s] = "reverted"]
              /\ UNCHANGED <<pool, swap, vault>>
        /\ UNCHANGED <<situation, stake, mirrorVars, request, session, call, paidSince>>

BlockhashExpires(s) ==
    /\ request[s].pc = "prepared"
    /\ tx[s] \in {"unsent", "pending"}
    /\ tx' = [tx EXCEPT ![s] = "dead"]
    /\ UNCHANGED <<situation, chainVars, mirrorVars, request, session, call, paidSince>>

-----------------------------------------------------------------------------
(* Executing.                                                              *)

CallPc(c, pc) == [call EXCEPT ![c] = [@ EXCEPT !.pc = pc]]

\* The session is loaded, not consumed: it serves until it expires.
LoadSession(c, s, wallet) ==
    /\ call[c].pc = "idle"
    /\ s \in session
    /\ request[s].wallet = wallet
    /\ call' = [call EXCEPT ![c] = [pc |-> "loaded", session |-> s]]
    /\ UNCHANGED <<situation, chainVars, mirrorVars, request, session, tx, paidSince>>

\* Preflight simulates the transaction, and refuses one that was processed.
SendTransaction(c) ==
    LET s == call[c].session IN
    /\ call[c].pc = "loaded"
    /\ IF tx[s] \in {"unsent", "pending"} /\ ProgramAccepts(s)
       THEN tx' = [tx EXCEPT ![s] = "pending"] /\ call' = CallPc(c, "sent")
       ELSE tx' = tx /\ call' = CallPc(c, "failed")
    /\ UNCHANGED <<situation, chainVars, mirrorVars, request, session, paidSince>>

Processed(s) == tx[s] \in {"landed", "reverted"}
Confirmed(s) == tx[s] = "landed"

ConfirmTransaction(c) ==
    LET s == call[c].session IN
    /\ call[c].pc = "sent"
    /\ tx[s] # "pending"
    /\ call' = CallPc(c, IF Confirmed(s) THEN "confirmed" ELSE "failed")
    /\ UNCHANGED <<situation, chainVars, mirrorVars, request, session, tx, paidSince>>

\* The RPC call throws, although the transaction may still land.
LoseConfirmation(c) ==
    /\ call[c].pc \in {"loaded", "sent"}
    /\ call' = CallPc(c, "failed")
    /\ UNCHANGED <<situation, chainVars, mirrorVars, request, session, tx, paidSince>>

RecordExecution(c) ==
    LET s == call[c].session IN
    /\ call[c].pc = "confirmed"
    /\ IF request[s].action = Funding
       THEN /\ projection' = [projection EXCEPT ![s] = "EXECUTED"]
            /\ call' = CallPc(c, "recorded")
       ELSE projection' = projection /\ call' = CallPc(c, "done")
    /\ UNCHANGED <<situation, chainVars, mirror, events, request, session, tx, paidSince>>

Recorded(c) == call[c].pc = "recorded"

RecordEvent(c) ==
    /\ Recorded(c)
    /\ events' = [events EXCEPT ![call[c].session] = @ + 1]
    /\ call' = CallPc(c, "done")
    /\ UNCHANGED <<situation, chainVars, mirror, projection, request, session, tx,
                   paidSince>>

\* A mirror write that fails is logged and forgotten.
MirrorWriteFails(c) ==
    /\ call[c].pc \in {"confirmed", "recorded"}
    /\ request[call[c].session].action = Funding
    /\ call' = CallPc(c, "done")
    /\ UNCHANGED <<situation, chainVars, mirrorVars, request, session, tx, paidSince>>

-----------------------------------------------------------------------------
(* Stakers, on the chain and, some time later or never, in the mirror.     *)

OpenPosition(p) ==
    /\ p \in situation.stakes
    /\ Sees(pool) /\ stake[p] = "none"
    /\ stake' = [stake EXCEPT ![p] = "open"]
    /\ UNCHANGED <<situation, pool, swap, vault, mirrorVars, request, session, tx, call,
                   paidSince>>

ClaimPosition(p) ==
    /\ stake[p] = "open" /\ vault >= Payout[p]
    /\ stake' = [stake EXCEPT ![p] = "paid"]
    /\ vault' = vault - Payout[p]
    /\ paidSince' = [s \in Sessions |->
         IF request[s].pc = "idle" THEN 0 ELSE paidSince[s] + Payout[p]]
    /\ UNCHANGED <<situation, pool, swap, mirrorVars, request, session, tx, call>>

MirrorPosition(p) ==
    /\ \/ stake[p] = "open" /\ mirror[p] = "none"
          /\ mirror' = [mirror EXCEPT ![p] = "ACTIVE"]
       \/ stake[p] = "paid" /\ mirror[p] # "CLAIMED"
          /\ mirror' = [mirror EXCEPT ![p] = "CLAIMED"]
    /\ UNCHANGED <<situation, chainVars, projection, events, request, session, tx, call,
                   paidSince>>

-----------------------------------------------------------------------------
Prepare(s) ==
    \/ \E w \in Admins, given \in Keys :
         \/ \E action \in ConfigActions :
              <<w, action>> \in situation.asks /\ PrepareConfig(s, action, w, given)
         \/ <<w, Funding>> \in situation.asks /\ ReadLiability(s, w, given)
    \/ ReadVault(s) \/ RecordApproval(s) \/ SaveSession(s)
    \/ GiveUpPreparing(s) \/ SessionExpires(s)

Execute(c) ==
    \/ \E s \in Sessions, w \in Admins : LoadSession(c, s, w)
    \/ SendTransaction(c) \/ ConfirmTransaction(c) \/ LoseConfirmation(c)
    \/ RecordExecution(c) \/ RecordEvent(c) \/ MirrorWriteFails(c)

AdminNext ==
    \/ \E s \in Sessions : Prepare(s) \/ Land(s) \/ BlockhashExpires(s)
    \/ \E c \in Calls : Execute(c)
    \/ \E p \in Positions :
         OpenPosition(p) \/ ClaimPosition(p) \/ MirrorPosition(p)

AdminSpec == AdminInit /\ [][AdminNext]_adminStakingVars

-----------------------------------------------------------------------------
(* Properties.                                                             *)

AdminTypeOK ==
    /\ situation \in Situation
    /\ {pool, swap} \subseteq Accounts
    /\ vault \in Nat
    /\ stake \in [Positions -> {"none", "open", "paid"}]
    /\ mirror \in [Positions -> {"none", "ACTIVE", "CLAIMED"}]
    /\ request \in [Sessions ->
         [pc: {"idle", "liability", "planned", "refused", "approved", "prepared",
               "failed"},
          action: ConfigActions \cup {Funding}, wallet: Keys, multisig: Keys,
          liability: Nat, planned: Nat]]
    /\ session \subseteq Sessions
    /\ tx \in [Sessions -> {"unsent", "pending", "landed", "reverted", "dead"}]
    /\ call \in [Calls ->
         [pc: {"idle", "loaded", "sent", "confirmed", "recorded", "done", "failed"},
          session: Sessions]]
    /\ projection \in [Sessions -> {"none", "APPROVED", "EXECUTED"}]
    /\ events \in [Sessions -> Nat]
    /\ paidSince \in [Sessions -> Nat]

\* The mirror never reports a batch as executed that did not fund the vault, and
\* logs the execution only after that, although confirmations get lost,
\* transactions revert, an execution is retried and either write may fail
\* (handlePreparedExecutionSuccess).
ExecutedIsOnChain ==
    \A s \in Sessions :
        /\ projection[s] = "EXECUTED" =>
              tx[s] = "landed" /\ request[s].action = Funding
        /\ events[s] > 0 => projection[s] = "EXECUTED"

\* A batch the mirror has seen executed is never shown as pending again: the
\* upsert overwrites whatever it finds, so this rests on the order in which
\* prepare and execute write.
ExecutedStays ==
    [][\A s \in Sessions :
          projection[s] = "EXECUTED" => projection'[s] = "EXECUTED"]_adminStakingVars

\* However many administrators prepare at once, whatever is claimed and however
\* late the mirror is, a batch that lands leaves the vault with the liability it
\* was prepared for, less what was paid out since.
CoversWhatItSaw ==
    [][\A s \in Sessions :
          (tx'[s] = "landed" /\ tx[s] = "pending" /\ request[s].action = Funding)
              => vault' + paidSince[s] >= request[s].liability]_adminStakingVars

\* Two administrators may both prepare an initialisation; one takes effect, and
\* the configuration belongs to who signed that one.
InitialisedOnce ==
    ~situation.account.exists => \A action \in BootstrapActions :
        LET account == IF action \in PoolActions THEN pool ELSE swap
            winners == {s \in Sessions :
                          request[s].action = action /\ tx[s] = "landed"}
        IN  /\ Cardinality(winners) = IF account.exists THEN 1 ELSE 0
            /\ \A s \in winners : account.operator = request[s].wallet

\* On mainnet, where a multisig is required, no configuration is ever initialised that
\* the configured multisig cannot write.
MainnetUnderMultisig ==
    (env.network = "mainnet" /\ env.requireMultisig /\ ~situation.account.exists) =>
        \A account \in {pool, swap} :
            account.exists => env.multisig # NoKey /\ account.multisig = env.multisig

\* What the mirror and the configurations say is what the chain executed: a batch shown
\* executed has landed, one initialisation took effect for who signed it, and mainnet is
\* never without its multisig (staking-admin-execution.service.ts, staking-mainnet-hardening.service.ts).
ShowsWhatWasExecuted == ExecutedIsOnChain /\ InitialisedOnce /\ MainnetUnderMultisig

\* A batch executed stays so in the mirror, and funds the liability it was prepared for,
\* whatever else is prepared, claimed and mirrored (handlePreparedExecutionSuccess).
BatchesDoTheirWork == ExecutedStays /\ CoversWhatItSaw
=============================================================================
