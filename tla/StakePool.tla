------------------------------ MODULE StakePool ------------------------------
(***************************************************************************)
(* The on-chain program programs/stake-pool: one global configuration, one *)
(* staking configuration per input mint, and one position account for each *)
(* (owner, session seed).  An instruction is one Solana transaction, so it *)
(* is one action: it takes all its effects or, when a require! or a token  *)
(* transfer fails, none.                                                   *)
(*                                                                         *)
(* Account addresses that a caller merely repeats (the swap-node program,  *)
(* the vault named by the configuration) are not arguments here: the       *)
(* program accepts exactly the configured one.                             *)
(***************************************************************************)
EXTENDS Integers, FiniteSets, Functions

CONSTANTS
    Owners,         \* wallets that stake
    Seeds,          \* session seeds: sha256 of the API's session id
    Mints,          \* mints that can be staked
    RaMints,        \* candidate RA mints
    PayoutMints,    \* those with RA_MICRO_DECIMALS decimals
    Vaults,         \* token accounts that can be named as reward vault
    VaultMint,      \* the mint of each
    PoolOwned,      \* the vaults whose owner is the global-config PDA
    Signers,        \* keys that can sign an administrative instruction
    AprTables,      \* the apr_bps tables an administrator can submit
    PeriodArgs,     \* the period_days values callers submit
    InputAmounts,   \* input_amount_raw values callers submit
    UsdAmounts,     \* amount_usd_micros values, also used as min and max
    RaAmounts,      \* RA micro amounts callers submit
    U64Max,         \* largest value of the program's u64 amounts
    InitialInput,   \* input tokens each owner holds at first, per mint
    InitialVault,   \* RA micros in each vault at first
    MaxTime         \* bound on the clock

SupportedPeriods == {7, 30, 90, 180, 365}
Statuses == {"Absent", "Active", "Claimed"}

ASSUME StakePoolAssumption ==
    /\ Signers # {} /\ Vaults # {} /\ RaMints # {}
    /\ PayoutMints \subseteq RaMints /\ PoolOwned \subseteq Vaults
    /\ VaultMint \in [Vaults -> RaMints]
    /\ U64Max \in Nat /\ MaxTime \in Nat
    /\ AprTables \subseteq [SupportedPeriods -> Nat]
    /\ PeriodArgs \subseteq Nat
    /\ InputAmounts \subseteq 0..U64Max
    /\ UsdAmounts \subseteq 0..U64Max
    /\ RaAmounts \subseteq 0..U64Max
    /\ InitialInput \in Nat /\ InitialVault \in Nat

\* Addresses and seeds are 32 bytes: there are finitely many.
ASSUME FiniteAssumption ==
    /\ IsFiniteSet(Owners) /\ IsFiniteSet(Seeds) /\ IsFiniteSet(Mints)
    /\ IsFiniteSet(RaMints) /\ IsFiniteSet(Vaults)

VARIABLES
    config,         \* the GlobalConfig account
    tokenConfig,    \* the TokenStakeConfig account of each mint
    position,       \* the StakePosition account of each <<owner, seed>>
    vaultBalance,   \* RA held by each vault
    userRa,         \* RA received by each owner, per RA mint
    userInput,      \* input tokens still held by each owner, per mint
    deposited,      \* input tokens in the swap-node vault of each mint
    now,            \* Clock::unix_timestamp
    paid,           \* history: RA moved to the owner for each position
    withheld        \* history: claim fee kept in the vault for each position

adminVars   == <<config, tokenConfig>>
balanceVars == <<vaultBalance, userRa, userInput, deposited>>
ghostVars   == <<paid, withheld>>
vars == <<config, tokenConfig, position, vaultBalance, userRa, userInput,
          deposited, now, paid, withheld>>

PositionIds == Owners \X Seeds

NoPosition ==
    [status |-> "Absent", input |-> 0, usd |-> 0, payout |-> 0, apr |-> 0,
     startedAt |-> 0, unlockAt |-> 0, claimedAt |-> 0]

\* The fields of an account that does not exist mean nothing.
NoConfig ==
    [exists |-> FALSE, paused |-> FALSE, operator |-> CHOOSE s \in Signers : TRUE,
     multisig |-> CHOOSE s \in Signers : TRUE, vault |-> CHOOSE v \in Vaults : TRUE,
     raMint |-> CHOOSE m \in RaMints : TRUE]
NoTokenConfig ==
    [exists |-> FALSE, enabled |-> FALSE, min |-> 0, max |-> 0,
     apr |-> [p \in SupportedPeriods |-> 0]]

ConfigRecords ==
    [exists: BOOLEAN, paused: BOOLEAN, operator: Signers, multisig: Signers,
     vault: Vaults, raMint: RaMints]
TokenConfigRecords ==
    [exists: BOOLEAN, enabled: BOOLEAN, min: Nat, max: Nat,
     apr: [SupportedPeriods -> Nat]]
PositionRecords ==
    [status: Statuses, input: Nat, usd: Nat, payout: Nat, apr: Nat,
     startedAt: Nat, unlockAt: Nat, claimedAt: Nat]

Init ==
    /\ config = NoConfig
    /\ tokenConfig = [m \in Mints |-> NoTokenConfig]
    /\ position = [p \in PositionIds |-> NoPosition]
    /\ vaultBalance = [v \in Vaults |-> InitialVault]
    /\ userRa = [o \in Owners |-> [m \in RaMints |-> 0]]
    /\ userInput = [o \in Owners |-> [m \in Mints |-> InitialInput]]
    /\ deposited = [m \in Mints |-> 0]
    /\ now = 0
    /\ paid = [p \in PositionIds |-> 0]
    /\ withheld = [p \in PositionIds |-> 0]

-----------------------------------------------------------------------------
(* Administration.                                                         *)

CanWrite(signer) ==
    config.exists /\ signer \in {config.operator, config.multisig}

\* Whoever comes first fixes the authorities: the account is `init`, so a
\* second call fails, and no instruction changes them or `paused` later.
InitializeGlobalConfig(operator, multisig, vault, raMint) ==
    /\ ~config.exists
    /\ config' = [exists |-> TRUE, paused |-> FALSE, operator |-> operator,
                  multisig |-> multisig, vault |-> vault, raMint |-> raMint]
    /\ UNCHANGED <<tokenConfig, position, balanceVars, now, ghostVars>>

\* The new vault and mint are stored as given: nothing checks that the vault
\* belongs to the pool, holds that mint, or that no position is open.
UpdateGlobalConfig(signer, vault, raMint) ==
    /\ CanWrite(signer)
    /\ config' = [config EXCEPT !.vault = vault, !.raMint = raMint]
    /\ UNCHANGED <<tokenConfig, position, balanceVars, now, ghostVars>>

UpsertTokenStakeConfig(signer, mint, enabled, min, max, apr) ==
    /\ CanWrite(signer)
    /\ tokenConfig' = [tokenConfig EXCEPT ![mint] =
         [exists |-> TRUE, enabled |-> enabled, min |-> min, max |-> max,
          apr |-> apr]]
    /\ UNCHANGED <<config, position, balanceVars, now, ghostVars>>

-----------------------------------------------------------------------------
(* Staking.                                                                *)

\* An apr is accepted only when it is the configured one; an unlock time past
\* the bound of the clock could never be reached.
AprArgs == UNION {{t[p] : p \in SupportedPeriods} : t \in AprTables}
UnlockArgs == 0..MaxTime

CreateArgs ==
    [input: InputAmounts, usd: UsdAmounts, principal: RaAmounts,
     reward: RaAmounts, payout: RaAmounts, apr: AprArgs, period: PeriodArgs,
     unlockAt: UnlockArgs]

AprBpsForPeriod(mint, period) == tokenConfig[mint].apr[period]

\* A vault the program accepts: owned by the pool and of the configured mint.
AnyMintVault == config.vault \in PoolOwned
VaultAccepted ==
    /\ config.vault \in PoolOwned
    /\ VaultMint[config.vault] = config.raMint

\* The position account is `init`: its address can be taken once.
VacantOrClaimed(p) == position[p].status # "Active"
Vacant(p) == position[p].status = "Absent"

CreateStakePosition(owner, seed, mint, a) ==
    /\ config.exists /\ tokenConfig[mint].exists
    /\ Vacant(<<owner, seed>>)
    /\ ~config.paused
    /\ tokenConfig[mint].enabled
    /\ VaultAccepted
    /\ a.usd >= tokenConfig[mint].min
    /\ a.usd <= tokenConfig[mint].max
    /\ a.period \in SupportedPeriods
    /\ a.apr = AprBpsForPeriod(mint, a.period)
    /\ a.principal + a.reward <= U64Max             \* checked_add
    /\ a.payout = a.principal + a.reward
    /\ a.unlockAt > now
    /\ userInput[owner][mint] >= a.input            \* transfer_checked
    /\ userInput' = [userInput EXCEPT ![owner][mint] = @ - a.input]
    /\ deposited' = [deposited EXCEPT ![mint] = @ + a.input]
    /\ position' = [position EXCEPT ![<<owner, seed>>] =
         [status |-> "Active", input |-> a.input, usd |-> a.usd,
          payout |-> a.payout, apr |-> a.apr, startedAt |-> now,
          unlockAt |-> a.unlockAt, claimedAt |-> 0]]
    /\ UNCHANGED <<adminVars, vaultBalance, userRa, now, ghostVars>>

ClaimArgs == [gross: RaAmounts, net: RaAmounts, fee: RaAmounts]

\* What a claim must find: a position not finalized yet, its time come, the
\* whole payout accounted for, and enough in the vault for the net amount.
AnyPosition(p) == position[p].status # "Absent"
ListedPosition(p) ==
    position[p].status = "Active" /\ \E m \in Mints : tokenConfig[m].enabled
NotFinalized(p) == position[p].status = "Active"

Matured(p) == now >= position[p].unlockAt

SettlesInPart(p, a) == a.fee + a.net = a.gross /\ a.gross <= position[p].payout
SettlesInFull(p, a) ==
    /\ a.fee + a.net <= U64Max                      \* checked_add
    /\ a.fee + a.net = a.gross
    /\ a.gross = position[p].payout

AlwaysCovered(amount) == TRUE
VaultCovers(amount) == vaultBalance[config.vault] >= amount

\* No paused check and no look at the token's configuration: what was
\* accepted stays claimable.  Only the net amount moves.
ClaimStakePosition(owner, seed, a) ==
    /\ config.exists
    /\ VaultAccepted
    /\ config.raMint \in PayoutMints
    /\ NotFinalized(<<owner, seed>>)
    /\ Matured(<<owner, seed>>)
    /\ SettlesInFull(<<owner, seed>>, a)
    /\ VaultCovers(a.net)                           \* transfer_checked
    /\ vaultBalance' = [vaultBalance EXCEPT ![config.vault] = @ - a.net]
    /\ userRa' = [userRa EXCEPT ![owner][config.raMint] = @ + a.net]
    /\ position' = [position EXCEPT ![<<owner, seed>>] =
         [@ EXCEPT !.status = "Claimed", !.claimedAt = now]]
    /\ paid' = [paid EXCEPT ![<<owner, seed>>] = @ + a.net]
    /\ withheld' = [withheld EXCEPT ![<<owner, seed>>] = @ + a.fee]
    /\ UNCHANGED <<adminVars, userInput, deposited, now>>

Tick ==
    /\ now < MaxTime
    /\ now' = now + 1
    /\ UNCHANGED <<adminVars, position, balanceVars, ghostVars>>

-----------------------------------------------------------------------------
Admin ==
    \/ \E op \in Signers, ms \in Signers, v \in Vaults, m \in RaMints :
         InitializeGlobalConfig(op, ms, v, m)
    \/ \E s \in Signers, v \in Vaults, m \in RaMints :
         UpdateGlobalConfig(s, v, m)
    \/ \E s \in Signers, mint \in Mints, on \in BOOLEAN,
          lo \in UsdAmounts, hi \in UsdAmounts, apr \in AprTables :
         UpsertTokenStakeConfig(s, mint, on, lo, hi, apr)

Stakers ==
    \E o \in Owners, s \in Seeds :
        \/ \E mint \in Mints, a \in CreateArgs :
             CreateStakePosition(o, s, mint, a)
        \/ \E a \in ClaimArgs : ClaimStakePosition(o, s, a)

Next == Admin \/ Stakers \/ Tick

Spec == Init /\ [][Next]_vars

-----------------------------------------------------------------------------
(* Properties.                                                             *)

TypeOK ==
    /\ config \in ConfigRecords
    /\ tokenConfig \in [Mints -> TokenConfigRecords]
    /\ position \in [PositionIds -> PositionRecords]
    /\ vaultBalance \in [Vaults -> Nat]
    /\ userRa \in [Owners -> [RaMints -> Nat]]
    /\ userInput \in [Owners -> [Mints -> Nat]]
    /\ deposited \in [Mints -> Nat]
    /\ now \in Nat
    /\ paid \in [PositionIds -> Nat]
    /\ withheld \in [PositionIds -> Nat]

\* A position that has not been claimed has cost the pool nothing; a claimed
\* one has cost exactly its payout, once, whatever the order of claims,
\* reconfigurations and repeated transactions (claim_stake_position).
PaidExactlyOnce ==
    \A p \in PositionIds :
        paid[p] + withheld[p] =
            IF position[p].status = "Claimed" THEN position[p].payout ELSE 0

\* Nothing is paid before the unlock time agreed when the position was made,
\* and that time was in the future then (create and claim together).
NeverPaidEarly ==
    \A p \in PositionIds :
        /\ position[p].status # "Absent" =>
                position[p].unlockAt > position[p].startedAt
        /\ position[p].status = "Claimed" =>
                /\ position[p].claimedAt >= position[p].unlockAt
                /\ position[p].claimedAt <= now
        /\ paid[p] > 0 => now >= position[p].unlockAt

\* The terms of a position never change once it exists, the address is never
\* used again, and its status only moves from Active to Claimed.
Terms(p) == <<p.input, p.usd, p.payout, p.apr, p.startedAt, p.unlockAt>>

TermsFixed ==
    [][\A p \in PositionIds :
          position[p].status # "Absent" =>
              /\ Terms(position'[p]) = Terms(position[p])
              /\ position[p].status = "Claimed" => position'[p] = position[p]
              /\ position'[p].status # "Absent"]_vars

\* What owners received of a mint is what its vaults lost.
OfMint(m) == {v \in Vaults : VaultMint[v] = m}
RaConserved ==
    \A m \in RaMints :
        SumFunctionOnSet(vaultBalance, OfMint(m)) + SumFunction([o \in Owners |-> userRa[o][m]])
            = InitialVault * Cardinality(OfMint(m))

\* What an owner got is what was paid on that owner's positions, and what was
\* deposited is the input of all positions ever made.
EveryTokenHasItsPosition ==
    /\ \A o \in Owners : SumFunction(userRa[o]) = SumFunction([s \in Seeds |-> paid[<<o, s>>]])
    /\ SumFunction([p \in PositionIds |-> position[p].input]) = SumFunction(deposited)

\* Every token is accounted for, whichever vault and mint the configuration names
\* at the time: a claim neither mints nor burns and leaves the fee in the vault it
\* pays from (claim_stake_position), and input tokens come in only with a
\* position and never leave (create_stake_position).
TokensConserved == RaConserved /\ EveryTokenHasItsPosition

\* The abstract promise, each position seen as one of its entries.
PhaseOf(status) ==
    IF status = "Absent" THEN "none"
    ELSE IF status = "Active" THEN "open" ELSE "settled"

Ledger == INSTANCE StakeLedger WITH
    Ids     <- PositionIds,
    Amounts <- RaAmounts,
    Times   <- UnlockArgs,
    phase  <- [p \in PositionIds |-> PhaseOf(position[p].status)],
    amount <- [p \in PositionIds |-> position[p].payout],
    unlock <- [p \in PositionIds |-> position[p].unlockAt],
    given  <- paid,
    kept   <- withheld,
    clock  <- now

\* The program implements the promise.
ImplementsLedger == Ledger!LedgerSpec
=============================================================================
