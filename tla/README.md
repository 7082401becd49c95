# Solera: formal models

Solera is a staking application in three layers: a Next.js web app (`src/apps/web`),
a NestJS API on Postgres, Redis and a Solana RPC (`src/apps/api`), and two Anchor
programs (`src/programs/stake-pool`, `src/programs/swap-node`). A user stakes a token
and is promised an amount of RA; when the lock is over, a claim pays it from a reward
vault that administrators fund. Around this stand the conversion of small balances to
RA, wallets that sign in and are shown online, prices, news, documentation and the
administrators' panels. This directory models the control of that system in TLA+,
checks it with TLC and proves parts of it with TLAPS.

`PROJECT.json` lists, for every definition, the lines of code it stands for, for
every property plausible bugs it catches, and the hazards the properties are for.

## 1. The system's parts

### On the chain

**Programs.** `stake-pool` keeps one `GlobalConfig`, one `TokenStakeConfig` per mint
and one `StakePosition` per (owner, session seed). `swap-node` keeps one
`SwapNodeConfig` and one `FundingBatch` per (mint, seed). An instruction is a
transaction, all or nothing. The programs share nothing but the vaults' token
accounts. Right when: a position costs its payout once and not early, its terms stand
whatever administrators reconfigure, no token appears or vanishes, and a batch funds
once, the vault it was approved for.

### The API

**Staking.** The client drives: prepare (the API builds a transaction), sign, execute
(the API sends it and waits), record (the API writes a Postgres row). Nothing on the
server looks at the chain on its own. State: prepared sessions in Redis,
`WalletStakePosition` rows, a counter on the wallet, activities, and a devnet mirror
written best-effort afterwards. Hard: answers are lost, sessions expire, two tabs claim
one position, a counter is read and written back. Right when: rows are never ahead of
the chain, nor the mirror of the rows, and a stake counts once.

**A wallet's calls.** Converting, staking, claiming and noting an activity share one
course: header settings (cached), rate limit, block and role of the wallet, its country,
its row, and then their work. Hard: what was checked may be undone by administrators
before the work is done. Right when: nothing runs on another network than it was
prepared for, a blocked wallet gets nothing done, and no row outlives its user.

**Staking administration.** The same prepare/execute pair for initialisation,
configuration and coverage batches, with a mainnet policy that fixes the multisig.
Hard: the liability is read from a mirror that lags and the vault from the chain at
another moment; confirmations fail although the transaction lands. Right when: a
landed batch covers what it was prepared for, the mirror never shows an execution
that did not happen, and mainnet accounts are under the required multisig.

**Conversion.** Candidates, quotes and swap transactions come from Raydium or from two
caches that all requests share; a session of legs is stored, signed and executed leg by
leg, and a leg's output is the growth of the wallet's RA balance while it ran. Hard:
every call may throw, a swap may land after it was given up, kept quotes and swaps may
be of another time. Right when: a session is of what was asked for and quoted, no RA is
credited twice, and the stored statuses agree with each other and with the chain.

**Sign-in, presence, balances.** Visitors (`users-wallet-auth`) and administrators
(`auth`) each sign a challenge; both services share one row per wallet. Presence is
start, heartbeat, end, a sweep of stale sessions and blocking, all "read the row, later
write it by id". Balances are read from the chain by several calls and stored. Right
when: a message signs in once; an ended session stays ended, the total is the sum of the
sessions and a blocked wallet has none online; the rows of a network are of one moment.

**Administrator accounts.** Accounts and roles are created, updated and deleted in
separate statements, under the role the caller's token carries. Right when: roles in use
exist and a super admin remains.

**Prices.** A poller keeps ticks and bars of tracked pairs and features one of them; RA
settings and the network of the header choose which. Live prices are fetched through a
cache whose fetches are shared. Hard: the process works from copies of stored settings,
taken when a request or start-up began. Right when: one reader at a time, bars tell the
polls, and the process runs as stored.

**Settings.** RA settings, header, the address the web server calls (draft, published,
previous). Three readers understand the RA settings by three pieces of code. Right when:
what is enforced is what is shown, a roll-back goes back, and every tab ends on the
network last saved.

**News, documentation, market tokens, feed.** Counters beside votes, sections beside
pages, checks before writes, a paged list of activities. Right when: counts match votes,
a page is of one save, SOL has no mint, the feed shows no row twice and misses none.

**Rate limits and audit log.** Redis over a socket (one script) or over REST (separate
calls), with a counter in memory when a call throws; a log in a database of its own that
may be away. Right when: no more than the limit passes per window, a limited key is
released; no pool is left open, and reports are written again once the database is back.

### The web app

**A visitor's tab.** `UserSessionTracker` keeps one presence session for the connected
wallet; stores keep profile and portfolio; windows stake, claim and convert; the proxy
and the middleware in front of API and pages set and clear cookies. Hard: effects,
timers and answers of one wallet are still under way when the next one is chosen. Right
when: session, token and amounts are of the wallet that is there, and what a window says
has happened.

**An administrator's tab.** Signing in and out, and pages whose requests all go through
one function that remembers and shares answers. Right when: who signed out stays so, and
a page ends up showing what it changed.

### How they interact

Clients call the API through the proxy (`WebCookies`; the look-up of its address is in
`RuntimeSettings`); the API sends transactions and reads the chain (`StakeFlow`,
`AdminStaking`, `ConvertSession`, `WalletBalances`); rows of Postgres are shared between requests and services
(`AuthChallenge`, `WalletCalls`, `WalletSessions`), the mirror between staking and its
administration, the vaults between the programs (`RewardFunding`); settings reach wallets
and tabs through caches, messages and polls (`SettingsSpread`), and reach the poller by a
call (`RuntimeSettings`).

## 2. The modules

| Module | Models | State and actions |
| --- | --- | --- |
| `StakePool` | stake-pool `lib.rs` | accounts as records, one action per instruction plus the clock; `paid`, `withheld` record what each position cost |
| `StakeLedger` | what staking promises | a promise opened once, settled once in full, when its time has come |
| `SwapNode` | swap-node `lib.rs` | accounts as records, one action per instruction; `moved` records what each batch moved |
| `RewardFunding` | both programs on one chain | `StakePool` extended, `SwapNode` instantiated on the same `vaultBalance` |
| `AdminStaking` | `staking-admin*.service.ts`, mirror, hardening policy | one action per await of a prepare or execute request, plus chain, stakers and mirror |
| `StakeFlow` | `users-staking*.service.ts` and their clients | a run per stake and a claim per tab, one action per request or await |
| `WalletCalls` | the course of eleven calls in `users*.service.ts` | each call's place, what it read, sessions, sends and rows; acts of administrators |
| `PayoutRounding` | `resolveStakeQuote`, the two encoders, the two checks in the program | exact fractions in units of 1/(`Steps` x 10^6) micro, `Math.round`, and the program's sums |
| `ConvertBuild` | `listWalletConvertCandidates`, `prepareWalletConvert`, Raydium's calls | requests with their quotes and legs, the two caches, the wallet and the market |
| `ConvertSession` | `executeWalletConvert` | one session, its legs and transactions; one action per await of each execute request |
| `AuthChallenge` | `createWalletAuthNonce`, `verifyWalletAuth`, `getNonce`, `verifyWallet` | the row, the newest challenge, the requests |
| `WalletSessions` | `startSession`, `heartbeatSession`, `endSession`, the sweep, the block | rows, requests with what they read, sweeps with their list |
| `WalletBalances` | `syncUserTrackedOnchainBalances`, profile, candidates | the chain and its past, stored holdings, requests between reading and storing |
| `AdminAccounts` | `AuthService` accounts and roles | accounts, tokens, requests with the row they read |
| `PriceHistory` | `src/apps/api/src/ohlc` | rows of pairs and settings, the process's copy, timer and poll flag, callers with their context; ticks and bars by time, and all that was polled |
| `LivePrices`, `MarketTokens` | `market.service.ts` | cache, fetches under way, lists with their workers; rows of tokens, editors, old icons |
| `RuntimeSettings` | `system-ra`, `system-platform-settings`, `system-ra-ohlc-sync`, `backend-target.ts` | RA settings, network, featured pool, proxy address; requests between statements; the published address, its copy in each process, calls between lookup and answer |
| `SettingsSpread` | caches of `users.service.ts`, `solana-network.ts`, `ra-runtime.ts`, `header-branding.ts` | number of the last save, copies in API and tabs, messages by route; one row of RA rules and its three readings (`toRaSettingsPayload`, `loadRaRuntimeSettings`, `normalizeRaRuntime`) as operators |
| `NewsVotes` | `news.service.ts`, `NewsFeed.tsx` | counts, votes, feeds with what they show, votes under way |
| `DocsPages` | `docs.service.ts` | categories, pages, sections by save, row locks, writers between statements |
| `ExplorerFeed` | `listExplorerFeed`, `ExplorerOverview.tsx` | rows in order, the page, its requests |
| `RateLimit` | `rate-limit-store.ts` | one key: count, expiry, memory, requests between calls |
| `AuditTrail` | `audit-log.service.ts`, its interceptor and migrations | pools, runs of `initializePool`, timers, reports |
| `SessionTracker` | `UserSessionTracker.tsx`, `ConnectModal.tsx` | refs, stored ids and tasks of one tab, sessions of the API |
| `WalletPortfolio` | `use-solana-portfolio.ts`, `use-user-data.ts`, the sync providers | adapter, stores, loads under way |
| `WalletWindows` | `StakeModal.tsx`, `ClaimModal.tsx`, `ConvertModal.tsx` | what a window shows, its runs, what happened |
| `WebCookies` | `_shared/proxy`, `middleware.ts` | cookies, calls under way with those they carried, what was cleared and why |
| `AdminPanels` | `use-admin-auth.ts`, login page, layout; pages of `components/admin`, `api-request.ts`, `lib/admin` | cookie, hint, marker, store, requests; per page what is loaded, changed and loaded again; remembered and shared answers |
| `Sums` | no code: lemmas about the sums of the module `Functions` | |

`MC*` modules give the constants values for TLC and compose modules; `*Proofs` modules
hold the theorems.

Conventions: a Prisma `$transaction`, a single statement, a Redis command or script,
and a Solana transaction are one step (`DocsPages` takes its transaction apart, since its
statements wait for each other; `WalletCalls` takes the block of a wallet together);
everything between two awaits belongs to the step before or after it; an RPC or database
call that can throw has a step for that. Names, addresses, formatting and logging are
left out unless a property needs them. History variables, marked so in their modules,
record what happened and are read by no guard.

## 3. The runs

Where one run checks several modules that share no variable, its `MC` module composes
them by parts: a variable (`part`, in `MCSettling` `settling`) says which one a behaviour
follows, the others rest in one of their initial states. The states of the parts then add up instead of
multiplying, and nothing is lost, since no part could have seen another.

| Run | Question | Instance and why it is enough |
| --- | --- | --- |
| `stake_pool` | paid once, tokens conserved, a matured position claimable, `StakeLedger` implemented | one owner, two seeds, two vaults of two RA mints of which one is a wrong one, amounts to 2 with `U64Max` = 2 so that sums overflow, a clock of 3 instants (before, at and after unlock) |
| `administration` | a batch funds once and the right vault; accounts; the tab; the panels | two batches, two vaults, one position, each program can be pointed at either vault; two founders with two requests; three visits; each of fourteen pages with two runs at once and two changes |
| `admin_staking` | mirror behind chain, batches cover their liability, one initialisation, multisig | two prepares, two executes. On devnet two stakers and a lagging mirror; on every mainnet environment two administrators initialising |
| `stake_flow` | rows behind chain, mirror behind rows, a stake counts once; calls keep their ground | two stakes of which one is already open, two tabs, two blockhashes (the same transaction again, or a new one); of the calls two of any kind, one act of an administrator |
| `conversion` | sessions as quoted, credited once, statuses agree, settled is final | two tokens, two pools, prices and amounts to 2, two requests, two swaps, four turns; two legs, the first of two transactions, two execute requests, one RA received and one spent elsewhere |
| `wallet_access` | answered once; totals, blocks, ended sessions; holdings of one moment | four requests and two challenges; two rows, two requests at once, three in all, two sweeps, clock 0..2 and time-out 0; three tokens on two networks, two requests, two changes |
| `prices` | one reader, bars tell polls, settings hold, amounts rounded | pairs of which two share a pool, two requests, two starts; two administrators, three pools, two networks; ten instants with bars of 1, 2 and 4; two mints, three fetches, two lists; quotes from 1/3 to 8 micros in thirds, three rates, three fees; two processes, two calls |
| `web` | the tab, windows, cookies, feed, votes, pages, tokens | two wallets, two tasks at once and three moves; three profile requests, five switches; two runs and two legs; two tokens, four calls; four rows, pages of one, two requests; two readers, two feeds, two votes at once; two writers, four writes; two coins, two editors |
| `settling` | limits, rules, pools; and what must come right in the end | one tab, two saves, one failure; three pools, two runs at once, the database flipping twice; three requests, limit 2, three failing calls, both connections; every field at and beyond its bounds |
| `claim_accepted` | *violated*: every recorded mature position can be claimed | quotes as in `prices` |
| `last_super_admin` | *violated*: a super admin remains | two founders, two requests, two kinds of change |
| `rate_limit_rest` | *violated*: a REST key at its limit ends | three requests with one failure |

Bounds that stand for something unbounded are constants named `Max...` (also `U64Max`,
`CountBound`, `Failures`, `LastTime`, `Blockhashes`) and appear in guards only. Nearly
every hazard here needs two actors and two objects; the limiter needs three requests, a
lost update of the price settings a restart as well. Symmetry is over interchangeable
requests, tabs, wallets or administrators, never over a value an initial state singles
out, and never used with liveness. `CHECK_DEADLOCK FALSE` everywhere: each system may
come to rest (requests answered, clock at its bound).

The properties of a run that are conjunctions (`EachStakeCountsOnce`,
`TabFollowsItsWallet`, ...) name parts that stand, each with its own comment, in the
modules they are about.

**Exceptions.** Many properties say "unless ...". The exception is the exact interleaving
in which the code, which has few locks, gives the guarantee up, and a history variable
records it. The runs show that nothing else breaks the guarantee.

| Property | Given up when |
| --- | --- |
| `SettledOnce`, `CountIsExact` | a claim commits over a count or row that moved since it was read (`raced`) |
| `SuperAdminRemainsUnraced`, `UpdatesWhatWasAsked` | a request writes across another |
| `TotalIsTheSum`, `BlockedIsOffline` | two handlers close one session; a start is past its check when the block comes |
| `CreditedOnce`, `StatusMatchesLegs`, `SettledIsFinal` | two executions run at once; for the first also: a leg began with a balance that could not be read, which counts as 0 (`misread`) |
| `SwapsAreAsQuoted`, `NoSwapTwice`, `SessionsAreAsAsked` | the pool or route changed while a swap was kept; the wallet got the same token again; several legs open the account |
| `HoldingsAreOneMoment` | a reading not everybody answered |
| `RunsAsStored`, `FeaturedIsTracked`, `CorePairStands` | two savings crossed or calls about pairs overlapped or broke off |
| `PoolFollowsNetwork`, `PreviousIsTheLast`, `CallsGoWherePublished` | a reset, failure or crossing; two publishings crossed; a lookup was under way when the copy was forgotten |
| `PricesMoveForward`, `OneFetchPerMint` | prices were turned off in the middle of a fetch |
| `BarsTellThePolls` | (bars put together, ticker) a change of interval dated a tick before an earlier one |
| `SessionIsOfTheWallet`, `OpenSessionsAreKnown` | a run was skipped, started beside another or went on for a wallet that left; the network lost an end or its answer |
| `RowsAreOfTheWallet` | the load of another wallet is still to end; a timer outlived its wallet |
| `TokensAreKept`, `OneReader` | a call was under way when the token came, connecting was off; first calls overlapped or failed |
| `StakesAreConfirmed`, `OneConversion` | a retry of a run that may have staked; the window was closed on a run |
| `FeedIsWhole` | an answer met a list it was not asked for, a poll pushed rows off a list longer than a page, a row was stored behind newer ones |
| `CountsMatchVotes`, `FeedMarksTheVote` | two votes of one reader overlapped; the feed voted elsewhere, gave up or loaded meanwhile |
| `SectionsAreOneSave`, `DocsAreFiled`, `SolHasNoMint` | a save of nothing but sections overlapped another; two requests checked one title, or edited one token, at once |
| `ShowsItsChanges`, `SignedOutStays` | a read was under way with the change, or failed; a profile was on its way |
| `PoolsAreAccountedFor` | two runs of `initializePool`, or two endings, overlapped |

## 4. Fairness

Three parts have liveness properties, all in `settling`, and each assumes no more than
that what has begun goes on:

- `RateFairness`: Redis deletes a key whose time to live is over (`KeyExpires`), and a
  request that has made its first call goes on to the later ones or sees them fail.
- `SpreadFairness`: the interval timer of `useRuntimeSolanaNetwork` fires, a request of a
  tab is answered and its answer stored, copies expire, and a message that was sent
  arrives. Saves, failures and focus of the tab are left free. The number of failures is
  bounded (`MaxFails`), since a network that always fails never tells anything.
- `AuditFairness`: a run of `initializePool` and a report that has begun take their next
  step. `LoggingResumes` assumes in its own statement that the database stays up from some
  time on and that administrators go on working, since nothing else starts a retry.

Nothing is assumed of new requests or of calls succeeding. All other specifications are
safety only: clients, administrators and the network owe nothing.

## 5. What the violated runs show

- `claim_accepted`: `encodeClaimStakePositionArgs` rounds gross, net and fee each to
  micros and the program demands `fee + net == gross`. When the fractions fall badly
  every claim of the position is refused until the fee rate changes. The encoder of a
  stake rounds principal, reward and payout the same way, so a stake can be refused too,
  until a new price gives other fractions.
- `last_super_admin`: two requests count each other's super admin and then both write,
  although the code says one must remain.
- `rate_limit_rest`: over REST the expiry is a second call, made only when the count
  was 1; if it fails, or that first answer is lost, the key stays limited for good.

Seen while modelling, without a document that promises otherwise, and reachable in the
runs as one of the exceptions above or as an outcome no property forbids: a claim whose
record request is refused leaves its row ACTIVE for good (`ClaimFails`); a stake whose
client gave up is opened and never recorded (`StakeFails`); a second execution of a
conversion at once overwrites COMPLETED with FAILED; RA that arrives late is credited to
the leg that runs then, and all of it when the balance could not be read; every leg of a
session opens the RA account when there is none; two votes of one reader count twice; a
save of nothing but sections can leave a page with those of two saves; the poller starts
on the defaults whatever was stored; a lookup under way keeps an old address alive.

## 6. What is proved

For every value of the constants that satisfies the named assumptions (in the modules;
mostly sets of naturals and non-empty sets; finite sets where a sum or a count is about
them). `tlapm` checks every leaf. Where a run composes parts, a lemma (`StakingParts`,
`ConversionParts`, ...) shows that its specification implies that of each part, so that
each part is proved alone and the theorem is about the run's own specification.

- `Sums`: `SumFunction` and `SumFunctionOnSet` are folds, a CHOOSE of a function that
  solves an equation along its own values. Induction over the finite subsets of a set is
  had without an operator parameter from the library's theorem that a well-founded
  relation has minimal elements: a non-empty set of counterexamples has a smallest one
  (`SubsetInduction`). With it a solution exists (`SumExists`) and is unique (`OneSum`),
  so a sum can be taken apart at any element; the rest are the facts the proofs cite:
  what a sum does when a summand is added, dropped, changed or moved.
- `AdministrationProofs`, the stake pool alone: `TypeCorrect`; `PaidOnce`, `PaidInTime` by
  `IInv == TypeOK /\ PaidExactlyOnce /\ NeverPaidEarly`. Neither is inductive without
  types; that a claimed position cost its payout needs that an active one cost nothing.
  `CreateEffect`, `ClaimEffect` and `OtherSteps` reduce the steps to three cases.
  `TermsStand`: no instruction writes an existing position but a claim, and that only
  its status and time. `LedgerImplemented`: under `IInv` a creation is `Open`, a claim
  is `Settle`, the clock is `Pass`, all else a stutter. `TokensStay`: what a claim takes
  from a vault one owner gets, what a stake takes from an owner one position has as its
  input, and a position that is not there has none (`AbsentIsEmpty`).
- `AdministrationProofs`, both programs: the joint invariant `IInv /\ BatchIInv`. A
  swap-node step only adds to vaults, so `IInv` survives it (`PoolInvKept`); a stake-pool
  step leaves batches alone. Hence `FundingTypeCorrect`, `BatchPaidOnce`, `BatchesStand`
  and `ClaimsUndisturbed`; and `VaultsOweNothing`, where each step moves the same amount
  on both sides of the account of a vault.
- `AdministrationProofs`, accounts, tab and panels: `AdministratorsStand` by `TabInv`
  (who leaves has the marker set and no profile on its way, `AwayIsMarked`) and
  `AccountsInv` (a request that nobody wrote across still stands on the row it read, and
  has counted another super administrator who is there, `StandsOnWhatItRead`).
  `PanelsShowChanges` by `PanelsInv`: of each resource not read and changed at once, one
  handler changes it at a time, and what it made that is still stored is in every answer
  from which the page may be drawn next (`NothingOwedIsLost`), whichever of memory, shared
  request or run holds it. `AdministrationTypeCorrect` for all parts.
- `AdministrationProofs`, the API: `ShowsExecuted` and `ExecutedLasts` by `ActionInv`: a stored
  request stands as prepared, an execution past its confirmation has landed
  (`CallsConfirm`), of two initialisations one won and the chain holds who signed it
  (`OneWinner`), and a prepared mainnet request names the multisig the policy demands
  (`UnderMultisig`). `BatchesWork` adds what a batch covers: from preparing on, the vault
  with the batch and what was paid since holds the liability that was read (`PlanCovers`),
  which only sums over positions can say. `AdminTyped`.
- `OperationsProofs` (of `stake_flow` and of `settling`), the flow: `RowsBacked` and `MirrorFollows` by `FlowInv`, which adds to the
  shape of the state what each place of a client implies: a stake run that has been
  confirmed has its position on the chain, a claim that was confirmed has its position
  claimed there, and a claim past the row's update has the row claimed. A row is written
  only from such a place, which is why it never runs ahead. `StakesCountOnce` counts:
  the counter is within the number of rows whatever the interleaving (`CountsBounded`),
  which `StakingTyped` needs too, and equals the active ones unless two claims wrote
  from what they had read (`CountsExact`).
- `OperationsProofs`, the calls: `GroundIsKept` by `CallsInv`: a call about to send holds the
  network it loaded, which `Fits` compared with its own; a call of a wallet blocked
  before it came either has not read the row, or has read it blocked; a row or a
  position implies a user, because deleting one takes them along.
- `ConversionProofs`, the execution: `SettledStays` by `RunInv`: unless two executions
  overlapped, at most one request runs (`OneRuns`), and a settled session lets none begin.
  `ConversionCredits` in three layers. `LegInv` holds of overlapping requests as well:
  shapes, the order of a leg's transactions, and what a request past a step of a leg knows
  of it; so a completed leg has swapped or is warned about. `ResultInv` is about the
  request that runs alone: the legs before its own are settled as it counted, so the status
  it leaves is the one they call for. `CreditInv`: what is credited so far is
  covered by the balance a leg is measured from and what was spent since, so its growth is
  of RA that no leg has been credited yet; an output worked out and what is credited are
  together within what was received.
- `ConversionProofs`, the making of a session: `SessionsHold` by `BuildInv`. A kept swap
  sells what its key says (`CachesTrue`). Since a swap was built, the wallet holds no more
  than the balances it was built from and what it got since, less the amount once it landed
  (`SwapsTake`); a request that reads balances afterwards therefore sees a landed swap's
  amount missing, and could ask for it again only if it got some (`HasRead`). That is why
  no landed swap is handed out twice, although the key of the cache knows nothing of it.
  `ConversionTyped`.
- `WalletAccessProofs`, the challenges: `OneAnswer` and `NewestSignsIn` by
  `CInv == ChallengeTypeOK /\ SpentIsGone /\ AnsweredOnce`. `AnsweredOnce` alone is not
  inductive: a second request passes the deletion when the row still holds the first
  one's challenge. `SpentIsGone` says that it does not, because the row holds the
  newest challenge or none and a spent one never comes back.
- `WalletAccessProofs`, the balances: `OneMoment` by `BalancesInv`: what a request has
  found is what the chain held when it looked (`FoundIsPast`), every list of tokens to
  store has RA in it, so each storing stamps the RA row too (`RaIsTracked`), and a row
  carries the moment of its network's RA row (`RowsArePast`). The history only grows
  (`PastGrows`), so what was true of a moment stays true (`PastStays`).
- `WalletAccessProofs`, the sessions: `PresenceHolds` by `SessionsInv`: a request past its
  read works on a session there is, and closes one only if it read it open
  (`CallsKnowTheirSession`); what is open is online and has no duration yet
  (`OpenRowsAreNew`), so that closing it adds to the sum what it adds to the total, which
  only a second closing of the same row breaks (`TotalIsTheSum`, by the lemmas of `Sums`);
  under a block what is open was created late (`OpenIsLate`). `AccessTyped` adds the
  shapes of challenges and of balances (`BalancesTyped`).
- `OperationsProofs`, the rate limit: `LimitIsKept` by `RateInv`: what was granted together
  with the requests counted within the limit but not answered yet (`Promised`) is at most
  the key's count and at most the limit. Without the promised ones the claim is not
  inductive. `KeyInv` adds that a key over a socket never lacks its expiry.
- `OperationsProofs`, the rules of RA: a stored field is one that was given and accepted
  (`RulesInv`), so what the three readers take it for is in its range (`FieldsInRange`), and
  their different ways to clamp it come to the same (`RulesAgree`).
- `OperationsProofs`, the audit log: `AuditInv`. That a pool is in use, being made or being
  ended is not inductive: a run that fails clears `this.pool`, and an ending clears it
  whichever pool it ended. `OneAtATime` says why nothing is lost by that unless they
  overlap: only one of them is under way, a run that probes finds none in use, one past
  its probe or an ending has the pool in use, and one that failed has closed its own.
- `OperationsProofs`, settings on their way: `NeverBack` by `SpreadInv`: what the service keeps,
  the one read it has under way and the row are in the order of their saves
  (`InOrderOfSaves`). `LimitsStand` and `SettlingTyped` put the four parts together.
- `PricesProofs`, the poller: `ReadersWait` and `SettingsStand` by `PollerInv`. The mark of a
  poll is up exactly while one call polls (`PollInv`). That the process runs on the stored
  settings is not inductive, since saving and applying are two steps: `ConfigInv` says that
  who is about to apply holds what is stored, and is the only one, until two cross. The
  featured pair needs most: a call that changed a pair owes the settings a check, and
  `FeaturedInv` says what each stage of that call may count on. As two such calls at once
  set `tangled`, the proof of a step is about one call that is alone (`Alone`,
  `PairsFor`), and the lemma `PairsNext` takes it back to all of them.
- `PricesProofs`, the bars: `BarsAreTrue` by `BarsInv`: each bucket's bar tells of its polls
  by a first and a last, a highest and a lowest of them (`Tells`), which one more poll keeps;
  only what is read says the same with Min and Max. A bucket lies within one of a
  multiple of its interval (`BucketsNest`), so the bars put together miss no poll.
- `PricesProofs`, settings and addresses: a request on its way to the poller carries what is
  stored and is the only one, unless one failed or two crossed (`SyncInv`); who publishes has
  read the stored row (`ProxyInv`); nothing old is on its way to a process that is up to
  date (`ToldIsNew`).
- `PricesProofs`, live prices and amounts: a fetch is of one mint and answered no older
  than what is kept (`LiveInv`); `AmountsStand` by `PayoutInv` from what rounding to an even
  unit does (`Rounds`, `RoundedSum`), for any scale. `PricesTyped` for all parts.
- `TabProofs`, each part of a visitor's tab alone, for `WebProofs` to put together: the
  lemmas of the presence session, the wallet and its portfolio, the cookie, and the feed.
- `TabProofs`, the presence session: `TabStands` in its first part, by `TrackerInv`. What each
  task works on is written down: who holds `isStartingRef` works for the wallet connected,
  a session is being ended only by its number and its owner is known (`TaskFits`). That the
  session of the tab is of its wallet is not inductive: a switch is observed in a later
  task, until which it is of the wallet before (`FollowInv`). Of what is open, each is the
  session of the tab, is being ended by a task, or was lost to the network (`OpenInv`), so
  at rest nothing but the session of the tab and the lost ones is open.
- `TabProofs`, wallet and portfolio: `PortfolioInv`. The list of tokens in the store is of its
  key, or a load of that key is under way and will publish (`ChainInv`), and what says it
  loads has such a load. The profile is of the wallet of the application or of none, until
  a timer outlived its wallet (`ProfileInv`).
- `TabProofs`, the cookie: `TokenInv`. `TokensAreKept` needs what each call carries and may
  answer: the token in the jar is the call's own, none, or excused (`TokenOf`), an answer
  clears it only for a reason that holds (`AnswerOf`), and a token on its way to the jar was
  never there and travels with one call (`GaveInv`). The number of a block tells a call
  that learnt of the block that still stands from one that learnt of an earlier one.
- `TabProofs`, the feed: `FeedIsTrue` by `FeedInv`. An answer is a page of the rows there were:
  in their order, its cursor its last row, and of the rows that fit nothing is missing
  but what lies behind the cursor or came later (`LoadFits`, `Covered`). The page shown has
  its cursor as its last row and holds all rows between it and the newest shown
  (`PageStands`), while nothing is tangled and no other filter is being loaded. The hard
  step is a poll that lands before a longer list: the cursor stays, so what it pushes off
  the end is lost (an exception above); that one which pushes nothing off has brought no
  new row either, and leaves the same rows, is a matter of counting (`ListCounts`).
  The order of a page's rows exists, by induction over finite sets, and is unique
  (`OrderExists`, `OrderedIs`).
- `WebProofs`, tokens and documentation: `ContentStands`. `TokensInv`: a request names the
  token it is about and, unless two of them name one, leaves no mint on SOL when it is
  written (`LeavesNone`); an icon of the earlier version is still to be looked at, copied,
  or could not be (`IconsInv`). `DocsInv`: a request is about a page or a category there
  is; the title it checked is free until it is written (`TitlesInv`); who updated a page's
  row holds it, alone (`LocksInv`); and what a save has seen is all there is of a page's
  sections until it inserts its own (`SavesInv`), which bare saves, holding nothing, break.
- `WebProofs`, the votes: `VotesStand`. Of the counts by `CountsInv`: a vote that has read
  its reader's row has read what is stored, and is the only one that has, so what it adds
  to a count is what it changes in the table. Of the marks by `MarksInv`: while a feed made
  every vote of its reader itself, the end of its vote, what it keeps and the answer it
  waits for all carry the vote that is stored. `ReaderInv` for the cookie of the reader:
  the one id that was issued is in the jar or with the one call that will bring it.
- `WebProofs`, the windows: `WindowsTellTheTruth` by `WindowsInv`. The runs that staked or
  still may, with the one a failed run leaves to be tried again, are no more than the
  confirmations and repeats (`StakeInv`); a line that says COMPLETED is of a leg that was
  sold (`LinesInv`). That an amount filled in is within its limits is a matter of rounding
  alone and holds of any natural balance and price (`RatioFits`).

`WebTyped` adds up what all parts of `web` say of the shape of their variables.

Only model-checked: that a matured position can be claimed (`MaturedIsClaimable`), which
needs ENABLED, and `SettlesInTheEnd`, which is liveness; both are beyond this prover, as
is what the violated runs show, which are counterexamples. Every other property of a
passing run is a theorem. No module here declares a RECURSIVE operator.

## 7. Not modelled

- Listings, overviews, dashboards, statistics, readiness and metrics: reads.
- Maintenance switch, documentation settings, blog: single writes without a protocol
  (the panels that make them are in `AdminPanels`).
- Views, charts, forms and their drafts: rendering.
- RPC relay, uploads, the JSON cache: forwarding, files and single commands; the relay's
  limiter repeats the REST store of `RateLimit`.
- Row locks of Postgres but for `DocsPages`: a deadlock, which blocking a wallet beside
  the end of its session can run into (`users.service.ts:4222`), aborts one of the two
  and is a failing call (`CallFails`, `SweepFails`).
- Schema, migrations, IDL, types and scripts: declarations and generated code, used where
  a model needs a unique key or a cascade.

## 8. What could come next

1. `PriceHistory` beside `RuntimeSettings` in one state space, now that both are checked
   alone; two conversion sessions of one wallet executing at once.
2. Larger instances of `web` and `settling`: two tabs that follow one save.
