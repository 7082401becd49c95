---------------------------- MODULE WalletWindows ----------------------------
(***************************************************************************)
(* The windows in which a visitor stakes, claims and converts:             *)
(* StakeModal.tsx, ClaimModal.tsx and ConvertModal.tsx.  Each runs one     *)
(* asynchronous function from the click to the end, and shows how far it   *)
(* got.  The window may be left meanwhile, requests fail, and an answer    *)
(* may be lost though the API did what was asked.  The windows share       *)
(* nothing, so each behaviour follows one of them.                         *)
(***************************************************************************)
EXTENDS Integers, Sequences, FiniteSets, FiniteSetsExt

CONSTANTS
    Attempts,    \* functions started by a click: numbers 1, 2, ...
    Legs,        \* balances a conversion sells
    MinUsd, MaxUsd, \* RA settings stakeMinUsd, stakeMaxUsd
    Balances,    \* balances the wallet may be shown with, in grains of 1e-8
    Quotes       \* prices of a grain, 0 when there is none
ASSUME WindowsAssumption ==
    /\ Attempts \subseteq Nat \ {0} /\ IsFiniteSet(Attempts)
    /\ MinUsd \in Nat /\ MaxUsd \in Nat /\ Balances \subseteq Nat /\ Quotes \subseteq Nat

VARIABLES
    window,      \* which window is followed
    open,        \* whether it is open
    shows,       \* what the page knows: whether everything has been loaded, balance and price
    typed,       \* the amount in the stake window, 0 if none
    status,      \* processingStatus, or the status of the claim window
    marks,       \* progressStates
    newest,      \* processingRunIdRef: the run the window follows, 0 after it was left
    attempt,     \* how far each run got
    onChain,     \* runs that took effect on chain
    recorded,    \* runs the API has a row of
    confirms,    \* history: stakes confirmed from the form
    repeats,     \* history: retries after the failure of a step that may have staked
    preview,     \* preview of the convert window
    converting,  \* isConverting
    lines,       \* progressLegs: what is shown of each leg of each run
    sold,        \* legs the API converted
    crossed      \* history: conversions that met another

stakeVars == <<shows, typed, marks, newest, recorded, confirms, repeats>>
convertVars == <<preview, converting, lines, sold, crossed>>
windowVars == <<window, open, status, attempt, onChain, stakeVars, convertVars>>

Steps == 1 .. 5
Prepare == 2  Sign == 3  Pool == 4  Record == 5
Pending == [i \in Steps |-> "pending"]
Unused == 0  Finished == 6  Failed == 7  Stopped == 8
LastRun == Max({0} \cup {a \in Attempts : attempt[a] # Unused})
NewRun == LastRun + 1
Reports == {"PENDING", "SIGNED", "BROADCASTING", "COMPLETED", "FAILED"}

WindowsInit ==
    /\ window \in {"stake", "claim", "convert"} /\ open = FALSE
    /\ shows = [ready |-> FALSE, balance |-> 0, price |-> 0]
    /\ typed = 0 /\ status = "idle" /\ marks = Pending /\ newest = 0
    /\ attempt = [a \in Attempts |-> Unused] /\ onChain = {} /\ recorded = {}
    /\ confirms = 0 /\ repeats = 0
    /\ preview = "none" /\ converting = FALSE /\ lines = {}
    /\ sold = {} /\ crossed = {}

-----------------------------------------------------------------------------
(* The stake window: the form.                                              *)

\* What the stores of the page tell at a moment: whether there is a wallet, a token and the
\* policy and the balances have been loaded, and then the balance and the price.
StoresChange ==
    /\ window = "stake" /\ open /\ status # "running"
    /\ \E b \in Balances, q \in Quotes, r \in BOOLEAN :
          shows' = [ready |-> r, balance |-> b, price |-> q]
    /\ UNCHANGED <<window, open, status, attempt, onChain, typed, marks, newest, recorded,
                   confirms, repeats, convertVars>>
OpenStake ==
    /\ window = "stake" /\ ~open /\ LastRun < Cardinality(Attempts) /\ open' = TRUE
    /\ status' = "idle" /\ marks' = Pending /\ typed' = 0
    /\ UNCHANGED <<window, attempt, onChain, shows, newest, recorded, confirms, repeats,
                   convertVars>>
\* The window closes unless a run is under way; leaving the page takes it away anyhow.
\* Either way no run is followed any more.
LeaveStake ==
    /\ window = "stake" /\ open /\ open' = FALSE /\ newest' = 0
    /\ UNCHANGED <<window, status, attempt, onChain, shows, typed, marks, recorded, confirms,
                   repeats, convertVars>>

\* The limits with a tolerance of one grain, as BALANCE_EPSILON.
TooSmall(a) == (a + 1) * shows.price < MinUsd
TooLarge(a) == (a - 1) * shows.price > MaxUsd
Beyond(a) == a > shows.balance + 1
FormReady == shows.ready /\ shows.balance > 0
Accepted(a) ==
    FormReady /\ a > 0 /\ shows.price > 0 /\ ~TooSmall(a) /\ ~TooLarge(a) /\ ~Beyond(a)
\* Mutant: the limit in dollars is forgotten.
RatioOfBalance(quarters) == (shows.balance * quarters) \div 4
\* effectiveMaxStakeAmount times a ratio, cut to whole grains.
RatioOf(quarters) ==
    IF shows.balance * shows.price <= MaxUsd
    THEN (shows.balance * quarters) \div 4
    ELSE (MaxUsd * quarters) \div (4 * shows.price)
ApplyRatio ==
    /\ window = "stake" /\ open /\ status = "idle" /\ FormReady /\ shows.price > 0
    /\ \E quarters \in 1 .. 4 :
          RatioOf(quarters) > 0 /\ typed' = RatioOf(quarters)
    /\ UNCHANGED <<window, open, status, attempt, onChain, shows, marks, newest, recorded,
                   confirms, repeats, convertVars>>
Type ==
    /\ window = "stake" /\ open /\ status = "idle"
    /\ typed' \in Balances
    /\ UNCHANGED <<window, open, status, attempt, onChain, shows, marks, newest, recorded,
                   confirms, repeats, convertVars>>

-----------------------------------------------------------------------------
(* startProcessing and its five steps.                                      *)

Processing ==
    /\ NewRun \in Attempts /\ newest' = NewRun
    /\ attempt' = [attempt EXCEPT ![NewRun] = 1]
    /\ status' = "running" /\ marks' = [Pending EXCEPT ![1] = "active"]
    /\ UNCHANGED <<window, open, onChain, shows, typed, recorded, convertVars>>
Confirm ==
    /\ window = "stake" /\ open /\ status = "idle" /\ Accepted(typed)
    /\ Processing /\ confirms' = confirms + 1 /\ UNCHANGED repeats
FailedAt == CHOOSE i \in Steps : marks[i] = "failed"
\* Mutant: a retry is offered while a run is under way.
MayRetryAny == status \in {"running", "failed"}
MayRetry == status = "failed"
\* Retry Stake: everything from the first step on, and the form is not looked at again.
Retry ==
    /\ window = "stake" /\ open /\ MayRetry /\ Processing
    /\ repeats' = (IF status = "failed" /\ FailedAt >= Pool THEN repeats + 1 ELSE repeats)
    /\ UNCHANGED confirms

AtStep(a, i) == window = "stake" /\ attempt[a] = i
\* A run the window does not follow stops at the next look at the run id.
StepDone(a, i) ==
    IF newest = a
    THEN /\ attempt' = [attempt EXCEPT ![a] = IF i = Record THEN Finished ELSE i + 1]
         /\ marks' = [j \in Steps |-> IF j = i THEN "success"
                                      ELSE IF j = i + 1 THEN "active" ELSE marks[j]]
         /\ status' = (IF i = Record THEN "success" ELSE status)
    ELSE /\ attempt' = [attempt EXCEPT ![a] = Stopped] /\ UNCHANGED <<marks, status>>
StepFails(a, i) ==
    /\ attempt' = [attempt EXCEPT ![a] = Failed]
    /\ IF newest = a
       THEN marks' = [marks EXCEPT ![i] = "failed"] /\ status' = "failed"
       ELSE UNCHANGED <<marks, status>>
KeepForm == UNCHANGED <<window, open, shows, typed, newest, confirms, repeats, convertVars>>
\* sending, preparing the transaction at the API, and the wallet's signature.
EarlyStep(a) ==
    /\ \E i \in {1, Prepare, Sign} :
          AtStep(a, i) /\ (StepDone(a, i) \/ (i # 1 /\ StepFails(a, i)))
    /\ KeepForm /\ UNCHANGED <<onChain, recorded>>
\* executeWalletStake; what it throws says nothing of what reached the chain.
PoolStep(a) ==
    /\ AtStep(a, Pool)
    /\ \/ onChain' = onChain \cup {a} /\ (StepDone(a, Pool) \/ StepFails(a, Pool))
       \/ StepFails(a, Pool) /\ UNCHANGED onChain
    /\ KeepForm /\ UNCHANGED recorded
\* Mutant: an answer without an id counts as a record.
NamesTheRowAny(a) == TRUE
NamesTheRow(a) == a \in recorded'
\* persistStakePosition: the row may have been written though no answer says so, and
\* without the id of the row the step fails.
PersistStake(a) == recorded' \in {recorded, recorded \cup {a}}
RecordStep(a) ==
    /\ AtStep(a, Record)
    /\ PersistStake(a)
    /\ (NamesTheRow(a) /\ StepDone(a, Record)) \/ StepFails(a, Record)
    /\ KeepForm /\ UNCHANGED onChain

-----------------------------------------------------------------------------
(* The claim window.                                                        *)

ClaimUnder(a) == window = "claim" /\ attempt[a] \in Steps
OpenClaim ==
    /\ window = "claim" /\ ~open /\ LastRun < Cardinality(Attempts) /\ open' = TRUE
    /\ status' = "idle"
    /\ UNCHANGED <<window, attempt, onChain, stakeVars, convertVars>>
\* The window goes away, by its button unless a claim is under way, or with the page.
LeaveClaim ==
    /\ window = "claim" /\ open /\ open' = FALSE
    /\ UNCHANGED <<window, status, attempt, onChain, stakeVars, convertVars>>
Claim ==
    /\ window = "claim" /\ open /\ status = "idle" /\ NewRun \in Attempts
    /\ status' = "claiming" /\ attempt' = [attempt EXCEPT ![NewRun] = Prepare]
    /\ newest' = NewRun
    /\ UNCHANGED <<window, open, onChain, shows, typed, marks, recorded, confirms, repeats,
                   convertVars>>
Tell(a, what) == status' = IF open /\ newest = a THEN what ELSE status
\* Prepared, signed, executed; that the record was not made is not noticed.
ClaimGoesOn(a) ==
    /\ ClaimUnder(a)
    /\ LET i == attempt[a] IN
       /\ onChain' \in (IF i = Pool THEN {onChain \cup {a}} ELSE {onChain})
       /\ recorded' \in (IF i = Record THEN {recorded, recorded \cup {a}} ELSE {recorded})
       /\ attempt' = [attempt EXCEPT ![a] = IF i = Record THEN Finished ELSE i + 1]
       /\ (IF i = Record THEN Tell(a, "success") ELSE UNCHANGED status)
    /\ UNCHANGED <<window, open, shows, typed, marks, newest, confirms, repeats, convertVars>>
ClaimFails(a) ==
    /\ ClaimUnder(a) /\ attempt[a] < Record /\ attempt' = [attempt EXCEPT ![a] = Failed]
    /\ onChain' \in {onChain} \cup {onChain \cup {x} : x \in IF attempt[a] = Pool THEN {a} ELSE {}}
    /\ Tell(a, "idle")
    /\ UNCHANGED <<window, open, stakeVars, convertVars>>

-----------------------------------------------------------------------------
(* The convert window, which can be closed and opened again during a run.   *)

KeepStake == UNCHANGED <<window, status, onChain, stakeVars>>
UnderWay(a) == window = "convert" /\ attempt[a] \in Steps
\* Opening asks for the preview; one asked for earlier is ignored.
OpenConvert ==
    /\ window = "convert" /\ ~open /\ LastRun < Cardinality(Attempts) /\ open' = TRUE
    /\ preview' = "loading"
    /\ KeepStake /\ UNCHANGED <<attempt, sold, converting, lines, crossed>>
Previewed ==
    /\ window = "convert" /\ open /\ preview = "loading" /\ preview' \in {"some", "empty", "failed"}
    /\ KeepStake /\ UNCHANGED <<open, attempt, sold, converting, lines, crossed>>
\* Everything shown is reset when the window closes.
Closed ==
    open' = FALSE /\ preview' = "none" /\ converting' = FALSE /\ lines' = {}
CloseConvert ==
    /\ window = "convert" /\ open /\ Closed
    /\ KeepStake /\ UNCHANGED <<attempt, sold, crossed>>
\* Mutant: a second click is not held back.
MayConvertAgain == preview = "some"
MayConvert == preview = "some" /\ ~converting
\* handleConvert.
Convert ==
    /\ window = "convert" /\ open /\ MayConvert /\ NewRun \in Attempts
    /\ attempt' = [attempt EXCEPT ![NewRun] = Prepare] /\ converting' = TRUE /\ lines' = {}
    /\ crossed' = crossed \cup (IF \E a \in Attempts : UnderWay(a) /\ ~converting
                                THEN {NewRun} ELSE {})
    /\ KeepStake /\ UNCHANGED <<open, sold, preview>>
LinesOf(a, report) == {<<a, l, report>> : l \in Legs}
\* updateProgressLeg touches the lines that are there.
Update(a, report) ==
    lines' = {IF x[1] = a THEN <<a, x[2], report>> ELSE x : x \in lines}
\* finally: whatever else is under way, nothing is.
ConvertEnds(a) == attempt' = [attempt EXCEPT ![a] = Finished] /\ converting' = FALSE
ConvertPrepared(a) ==
    /\ UnderWay(a) /\ attempt[a] = Prepare
    /\ attempt' = [attempt EXCEPT ![a] = Sign] /\ lines' = LinesOf(a, "PENDING")
    /\ KeepStake /\ UNCHANGED <<open, sold, preview, converting, crossed>>
ConvertSigned(a) ==
    /\ UnderWay(a) /\ attempt[a] = Sign
    /\ \/ attempt' = [attempt EXCEPT ![a] = Pool] /\ Update(a, "BROADCASTING") /\ UNCHANGED converting
       \/ lines' = {} /\ ConvertEnds(a)
    /\ KeepStake /\ UNCHANGED <<open, sold, preview, crossed>>
\* applyExecutionResult, with what the API tells of each leg.
ConvertExecuted(a) ==
    /\ UnderWay(a) /\ attempt[a] = Pool
    /\ \E done \in SUBSET Legs :
          /\ sold' = sold \cup {<<a, l>> : l \in done}
          /\ lines' = {IF x[1] = a
                       THEN <<a, x[2], IF x[2] \in done THEN "COMPLETED" ELSE "FAILED">>
                       ELSE x : x \in lines}
    /\ attempt' = [attempt EXCEPT ![a] = Record]
    /\ KeepStake /\ UNCHANGED <<open, preview, converting, crossed>>
\* The stores are refreshed, and with any leg done the window closes.
ConvertTold(a) ==
    /\ UnderWay(a) /\ attempt[a] = Record /\ attempt' = [attempt EXCEPT ![a] = Finished]
    /\ IF \E l \in Legs : <<a, l>> \in sold
       THEN Closed
       ELSE preview' = "none" /\ converting' = FALSE /\ UNCHANGED <<open, lines>>
    /\ KeepStake /\ UNCHANGED <<sold, crossed>>
\* An error leaves the lines as they stand; legs may be done all the same.
ConvertFails(a) ==
    /\ UnderWay(a) /\ attempt[a] \in {Prepare, Sign, Pool} /\ ConvertEnds(a)
    /\ \E done \in SUBSET Legs :
          /\ attempt[a] = Pool \/ done = {}
          /\ sold' = sold \cup {<<a, l>> : l \in done}
    /\ KeepStake /\ UNCHANGED <<open, preview, lines, crossed>>

WindowsNext ==
    \/ StoresChange \/ OpenStake \/ LeaveStake \/ ApplyRatio \/ Type \/ Confirm \/ Retry
    \/ OpenClaim \/ LeaveClaim \/ Claim
    \/ OpenConvert \/ Previewed \/ CloseConvert \/ Convert
    \/ \E a \in Attempts :
          \/ EarlyStep(a) \/ PoolStep(a) \/ RecordStep(a)
          \/ ClaimGoesOn(a) \/ ClaimFails(a)
          \/ ConvertPrepared(a) \/ ConvertSigned(a) \/ ConvertExecuted(a) \/ ConvertTold(a)
          \/ ConvertFails(a)
WindowsSpec == WindowsInit /\ [][WindowsNext]_windowVars

-----------------------------------------------------------------------------
\* Types.
WindowsTypeOK ==
    /\ window \in {"stake", "claim", "convert"} /\ {open, converting} \subseteq BOOLEAN
    /\ status \in {"idle", "running", "claiming", "success", "failed"}
    /\ marks \in [Steps -> {"pending", "active", "success", "failed"}]
    /\ newest \in Attempts \cup {0} /\ crossed \subseteq Attempts /\ recorded \subseteq Attempts
    /\ attempt \in [Attempts -> 0 .. Stopped]
    /\ onChain \subseteq Attempts /\ sold \subseteq Attempts \X Legs
    /\ preview \in {"none", "loading", "some", "empty", "failed"}
    /\ lines \subseteq Attempts \X Legs \X Reports

\* What a window tells has happened: a stake told successful is on chain and recorded, a
\* claim told successful is on chain, and so is a leg shown as completed, however windows
\* are left and runs overlap (startProcessing, handleClaim, applyExecutionResult).
ToldIsTrue ==
    /\ window = "stake" /\ open /\ status = "success" => newest \in onChain \cap recorded
    /\ window = "claim" /\ open /\ status = "success" => newest \in onChain
    /\ \A x \in lines : x[3] = "COMPLETED" => <<x[1], x[2]>> \in sold

\* A visitor stakes no more often than confirmed, but for retries of a run that may have
\* staked before it failed (StakeModal.tsx, startProcessing and Retry Stake).
StakesAreConfirmed ==
    window = "stake" => Cardinality(onChain) <= confirms + repeats

\* Two conversions run at once only if the window was closed on one of them
\* (ConvertModal.tsx, handleConvert).
OneConversion ==
    \A a, b \in Attempts : a # b /\ UnderWay(a) /\ UnderWay(b) => {a, b} \cap crossed # {}

\* What a ratio button fills in is within the balance and the limit shown, so that only
\* the minimum can refuse it (applyBalanceRatio, handleStake).
RatioIsWithinLimits ==
    shows.price > 0 => \A q \in 1 .. 4 : ~TooLarge(RatioOf(q)) /\ ~Beyond(RatioOf(q))
=============================================================================
