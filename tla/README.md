# TLA+ models and proofs of the UniVM cross-chain protocols

This directory specifies, model-checks and proves properties of the program in this
repository: the XSmart protocol for atomic cross-chain invocation, the relayer that
drives it, the ATOM baseline it is compared with, the scripts that deploy all of them,
the daemon that submits to the ink! chain, and the harness that validates translated
contracts against their originals (RQ2).

Sources are quoted relative to `src/`. `PROJECT.json` maps every definition to the lines
it models and lists the runs, the mutants that show each property can fail, the hazards
and the theorems.

    tlc -config XSmartAtomicity.cfg MCXSmart      # one run
    tlapm XSmartProofs.tla                        # all proofs of a module

## 1. Inventory

### The system

One *execution chain* (bc1, EVM) records cross-chain executions. *Invoked chains* hold
the state that transactions use: hotels, flights, trains, taxis, on EVM, ink! (bc2) or
Fabric (bc3). Chains do not see each other. An off-chain *relayer* listens to their events
and makes the calls these events ask for; between the two sit a scheduler with a
checkpoint file, and one transport per kind of chain.

| Part | State it keeps | Operations | Hard behaviour | What makes it correct |
|---|---|---|---|---|
| Execution bridge `contracts/xsmart/bc1/XBridgingContract.sol` | execution record (phase, active, start block, ack count), recorded acks, update hashes, fees | requestLockStates, executeIntegrated{Logic, LogicWithProofs, CallTree}, requestUpdate, timeoutExecution, recordUpdateAckAndMaybeComplete, completeExecution, withdrawFee | a transaction id is reusable after an outcome; commit races timeout; two callers may update | one decision per attempt; completed means applied everywhere; fees stay covered |
| Invoked bridge (same contract on an invoked chain) | consumed request keys, unlock attempts | receiveLockRequest, receiveUpdateRequest, receiveRollbackRequest, retryUnlock | a batch stops at the first failure; requests arrive late, twice, in any order; anyone may unlock | an update is applied at most once and only under a commit; no lock outlives its transaction |
| State contracts and lock pool `SHotel.sol`, `STrain.sol`, `SFlight.sol`, `STaxi.sol`, `lib/LockPoolLib.sol` | stock, lock bags and their totals, bookings | lockState, unlockState, updateState, bookLocal | absolute overwrite of a value read when locking; local sales in between | totals match the bags; nothing sold twice, nothing lost |
| XSmart executor `relayer/internal/protocol/xsmart/` | per transaction: answers seen, acks seen, what was enqueued | one handler per event | all of it is memory, lost on a restart; thresholds count keys | answered executions are decided; committed ones complete |
| Scheduler and checkpoint `relayer/internal/relay/` | checkpoint of actions, queue, copies of actions in goroutines | Enqueue, process, onFailure, backoff, recovery | concurrent workers, bounded queue, crash between any two steps, ambiguous errors | nothing forgotten, done means applied unless the client made its answer up, bounded retries, everything with a client comes to an end |
| Transports `relayer/internal/transport/` | nonce per account, pending answers of endpoint calls | Send, SendEndpoint, WaitReceipt, Subscribe | shared nonce; answers only in memory; dropped events | an answer reaches the listener |
| ATOM `contracts/atom/`, `relayer/internal/protocol/atom/` | invocation, votes, deadlines, bonds | invoke, lock, submit, vote, extend, finalize, forceSettle, undo | deadlines that move, vote splits, races of settle and finalize | one settlement; bonds conserved |
| GPACT `contracts/gpact/`, its executor | call tree commitment, segments, locks | start, segment, root, signalling, timeouts | segment chains never start the clock their timeout needs | all or nothing over segments |
| IntegrateX `contracts/integratex/`, its executor | lock, execute and update records | the three phases and timeouts | whole-state locks, timeouts | all or nothing |
| Deployment and verification, RelayerManager, UBTLRegistry, LightClient, CallTree, VASSP | services, stakes, translations, headers | register, verify, commit-reveal, stake, slash | order of life-cycle calls | stakes and rewards covered; verification not stale |
| bc2 (ink!) and bc3 (Fabric) bridges and bookings | as the invoked bridge and the state contracts | the same, plus GPACT segments | no consumed keys (ink!); reads see the pre-state (Fabric) | as above |
| Deployment scripts and renderers `scripts/*/deploy-*.ts`, `render-*.ts`, `scripts/common.ts` | a record of addresses and flags per chain | deploy if missing, wire, register, pay, render a configuration | runs are cut, forced, repeated; a chain is reset under its record | a finished script's contracts exist and are wired to one another; running again changes nothing |
| WASM submit daemon `scripts/xsmart/wasm-submit-daemon.ts` | one queue, one extrinsic at a time | invoke, answer, time out | retracted blocks; the timer gives up the request, not its extrinsic | an answer "ok" is final; every request is answered |
| RQ2 validation `scripts/rq2/`, `RQ2TranslatedTargets.sol`, `HotelBookingTranslated.sol` | results file; state of original and translated contracts | generate, reset, apply to both, compare, record, resume | contracts outlive cases and runs; calls fail after they were applied | no false alarm, no false pass, each case recorded once; the translations agree with their sources |
| Benchmarks, probes, zk programs, translator CLI | none that outlives a run but result files | measuring, compiling, proving | | outside the models |

They interact through *events* (chain to relayer: a log that only grows, may be read late
or again), *calls* (relayer to chain: may come late, never or twice) and *shared
contracts* (initiators, third parties and local customers call the same chains).
The hazards are listed in `PROJECT.json`, each with the properties that cover it or the
reason none does yet.

### Plan

1. *Done.* XSmart: `Manifest`, `StateContracts`, `InvokedBridge`, `ExecutionBridge`,
   composed by `XSmart`; `AtomicCommit` as its abstract specification; `XSmartProofs`.
2. *Done.* `Scheduler` and `SchedulerProofs`.
3. *Done.* The scripts: `DeployScripts` and `Deploy`, `WasmDaemon` and
   `WasmDaemonProofs`, and RQ2 (`RQ2Models`, `RQ2Targets`, `RQ2Cases`, `RQ2Local`,
   `RQ2Live`, composed by `RQ2`).
4. *Done.* ATOM: `AtomService`, `AtomRemote`, composed by `Atom`, which also implements
   `AtomicCommit`; `AtomProofs`.
5. *Done.* Ledgers and counts: `FunctionSums` (sums over functions), in `XSmartProofs`
   `LockAccounting`, `FeeSolvency` and `RoomsNeverLost`, in `SchedulerProofs` `SendsBounded`,
   in `AtomProofs` `Conserved`, `DeployProofs` (`TypeOK`, `ConfigNamesContracts`).
6. *Done.* The two RQ2 runners: `RQ2Contracts` (the translations agree with their sources,
   what operations touch, twins) and `RQ2Proofs` (every safety property of the run).
7. *Done.* In `DeployProofs` what finished scripts leave behind: `WiredWhenDone` and
   `RerunIsSilent`. With it every safety property of every passing run is a theorem.
8. `GPACT`: root and segment chains with timeouts, against `AtomicCommit` where its
   timeouts allow; the missing start block is expected to show. Then XSmart's service life
   cycle, commit-reveal and relayer stakes; `IntegrateX`; the bc2 and bc3 variants of
   `InvokedBridge`; the nonce manager; `CallTree` and `VASSP` as pure algorithms.

## 2. XSmart

### Modules

- `Manifest`: transactions, contracts, their chains, the order of a batch, and the key
  under which the relayer counts a contract (`TargetKey`, from `remoteTargetKey`).
- `StateContracts`: `remain`, the bags of the lock pool and its totals, bookings. All
  amounts are in units of the price of one room, since the pool only sees multiples of it.
- `InvokedBridge`: one action per entry point of the bridge on an invoked chain, each the
  whole transaction: `LockWholeBatch`/partial failure, update of every contract of the
  chain, rollback, retry. `processed` is `processedCrossChainTxs`. Emitted events are sets.
- `ExecutionBridge`: one action per entry point on bc1. `elapsed` counts blocks since the
  start up to one past the timeout, which is as far as the code can tell them apart.
- `XSmart`: the executor's memory and handlers, the delivery of calls, initiator, third
  parties, local customers and the relayer's restart. A call for an event may be made at any
  later time, never, or again: that includes retries, restarts, reordering and several
  relayers. A call whose `require` fails changes nothing and is a disabled action.
- `AtomicCommit`: an execution is decided once per attempt; effects come only after the
  decision to commit and once per contract; done needs every effect.
- `MCXSmart`: instances. `XSmartProofs`: theorems. `FunctionSums`: what the proofs of all
  protocols need of sums over functions.

### Runs

| Run | Instance | Shows |
|---|---|---|
| `atomicity` | hotel and flight on bc2, train on bc3, one transaction requested twice, one restart, everyone acts | `IInv` with its parts, `CompletedImpliesUpdated`, `NoLockAfterUpdate`, `AcksBelowThreshold`, `UpdateOnlyWhileCommitDecided`, and that XSmart implements `AtomicCommit` |
| `inventory` | one hotel with two rooms, two transactions requested up to twice each, local customers, fee 1 | `BookedExactlyOnce`, `LockAccounting`, `FeeSolvency`, `RoomsNeverLost` on the logic path |
| `liveness` | as `atomicity`, one request, under the relayer's fairness | `CommitCompletes`, `AnsweredIsDecided`, `RollbackReleasesHeld` |
| `failed_lock` | one request | finding: commits after a refused lock |
| `orphan_lock` | one request, relayer only, under fairness | finding: a lock that arrives after its rollback stays |
| `oversold` | as `inventory` | finding: concurrent sales overwrite each other |

*Bounds.* Two contracts on one chain are the smallest batch that can fail half way, and the
second has the other kind of target key; the third contract on another chain makes
acknowledgments and rollbacks of different chains interleave. One room in each contract
lets a local customer make a lock fail. Requesting an id twice (`MaxAttempts` = 2) is what
lets old events meet a new attempt; a third attempt meets nothing new, as events are not
numbered by attempt. One restart empties the memory at any point. Two transactions are
enough for a lost update.

*Deadlock* is not checked: the protocol comes to rest when all executions have ended.

*Fairness* (`RelayerFairness`). The event loop and the scheduler's workers run until the
process ends and retry, so an event that is there is handled and a call that stays possible
is made. This stands on the following about the code, and where it does not hold the
liveness results do not apply: an action is not abandoned (`MaxRetries` is not reached, see
`Scheduler`); a restarted relayer re-reads the log far enough back
(`XSMART_RELAYER_EVM_LOG_LOOKBACK_BLOCKS`); and the call was not mined before it could
succeed (an EVM call is sent with fixed gas, is mined, reverts and is never sent again). The
last is why the run has no initiator that decides by itself: every relayer call then follows
the event that enables it. Timeouts, unlocks by anyone and withdrawals have no
fairness: nobody is obliged to make them. `CommitCompletes` therefore excepts a contract
whose lock was taken away or never existed: `receiveUpdateRequest` can then only revert.

### Findings

1. *A failed lock may commit.* The relayer counts the empty lock response, which reports a
   refused lock, towards the execute threshold, and the call tree never reads the answers.
   The comment at `XBridgingContract.sol:796` says a failed lock triggers a rollback.
   Run `failed_lock`.
2. *A late lock is orphaned.* `receiveLockRequest` checks its own key only; a lock mined
   after the rollback of its transaction is held, and a second rollback is refused as
   already processed. `XBridgingContract.sol:795`: "Unlock all locked states on invoked
   chains". Run `orphan_lock`.
3. *Lost sales.* `updateState` overwrites the stock with a value computed from the stock at
   locking, while `LockPoolLib.sol:7` promises that unrelated transactions may proceed
   concurrently. Run `oversold`.

### Proofs

`XSmartProofs` proves, for any numbers of transactions, contracts, chains, attempts,
restarts and any thresholds, from the named assumptions on the constants only:
`TypeCorrect`, `Invariant`, `CompletedIsApplied`, `UpdateEndsLock`, `BooksOnce`,
`CompleteExecutionUnreachable`, `UpdatesUnderCommit` and `Implements` (XSmart implements
`AtomicCommit`).

None of the invariants is inductive alone. `CompletedImpliesUpdated` needs to know that an
acknowledgment is real wherever it is on its way, as an event, as an enqueued call, as a
recorded key (`AcksAreReal`), and that the counter never exceeds the recorded keys
(`AcksAreCounted`); from there a counting argument (`AllAcknowledged`) gives that as many
acknowledged keys as contracts are all the contracts. `UpdateOnlyWhileCommitDecided`
needs `OldUpdatesAreApplied`: an update event outlives its commit only if it has nothing
left to do, which is what makes a second attempt under the same id safe. `NoLockAfterUpdate` needs
`LockedOnlyOnce`. `IInv` is their conjunction and is also checked by TLC in `atomicity`.
Every step is first shown to be one of four kinds (a decision of bc1, a step of an invoked
chain, an acknowledgment, a quiet one), and each kind preserves each conjunct. The
refinement maps each kind to steps of `AtomicCommit` or to stuttering.

Its second part proves the properties that are sums, from the same assumptions:

- `PoolsAreExact` (`LockAccounting`). A lock enters an empty bag, an unlock empties a full one,
  so the total moves by exactly one entry (`FunctionSumChange`) and the number of full bags by
  one. The type invariant is all it needs of the rest of the state.
- `FeesAreCovered` (`FeeSolvency`). `pendingFees` and `collectedFees` give and take in
  the step that moves `balance`; that no fee is released twice is `IInv`'s.
- `RoomsAreNeverLost` (`RoomsNeverLost`), with the hypothesis `RootResults = {}`: executions that take a
  call tree write its one number to every contract (`RootResults`), whatever the contracts
  hold, and then rooms can go, as they do on one chain. On the logic path, which the
  hypothesis leaves, the written number is the answered one less the booking. `RoomsNeverLost` is
  inductive as it is stated, over contracts, answers and updates on their way, because
  every one of those numbers plus what is booked *now* still covers the rooms: bookings only
  grow.

`FunctionSums` has the recursion behind `SumFunction` (a fold over a set, which the provers
do not unfold by themselves) and no induction over data, as theorems that
take an operator cannot be used here. Each lemma about sums looks at a smallest set that
violates it (`SmallestSubset`: the strict subsets of a finite set are well ordered).

### Abstractions and assumptions

- The contracts of every execution are the targets of the manifest, and an execution's
  `Num` is the manifest's: the relayer only sends what these say. Whether evidence is valid
  is not modelled: requests come from events.
- A call the relayer has done was executed on its chain. A WASM client that makes up its answers,
  and an action without a client, are in `Scheduler` (section 3); a deployment that runs so
  gets none of what the XSmart and ATOM runs show for the contracts on that chain.
- One relayer account earns the fees. Encoded payloads are the sequence of new stock values.
- The call tree either fails or returns a number out of `RootResults`, which the relayer writes to every
  target. The inventory run has no such results, because they overwrite stock whatever the
  interleaving.
- A relayer's `executeIntegratedCallTree` has the same action id in every attempt, so once
  done it is never enqueued again (`execAction`).
- `completeExecution` is not an action: `AcksBelowThreshold`, proved, is the negation of
  its guard. The phase `RolledBack` is assigned nowhere.
- The rollback events an invoked chain emits for itself repeat those of bc1 and are left out.

## 3. Scheduler

### Model

`Scheduler` follows one relayer process (`internal/relay/scheduler.go`, `checkpoint.go`).
Goroutines pass *copies* of an action by value. A copy is named after its action and the
Enqueue that made it; copy 0 is the one a restart reads from the file. Its `at` is the
program point of the goroutine that has it; every write to the store (`Put`) is a step of
its own, so that crashes and other copies come in between. `Take` merges reading the channel
with the first `Put` of `process`: an action read and not yet stored leaves the same file
behind as one still queued. `Answers` is what the endpoint clients do in
`WaitReceipt`, which hands the event to the listener *before* the action is stored as done
(`Completes`); a full channel drops the event, and so does a listener that has not
subscribed yet: after a restart the workers run before it does (`main.go:140-146`).

The chains are external: a call succeeds once, when the chain is ready for it. An EVM call
is sent with fixed gas and mined whatever it does; an endpoint runs the call in the send,
and may refuse it, call it already handled, or run it and still return an error
(`SendFails`: the commit was ordered, the status call failed). Errors and timeouts of nodes,
and failed writes, are bounded by `MaxFaults`.

*Made-up answers.* A WASM client that requires no proof, has no `XSMART_WASM_SUBMITTER_URL` and,
when it sends, no file at its metadata path (`wasm.go:278-290`), executes nothing: it stores an
answer computed from the request (183-190), `WaitReceipt` reports success and hands the
answer to the listener, and the action becomes Done (`wasm_test.go:15-101` fixes this). The
actions of such a client are `Fallback`, the step is `SendSynthetic`. A configuration of the xsmart protocol
must name a metadata file that exists at startup (`config/validate.go:131-136`); it may be gone
at the time of a send, and other protocols are not held to it.

*No client.* When `clientFor` finds no client for an action's chain or signer
(`scheduler.go:91-95`, `NoClient`, actions `Unserved`), the failure comes before the attempt is
counted: such an action is retried for ever, never done and never abandoned.

The checkpoint is two things: the map in memory (`store`), which every reader asks, and the
file, which only a restart reads. A flush writes the whole map over the file, in place
(`checkpoint.go:86`). It may fail (`FlushFails`, at most `MaxDiskFaults` times): before the file
is opened for writing it stays as it was, after that it is cut short, so that a restart finds
no action in it or cannot parse it and exits (`running`). A crash in the middle of a write is
a write that fails followed by a crash. Where the code looks at the error (`Put`:
`scheduler.go:82`, `99`, `129`, `191`) the goroutine returns and its copy is *stranded*: the
map has the action as unfinished, in flight perhaps, so that `Enqueue` skips it, and nobody
carries it until a restart; the next successful flush of any action writes its record too.
Where the code ignores the error (`PutAnyway`, `Finish`) the copy moves on.

Not modelled: the length of delays, which of several clients of a chain is taken, a graceful
stop (it is a crash at a good moment). An action is taken to be enqueued before its chain becomes
ready for it, which nobody could tell from the other order. Recovery pushes in order of creation; the model in any order.

### Runs

| Run | Instance | Shows |
|---|---|---|
| `scheduler` | one action of any of four kinds (EVM; endpoint whose client may, or may not, make an answer up; without a client), enqueued twice, two workers, queue of one, two retries, two faults, one of them a write of the file, two crashes | `IInv`, `NotStranded`, `DoneIsApplied`, `SendsBounded`, `SendsCounted`, `DoneIsFinal` |
| `scheduler_liveness` | an EVM call and an endpoint query behind one worker and a queue of one, three retries, one fault, which may be a write of the file, one crash | `Settles`, `Delivered`, `AnswersEmitted` |

*Bounds.* One action enqueued twice is what brings two copies of it into being, and with two
workers both may be at the chain; a queue of one makes every pusher block; two crashes allow
a crash during the recovery of the first; one failed write is enough for a file that is
behind, empty or unreadable at either. In the liveness run faults and crashes together (2)
stay below `MaxRetries` (3), which `Delivered` and `AnswersEmitted` need and which
the mutant `GivesUpEarly` shows to be tight.

*What the properties except*, and why they would be false without: `DoneIsApplied` excepts
made-up answers: done means executed for every action whose client answers only for what it
has executed (`DoneMeansExecuted`), and no more than answered for one of `Fallback`. `Delivered` and `AnswersEmitted`
speak of actions outside `Fallback`, and all three liveness properties of a scheduler that has a client for
every action (`AllServed`), because one without is carried for ever. `DoneIsFinal` holds for
an action enqueued once, since with two copies the slower one writes its own status over
Done, and but for a restart whose file has not got so far; `NotStranded`, `Settles` and
`Delivered` except an action stranded by a failed write, and `Delivered` one that a restart
has forgotten, with a file cut short or last written before the action; `Delivered` excepts
a call that its chain saw too early, since a reverted transaction keeps its hash and each
retry waits for the same receipt; `AnswersEmitted` excepts a
crash, since the answer is in memory only, a listener that is full or not there yet, and a
failed write of the transaction's hash, after which nobody collects the answer. These are
limits of the code. `SendsCounted` is what stopping on a failed write buys: no send is made that the file has
not counted, so a restart cannot start counting again; the mutant of `Put` that goes on
breaks it.

*Fairness.* Workers, timers, the recovery and the event loop are goroutines that the runtime
schedules, and chains mine what they were sent: weak fairness of each. Events, faults,
crashes and a chain's readiness have none. Fairness of the wait is an assumption on the node as
well: the WASM client waits for finality without a timeout. *Deadlock* is not checked: a scheduler with
nothing left to do waits.

### Proofs

`SchedulerProofs` proves `TypeCorrect`, `Invariant`, `NothingStranded`, `EverySendCounted`,
`DoneMeansApplied`, `DoneMeansExecuted`, `DoneStaysDone` and `SendsAreBounded` for any numbers of actions, workers, retries,
Enqueues, faults, failed writes and crashes. Most steps are steps of one copy and have one
shape (`Acts`): the copy moves, leaves the store or writes itself there, and vanishes
exactly when it writes a last status; the file becomes the store, stays, or is lost.
From that shape `NotStranded` follows directly. `DoneIsApplied` needs that the
hash a copy waits for is that of a transaction of its own action (`HashesAreOwn`) and that
what a chain reports has happened, and an answer that is held is to a call that was executed or is
made up (`EffectsAreReal`, `AnswersAreReal`). `DoneIsFinal` needs
that an action enqueued once has one copy at most, none when done (`AtMostOneCopy`),
which needs that copies exist only under names given out (`NamesAreGiven`), and that the
file is an earlier store (`FileIsBehind`). `SendsCounted` needs that copy and store know of
every send too, and that whoever is about to send has been counted in all three
(`SendsKnown`): only a `Put` whose write succeeded lets a copy begin to send. `IInv` is
their conjunction, checked by TLC in `scheduler`.

`SendsBounded` is not implied by `IInv`: two copies of an action count their own
attempts, and each overwrites the other's count in the store. Its inductive form gives every
copy a budget, what it may still send (`BudgetOf`): the retries its own attempts leave. `BudgetInv`
says that the sends made and the budgets of all copies together stay within
`MaxRetries` per Enqueue and one per crash, and bounds what the store and the file may hand to a restarted
relayer: whoever reads a record again gets the budget the record leaves, one more than the
writer of that record had at most, which is the one send per crash. The sum over copies is
again `FunctionSums`'. TLC checked `BudgetInv` on the instance of `scheduler` before it was
proved.

## 4. RQ2: translation validation

### Model

`RQ2Models` is the source semantics of the five contracts under test, as
`hotel-booking-model.ts` and `rq2-models.ts` give them; `RQ2Targets` the Solidity
translations; both work on the same records, so that the translations are compared with
their sources operation by operation. `RQ2Cases` has what the runners share: the operations the generator draws,
the keys a case touches, the comparison of two answers, the canonical snapshots.

- `RQ2Local` (`run-rq2a.ts`): a fresh instance per case, results written once at the end.
- `RQ2Live` (`run-rq2a-vm-full.ts`): deployed contracts that are never cleared. A case
  resets the scalars and prefixes its keys (`namespacedCaseId`); the results file is
  rewritten after every case and read again by the next process. A fault is a call
  that reports failure, whether or not it was applied; a process may be killed at any step.
  Each call is an action (the hotel's reset is two: `ResetTranslated`, `ResetTotal`), and the
  answer of the original is carried to the comparison.

- `RQ2`: the two side by side over the same variables; the initial state chooses the runner.
  `MCRQ2`: the instance. `RQ2Contracts`, `RQ2Proofs`: theorems.

A case is a path, not a list: the runner draws the next operation when it reaches it, which
covers every list the generator can produce up to the bound.

### Run `rq2`

The initial state chooses the runner and the contract, so that one run checks both.

| Property | Runner | Says |
|---|---|---|
| `EveryCasePasses` | local | over every sequence of operations source and translation answer alike and end alike |
| `LedgersBalance` | local | rooms, supply, bids and shares add up in both |
| `NeverDiluted` | local | no operation of the pool lowers what a share is worth |
| `NoFalseAlarm` | live | without a fault every case passes, whatever earlier cases and killed runs left behind |
| `PassedAgree` | live | a case that passed left the same state on both chains, faults or not |
| `RecordedOnce` | live | the results file only grows, by one new case at a time |

*Bounds.* Local: two users, two locks, one auction, four operations to a case, amounts 0-2 (the
pool 0, 2, 3, the least with which a division rounds in both directions). Live: two cases,
two launches, two faults, three operations in all (the train and the token, which have most to choose
from, two: `MCMaxSent`): a second launch meets what the first left, and the second fault is what lets both
sides of one operation fail. The two users are interchangeable, hence the symmetry set; no
property of the run is a liveness property. *Deadlock* is not checked: the runners
end.

*What the properties except.* A read of an ink! or Fabric original that fails counts as zero
in the snapshot (341-366); the train's `lockSize` is not read at all (520). `PassedAgree`
leaves out such cases: the runner cannot tell them. Ids are hashed to numbers by the
runner (276-283); the model takes them to be free of collisions, and a write of the
results file (648) to be atomic. The originals of the live runner are taken to do what the
source models do.

### Proofs

`RQ2Contracts` is about the contracts, for any users, ids, namespaces and amounts.
`TranslationAgrees`: in every sound state a translated contract answers every operation as
its source model does and leaves the same state; the work is where the two differ in form:
a price of 0 that one side guards against, a subtraction that stops at 0, a lock that names
no amount, a refund inside the condition instead of before it, a fee multiplied in another
order. (Amounts are natural numbers: the generator draws them far below the width of a
`uint256`.) Every operation keeps the books of its contract
(`TravelKeepsBooks` and its kin), no operation of the pool lowers the worth of a share
(`DexKeepsWorth`: products of reserves and shares, which the provers get one bilinear
step at a time), an operation writes only under the keys that the runner will call touched
(`OpTouches`), and two states that are *twins*, equal in the scalars and under a namespace,
answer alike and stay twins (`TwinsAnswerAlike`).

`RQ2Proofs` is about the runners, for any numbers of cases, launches, faults and operations:
`TypeCorrect`, `EveryCasePassesAlways`, `LedgersAlwaysBalance`, `SharesNeverDiluted`,
`ResultsRecordedOnce`, `PassesAlwaysMeanAgreement` and `NeverFalseAlarm`.

- *Local runner* (`LocalInv`). Both instances are the same record and in their books after every
  operation, so comparison and snapshots cannot fail.
- *The file* (`RecordsInv`). Results are of different cases, and a case under way has none;
  what is left of the file after the filter is the whole file (`AllIsKept`).
- *The chains* (`ChainsInv`). Contracts outlive cases, so isolation is an invariant of their
  whole history: a namespace that no process has reached is unwritten on both chains
  (`Clear`), and under the namespace of the case under way the two states differ at most in keys
  that the snapshots will read (`SameOff`, with the keys of an operation that only the
  original has answered: `KeysSoFar`). This is what holds with failed calls that were applied
  on one side only.
- *A pass* (`PassedInv`). Equal snapshots mean equal values under every key read
  (`SnapshotsMean`: the entries of a snapshot determine the values, as no two kinds of
  entry share a key), and `SameOff` covers the keys not read. Afterwards no step writes
  outside its own namespace (`Elsewhere`), which no recorded case shares.
- *No false alarm* (`TwinsInv`). While no call has failed, the states are twins from the
  reset on; between the answer of the original and that of the translation, the state the
  translation is about to reach is the twin of the original's.

All of it is `LiveInv` and `LocalInv`, which TLC checked on the instance of `rq2` first.
That ids do not collide, and that the originals do what the source models do, are properties
of the model (*What the properties except*), not of the proofs.

## 5. Deployment

### Model

`DeployScripts` holds each script as data, the sequence of its steps; `Deploy` interprets
them: read the record, keep or create a contract, write the record, point, enlist, bind,
enrol or pay, finish. An address is the position of a contract among those of its deployer, so a chain
that is reset hands out the same addresses again. A run may be cut between any two steps,
and between a creation and its record; the bytecode check may fail; another system's script
may create contracts in between; a chain may be reset under a record that survives.

### Run `deploy`

| Property | Says |
|---|---|
| `WiredWhenDone` | when a script has finished, every recorded contract exists, was built with the recorded addresses of the others, carries every setting, and a deposit was paid once, plus once per run cut while paying |
| `RerunIsSilent` | running a finished script again changes neither chain nor record and does not fail (`common.ts`: "Scripts are IDEMPOTENT") |
| `ConfigNamesContracts` | a rendered configuration never names an address without the contract of that name |

*What they except.* `deployIfMissing` takes any bytecode at a recorded address for the
contract, and flags outlive the chain they speak of. After a forced run that was cut, a
failed bytecode read, a reset with flags recorded, a registration of ATOM's server or judges that
was refused or failed with a warning (`EnrolFails`: its flag is written all the same) or a change of the proof adapter's mode, running again does not repair the wiring: these
records are `mixed`, and `WiredWhenDone` speaks of the others. `ConfigNamesContracts`
excepts a chain that was reset under its record.

*Bounds* (`MCScopes`). Ten settings: five records alone with two to four runs and up to two faults, and the
records of each configuration together with one run more than records and one fault. A third
run is what can meet what the second repaired. *Deadlock* is not checked: a developer
may stop.

Not modelled: `fundActors`, the nonces other transactions use up, the resending of an underpriced
transaction in `signAndSend`, the mirror of a local record to bc1, the change of mode in
`deploy-bc2.ts` (343-346), the Fabric deployment of bc3, the rq1c-depth renderers, a renderer
that throws after half its work, thresholds in manifests, two scripts on one record at once,
and the salt of an ink! contract (a new address is assumed each time).

### Proofs

`DeployProofs` proves every property of the run for any set of records, modes, configurations,
runs and faults: `DeployTypeCorrect` (`TypeOK`), `ConfigsNameContracts` (`ConfigNamesContracts`),
`ScriptsWire` (`WiredWhenDone`) and `RerunsChangeNothing` (`RerunIsSilent`). The proofs look into no
script. What they use of the scripts is stated as assumptions on fixed data, which TLC evaluates in full:

- `ScriptsAssumption`: a script is a sequence of steps of the known kinds, and what it notes or
  hands to a constructor was made before.
- `WiringAssumption`: a script makes a contract once (`MadeOnce`); a setting is made on a contract made
  before, and no other step touches its slot unless both only add to it (`SetOnce`); a flag is noted
  after the steps it stands for, and deposits come last (`FlagNoted`); the same contract is made the same
  way in every mode (`SameInEveryMode`); the ink! script notes its keys at its end (`WritesAtEnd`).
- `RecordsAssumption` and `ConfigsAssumption`: no script reads its own record, those it does
  read are written as their scripts go, and configurations take addresses of recorded contracts.

`ConfigNamesContracts` speaks of what was rendered and is not inductive: `IInv` adds that every record not
reset, and the memory of the running script, name contracts (`RecordsName`, `MemoryNames`), since an
address gets into memory with the creation or out of the record, and into the record out of
memory only; and that a running script knows the address of every contract it is past (`KnowsMade`),
whether it made or kept it. The delicate step is `ReceiptLost`, where the contract is there and the record
is not: it must leave the record as it was.

`WiredWhenDone` and `RerunIsSilent` are about all steps of a script together and follow from `WInv`:

- *While it runs.* Every step behind the program counter is done, in the sense that doing it again
  changes nothing (`Done`, for `RerunIsSilent`), and, if the file will not be mixed, right
  (`Wired`, for `WiredWhenDone`). Both survive later steps because chains grow (`Grows`), slots are
  `Apart` and the memory is only added to (`DoneStays`, `WiredStays`, `DoneBeside`, `WiredBeside`).
- *What a step finds.* A step that passes over something (a recorded contract, a claimed slot,
  a flag) relies on earlier runs, however those ended. `SteadyWired` says, for every file whose
  record can be gone on with, that a recorded contract that exists was built from the recorded
  ones (`Built`), what is claimed is claimed by them (`Claimed`), a recorded flag tells the truth
  (`FlagsTrue`), and a deposit was paid at most once, but for the runs that were cut (`Paid`).
- *After a reset.* Chains hand out the same addresses again. Recorded addresses are in script order
  (`Ordered`), so the script that runs again makes each contract either at a new address or at the very
  one that is recorded for it, and no contract at the address recorded for another (`NewApart`). This is
  why a file run in two modes, where the order is not that of one script, is `mixed` after a reset.
- *Forced runs.* They replace the record while it goes, so `SteadyWired` makes no claim meanwhile;
  `NewInOrder` keeps what is needed to have it back at the end (`RenewedSteady`), also for a file
  that was `mixed` before.
- *Files that are read.* The hub of ATOM claims addresses out of two other records. A contract of theirs made
  again makes the hub `mixed` unless its address is the same (`RecordKept`, `OthersStay`).

TLC checked `IInv` and `WInv` on the instance of `deploy` before they were proved. The proof attempt
itself showed what the model had to say of scripts: each of the conditions in
`WiringAssumption` was asked for by a step that could not be proved without it.

## 6. WASM submit daemon

`WasmDaemon` follows `wasm-submit-daemon.ts`: one queue, one request served at a time, its
nonce read, its extrinsic signed and submitted, and an answer when it is final, reports a
dispatch error, or the timer goes off. The timer cancels nothing: the extrinsic that was
given up may still be signed, submitted and applied while the next request is served, which
is why `ReadNonce` and `Submit` do not ask whether their request is being served. The
chain is the best chain, of which a prefix is final; blocks beyond it may be retracted and
the pool may drop an extrinsic.

Run `wasm_daemon`: `OkMeansFinal` (a request answered ok was applied on the final chain, for good)
and `EveryRequestAnswered`. Three requests of one transaction and two faults: a request
that is given up, one behind it that meets its extrinsic, and one that is refused. *Fairness*
is of `Invoke` and `Timeout` only, the event loop and its timer: nothing is assumed of the
node. *Deadlock* is not checked: a daemon with nothing to do waits.

`WasmDaemonProofs` proves `OkMeansFinal` for any requests, transactions and faults
(`OkIsFinal`), from `DaemonInv`: a final block stays (`Grows`), an answer is given only to
what is then in the final prefix (`Earned`), and both chain and daemon stay in their types.

Left out: `/health` and 404, a client that disconnects, a body that does not parse, the content of the
synthetic event, numeric arguments.

## 7. ATOM

### Model

- `AtomTypes`: invocations and the operations of a manifest, in order.
- `AtomService`: the service contract. An operation proof is the sequence of locks its hash
  commits to; a proof must extend the one stored. Votes, verdict, settlement with its
  bonds, withdrawals and two pools, extension, forced settlement.
- `AtomRemote`: one remote contract per operation: a lock takes units and remembers how many
  there were; unlock books; undo puts the remembered number back.
- `Atom`: users, judges that are not the relayer's, passers-by, and the relayer: the server
  (locks, proofs, completion, unlock or undo) and the judge (votes, finalization) behind one
  handler. `queued`, `refused` and `done` are the scheduler's actions: not yet sent,
  mined and reverted but still in flight, succeeded. Enqueue drops a call that is in flight
  or done. The relayer subscribes once per contract, so logs are handled in any order, each once.
- `MCAtom`: settings. `AtomProofs`: theorems.

When all proofs are in, the judge handler asks the service for the selected judges unless it has handled
the log that names them, which is of another contract and does not survive a restart. If the
query fails the event is dropped and nobody local votes (`judge.go:94-98`, `JudgesUnknown`, a fault).

The relayer's own judges always vote valid; others vote as they like. Nobody but the entry
initialises an invocation, with a manifest whose operations are the entry's total. The
relayer never extends or forces a settlement.

### Run `atom`

| Setting | Leaves room for |
|---|---|
| two local judges, both needed, five blocks, three extensions | deadlines that move and cross, a forced settlement after they did |
| one judge, three blocks, one fault | a lost receipt, send or judges' query |
| one judge, three blocks, one restart | the server's memory lost in the middle |
| a local judge and another, two or one of two needed, three blocks | votes that split, verdicts against the local judge |
| the same, one of two needed, two deposits or withdrawals | bonds withdrawn and pools emptied before settling |
| two invocations of one operation, one judge drawn of two | one fails while the other books |
| two invocations of two operations that compete for three units | a lock that finds too few |

| Property | Says |
|---|---|
| `IInv` | verdicts are earned; proofs rest on locks that happened; unlocks and bookings on invocations settled as valid |
| `Conserved` | the ether the service holds is what it owes; units are free, held or booked, each invocation's at most once |
| `Implements` | ATOM implements `AtomicCommit` |
| `MCOutcome` | a decided invocation is settled, one settled as valid is booked everywhere, one that fails gives back what it holds |

*Bounds.* A third extension is the first that can make the deadlines cross: each adds the present
length of its window, and the service deadline overtakes. The fifth block is the first in which such
an invocation can be settled by force. Two operations are the least that
make a chain of proofs, two invocations the least that overlap on a remote.

*What the properties except*, and what the code does there.

- `Conserved`: an undo restores the number found at locking, with whatever another invocation took
  since. Units add up only if no invocation fails or only one was started. A call whose
  receipt is lost is sent again, and two such losses can lock and book anew what was booked:
  `BookedOnce` holds with fewer than two.
- `MCOutcome`, first part: every vote asks for the same finalize call. One sent before the
  deciding vote reverts, its retries wait for the receipt of the same transaction, and while
  it is in flight the scheduler drops the call the deciding vote asks for; only a call of
  somebody else finalizes then. With three votes needed, the default, this is the normal
  order of events if calls are sent at once.
- `MCOutcome`, last part: a lock that is mined after the undo stays, and so does everything
  an invocation holds if the server was restarted: the key is in its memory only.
- All of it without lost calls, failed queries and restarts.

*Fairness.* The event loop and the workers are goroutines of a process that runs: weak
fairness of handling a log and of sending a call. Votes of others, extensions, forced settlements,
money and blocks have none. *Deadlock* is not checked: the protocol comes to rest.

### Proofs

`AtomProofs` proves `Invariant` (`Spec => []IInv`) and `Refinement` (`Spec => Implements`) for any
numbers of invocations, operations and judges, any terms, windows and thresholds, any faults
and restarts, and any order of the logs, from the named assumptions on the constants.

The parts of `IInv` need each other. A booking follows a committed invocation
(`UnlocksAreOfCommitted`) only because that holds of every unlock on its way, as a log, a
queued, refused or repeated call, and because no step changes a settled invocation
(`SettledForGood`); that a log says "finalized" only of an invocation that enough judges
found valid needs `VerdictsAreEarned`, which counts the votes and bounds each count by the
threshold while the invocation is open (`OneMoreVote`). `ProofsAreOfLocks` follows a chain of
locks from the log to the server's memory, the call and the contract; locks are never taken
back (`LocksGrow`). `DeadlineAfterStart` is what makes an extension add a natural number.
Every step is first shown to serve one invocation, or to lock, book or undo at one remote
(`ServiceSteps`, `RemoteSteps`), never both (`OneParty`); the refinement maps the first kind to
a decision or a stutter (`Decides`) and the second to an effect of a committed invocation.

Its second part proves `NothingIsLost` (`Spec => []Conserved`) by way of `BalancesInv`, which
TLC checked on the instance of `atom` first. Its parts:

- *Ether.* The service pays only what it moves between its accounts. `Settlement` is a fold over
  the judges; the proof gives it a table of the books after each set of judges and shows that every
  entry owes the same (`SettlementKeeps`). Credits and slashes are capped by what the pools and
  bonds hold (`AtMost`), which keeps every account a natural number.
- *Units.* Locks and unlocks move units between the three places. An undo puts back the
  number its lock found: harmless while one invocation was started, as nobody took
  units since (`PutsBackItsOwn`), and impossible while none failed (`UndoesAreOfFailed`, along
  log, queue and call). That is the condition `UnitsAddUp` carries.
- *Booked once.* `BookingsCounted` counts: every lock and unlock that happened left its call among
  those done, or the call was sent again and a fault is spent on it. Booking twice takes two locks and two
  unlocks, and so two faults. It needs that a call is in one of three places (`Apart`) and is made with the
  key of its invocation (`OwnKeys`).

## 8. What is only model-checked

Liveness: `CommitCompletes`, `AnsweredIsDecided`, `RollbackReleasesHeld`, `Settles`, `Delivered`,
`AnswersEmitted`, `EveryRequestAnswered` and `MCOutcome`. The proof system has no rules for fairness.
Every other property of a passing run is a theorem; the three findings are properties that TLC refutes.

## 9. Not modelled

GPACT, IntegrateX, XSmart's service registration, commit-reveal and stakes, the light client
and the translation registry, the bc3 (Fabric) contracts, the nonce manager, `CallTree` and
`VASSP` are in the plan. Of ATOM: read-write invocations (`ReadWriteInvocationRequested` has
no handler in the relayer), the administration of community, registry and settlement terms,
remotes that are not EVM contracts, and a restart that reads the log back. Benchmarks, probes and smoke
tests send the transactions of systems modelled here one after the other, measure and print.
The zk programs and the translator CLI are compilers and circuits, out of a model
checker's reach.

## 10. Mutants

For every property a mutant of one definition makes TLC violate it. The mutated forms are
written beside the definition and commented as such (`PushAnyway`, `GivesUpLate`,
`RememberOnly`, `NoTimer`, `CanVoteAgain`, ...); no specification uses them.
