# Verification of the crypto market module

TLA+ models, TLC runs and TLAPS proofs for the parts of this repository that
keep state between operations and are used by more than one process or callback:
the shared AI analysis queue and its workers, the collector's global lock, the
central automation of the data cycle, the backup and restore of the product's
data, the review publication and the interface that shows it, and the system
lifecycle of the follow-up basket.

## 1. The system

A *collector* (`src/tools/data-poc`) fetches public market data in cycles and
publishes immutable run directories; a *product server*
(`src/tools/ui-mock/server`) serves what the pointers of
`automation-state.json` name; an *AI worker* turns snapshots into analyses that
all users share; an *owner* starts, resumes, backs up and rolls back from a
console. Processes share files and SQLite databases and nothing else.

| Component | State | Operations | Interacts with |
|---|---|---|---|
| AI queue and cache, `aiResearchQueueStore.ts` | SQLite rows: job status, lease, attempts, result, validation; worker row; usage and rate-limit rows | enqueue, claimNext, renewLease, recordProvider*, deferClaim, complete, fail, suspend/resumeWorker | service (enqueues), worker (claims, settles), owner (resumes) |
| Circuit breaker, same file | one row: state, failures, open_until, half_open_in_flight | acquireCircuitPermit, recordCircuitSuccess, recordCircuitFailure | worker; the service reads it |
| AI worker, `aiResearchWorker.ts` | the claim it holds, its heartbeat timer, its permit | runCycle, processClaim | queue, breaker, provider, context builder |
| AI service, `aiResearchService.ts` | none (context of a request in flight) | generate, public projections | queue |
| Collector lock, `globalCollectorLock.ts` | lock file, its metadata, renamed files | acquire, recover, heartbeat, release | coordinator, rollback, scheduler tick |
| Central automation, `automation/*.ts` | `automation-state.json` | scheduler tick, coordinator run, manual cycle, resume | lock, runner, backup |
| Data-cycle operations, `dataCycleOperations.ts` | backup directory | backup, rollback | lock, state file |
| Product recovery, `productRecovery.ts` | owner lock, journal, staged and published files, maintenance state | backup, restore, rollback, recovery of an interrupted restore | every product file |
| Review publication, `productReviewPublication.ts` | pointer and status files; in memory the pending publication, its timers and attempts, the chain of status writes | publish, wait for the UI's commit, acknowledge, publish next, stop | UI, report status API |
| Interface, `ProductApp.tsx`, `productVersionPolling.ts` | the snapshot on the screen, the refresh under way, the last committed version | opening load, poll, Refresh View, acknowledgement | review publication, scanner API |
| Follow-up basket and system lifecycle, `followUpBasket.ts`, `systemLifecycle.ts` | follow-up store, promotion inbox, audit, lifecycle state, operation journal, lifecycle lock | recheck, membership sync, promotion into the basket and the universe, recovery of the journal | collector, universe, owner |
| Established promotion and universe, `establishedUniverseManager.ts` | universe file | add, enable, disable, remove, promote | lifecycle, owner |
| Reports, feedback, workspace, evidence, review sessions | one file or table each | create, read, change of one record | owner, UI |
| Collector pipeline, HTTP API, drills and soak harnesses | none that outlives a request or a run | - | - |

### What is hard

- **Leases.** A worker that stalls beyond its lease loses the row and does not
  know: every statement after it must check the owner.
- **Two transactions where one is expected.** `fail()` reads and then updates;
  the recording statements update and then read back; a fault or a takeover may
  come between.
- **The breaker outlives the call it was asked for.** Only a reported outcome
  moves it; a process that dies or fails in another way reports nothing.
- **Rename by path.** Recovery and release of the collector lock move whatever
  file stands at the path and look at it afterwards; what they cannot read they
  leave at the private path.
- **A heartbeat nobody awaits** at the end of a run.
- **A state file rewritten whole by writers that do not hold the lock** (the
  scheduler's observation, the owner's resume).
- **Crashes** at every one of these points, with stale locks and expired leases
  as the only recovery.
- **Lock files that nothing reclaims.** The owner lock of a backup or restore,
  the lifecycle lock and the locks of the single stores stay behind a crash or
  a failing write for ever.
- **Many files, one operation.** A restore replaces group after group, a
  promotion writes three stores: between two of them the product is a mixture,
  and a journal is all that the next process knows.
- **A check before the lock.** Maintenance is looked at before the owner lock
  is taken; what was checked may have changed.
- **Callbacks of one process.** Timers, acknowledgements and continuations of
  the review publication overtake each other at every await; the interface
  shares a refresh under way with callers that want a newer one.

`PROJECT.json` lists each hazard at its line with the properties aimed at it.

### What makes each component correct

- queue: one current analysis per token, a row that is shown has its validated
  result stored, a row is held exactly while it is processed, calls and attempts are counted and
  bounded, the last-known-good survives, every job settles;
- breaker: half-open exactly while its probe is out, one probe at a time, and
  the half-open state resolves;
- lock: two runs hold it together only where one of them was displaced by
  another, which the protocol does not exclude; who finds a stale lock recovers
  it, a late heartbeat stays behind the release of its run, no run waits for
  ever;
- automation: failures trip the suspension, an up-to-date process lifts none but
  the owner's, nothing starts while suspended, pointers go forward, due work is
  done;
- recovery: one operation at a time, a success means the whole bundle is in
  place, and a product of mixed origin, or with a pointer to a missing snapshot,
  is never open to the next operation;
- review: one publication open at a time, the recurrence never falls asleep, a
  pending publication is acknowledged, a view checked against a version shows
  that version;
- lifecycle: the inbox never runs ahead of the store it names, the audit tells
  what the system has added, once and in the end, and an entry that matures
  ends.

## 2. The modules

    CircuitBreaker   AnalysisQueue          CollectorLock     CentralAutomation
           \           /                      |                    |
           AnalysisWorker             CollectorLock_proofs  CentralAutomation_proofs
            /     |    \                      |                    |
           /      |     \                  INSTANCE             INSTANCE
          /       |   INSTANCE                 \                  /
         /        |  SharedAnalysis                GlobalLock
    MCAnalysisWorker  AnalysisWorker_proofs

        ProductRecovery              ReviewPublication      FollowUpBasket
         /          \                        |                    |
    MCProduct-   ProductRecovery_      ProductRefresh       SystemLifecycle
    Recovery     proofs                      |                    |
                                      ProductRefresh_proofs  SystemLifecycle_proofs

**AnalysisQueue** has one operator per transaction of the store on the job
table. A cache key is a pair of a token and a snapshot fingerprint; a column is
a function on the keys; a missing row has the status `ABSENT`. `ClaimNext`
takes the first claimable row in the order of the statement's `ORDER BY`, which
`ahead` keeps as a relation instead of timestamps. `Owned` is the
`status = 'PROCESSING' AND lease_owner = ?` of the updates. Time appears as the
results of its comparisons: `lease_expired`, `retry_due`.

**CircuitBreaker** has the breaker's row and its transactions. The failure
count is saturated at the threshold it is compared with.

**AnalysisWorker** composes both with the actors. `BuildContext` and `Submit`
are the two halves of `generate`; a consumer is one claim loop of one worker
process; the actions from `BeginCycle` to `NextClaim` are its statements in the
order of `runCycle` and `processClaim`, the catch block included, so that other
actors interleave between any two awaits. `Throws` is a statement that fails,
with or without its effect. `Heartbeat`, `Crash`, `PublishSnapshot`,
`OwnerResumes`, `OwnerForces` and the clock are the environment. The provider's
answer, the validators' verdict and the budget's verdict are choices.

| Code | Actions |
|---|---|
| `runCycle` loop, budget checks | `BeginCycle`, `EndCycle`, `Claim`, `BudgetDefers`, `NextClaim` |
| identity and permit | `IdentityHolds`, `ContextFails`, `TakePermit`, `PermitFails`, `PermitDenied` |
| provider call | `StartCall`, `ProviderAnswers`, `ProviderFails`, `Validate` |
| publication | `PublishResult`, `RecordSuccess` |
| catch block | `RecordAttemptFailed`, `TripBreaker`, `SettleFailure`, `Suspend` |

**SharedAnalysis** is the abstract specification: a job has at most one
claimant, a newer claim ends the right of an older one, only the claimant
publishes and goes on as having published (`credited`: it reports a success to
the breaker), and publishing supersedes the token's current analysis in the
same step. `AnalysisWorker` maps the claimant to the consumer that processes a
row, still owns it and has not published it, a row's status to what is shown,
and the place after the publication to the credit.

**CollectorLock** has one action per file-system call. Files are named by the
run that created them; reads, renames and opens go by path (`lock`), writes by
handle. `aside` is the private path of a rename. `alive` is what
`process.kill(pid, 0)` sees. A moved file that cannot be read, because its run
has not yet written it or a heartbeat has truncated it, stays at the private
path, and its run has lost it. The history variable `displaced`, which no guard
reads, names the runs whose file another one has moved away, removed or
replaced.

**GlobalLock** is the abstract lock: nobody comes to hold it while another one
does. `CollectorLock_proofs` shows that the protocol of the lock file implements
it, a run leaving the abstract lock at the step that displaces it, and
`CentralAutomation_proofs` that the runs and rollbacks use a lock that does no
more.

**CentralAutomation** has the fields of `automation-state.json` that its
properties tell apart, the tick (read, inspect the lock, decide and write the
observation), the manual cycle, the coordinator's run under the lock, the
owner's resume and the rollback. Ticks, manual cycles and the owner overlap as
they like. The lock is mutual exclusion here; its protocol is the other module's
subject. Two history variables, which no guard reads, tell the overlaps apart:
`behind` has the processes whose reading the file has left behind since, and
`overwritten` says that one of them has written its reading back.

**ProductRecovery** has the product's files as a function from paths to the
origin of their content: `Kept` for what the product had, an owner's call for
what that call restored. A path is a store, the automation state, or the
snapshot of a run; a bundle names a run of its own or, for the calls in `Same`,
the run that is shown already, whose snapshot the restore renames away before it
places its own. `createProductBackup`, `restoreProductBackup` and
`recoverInterruptedRestore` are broken at every write another process or a crash
could come before, and calls come in any order.

| Code | Actions |
|---|---|
| call, maintenance check, `openOwnerLock` | `BeginCall`, `BeginRecovery`, `AskMaintenance`, `OpenLock` |
| inventory, copy of a store, bundle rename | `TakeInventory`, `CopyStore`, `PublishBundle` |
| safety bundle, hash of the product before | the same, with the call's kind, then `HashBefore` |
| journal, groups moved aside and replaced | `OpenJournal`, `SetAside`, `PlaceStaged`, `WriteJournal` |
| verification, end | `Verify`, `Close`, `Release` |
| catch block and recovery | `TakeDown`, `PutBack`, `Refill`, `RolledBack` |
| a step that throws | `StepFails`, of `LockFails` and `CallFails` |
| environment | `Crash`, `ClearLock` (a lock that was left is deleted by hand), `Edit` (the running product writes) |

Hashing all stores is one step. The Markdown report, the evidence moved to
`.failed` and a refill torn in the middle of one file are left out; a backup that
fails leaves no READY bundle. `Edit` changes a file and keeps its origin, so that
a backup torn by the product's own writes is not told from a whole one. Three
consequences of the code are in the model: a step that fails between the safety
bundle and the hash opens the maintenance with nothing touched, an unfinished
journal of its own blocks no later call, and a lock whose write failed after
its creation belongs to no call (`Left`) and stays. The history variable
`unguarded`, which no guard reads, says that a lock was deleted by hand or that
the maintenance state could not be written.

**ReviewPublication** is the coordinator: pointer, status file, marker, attempts,
the scheduled action (wait, retry or next), and `chain`, the continuations that
queue behind the status writes. The coordinator lives in one process, so its
actions are what runs between two awaits. **ProductRefresh** extends it with the
interface: a load asks for the snapshot and is checked against the version it
was called for; a caller that finds a load under way shares it, whatever version
it has seen itself; the poller commits its version if the shared load succeeds;
a committed revision is acknowledged.

| Code | Actions |
|---|---|
| `publishNext`, its timers | `PublishRequested`, `TimerFires`, `PublishFromTimer` |
| `prepareValidateAndPublish` | `LoadBase`, `Validate`, `PersistSnapshot`, `PersistPointer`, `VerifyPointer`, `PersistMarker`; each may throw |
| its continuation | `Published`, `Retries`, `GivenUp` |
| `waitForUiCommit`, `acknowledgeUiCommit` | `WaitForUiCommit`, `WaitAgain`, `Acknowledge` (of the answer's arrival), `Acknowledged` |
| `loadData`, first load, Refresh View | `OpeningLoads`, `RefreshView`, `ReadScanner`, `RefreshEnds` |
| the poller | `CheckNow`, `VersionArrives`, `RetryDelayElapses` |
| the acknowledgement | `FetchStatus`, `SendAcknowledgement`, `AcknowledgementArrives`, `AcknowledgementLost` |

**FollowUpBasket** has one entry's life as operators: which checkpoint is next,
the status the resolver gives, what the membership sync makes of it.
**SystemLifecycle** composes entries, inbox, universe and audit with a cycle of
the collector: it reads the universe when the cycle begins, rechecks, syncs,
takes the lifecycle lock, recovers the journal, plans, and writes target store,
journal, follow-up store, inbox and audit one after the other. The owner
promotes, disables, enables and removes beside it; a crash may come between any
two writes. Every store is written under a lock file of its own, and `left` has
those that a dead process, a failing write after the exclusive create or a
failing removal has left: each later write of that store throws, and no action
takes a lock file away.

| Code | Actions |
|---|---|
| the collector before the lifecycle | `BeginCycle`, `Recheck` |
| lock, `recoverIncompleteLifecycleOperations` | `TakeLock`, `RecoverNext`, `RecoveryEnds` |
| reading, inbox, plan of the promotions | `ReadStores`, `SortInbox`, `PlanFollowUp`, `FollowUpEnds`, `PlanMain`, `EndCycle` |
| one operation: target, basket, inbox, audit, and the journal between them | `ApplyFollowUp`, `ApplyMain`, `SyncFollowUp`, `SetInbox`, `AppendAudit`, `AdvanceJournal` |
| the owner | `OwnerIngests`, `OwnerVerifies`, `OwnerAdds`, `OwnerSyncs`, `OwnerDemotes`, `OwnerEnables`, `OwnerBootstraps` |
| a write that throws, or finds a lock that was left | `Fail`, `FindsLocked`, `OwnerLeavesLock` |
| environment | `Crash`, `Elapse` |

A checkpoint that comes during a cycle counts as come before its recheck. The
console's `add --enabled false` and `update` are left out.

## 3. The runs

| Run | Configuration | Shows |
|---|---|---|
| `ai_safety` | 2 consumers, 1 token, 2 snapshots, 1 lease lost alive | the safety and action properties, and `ImplementsShared` |
| `ai_live` | 1 consumer, 1 snapshot; 2 crashes, 2 leases lost, 2 failing statements, 2 forced re-analyses in every combination | `AttemptsBounded`, `JobsSettle` |
| `ai_halfopen` | finding | the half-open state need not resolve |
| `lock_pair` | 2 runs and a dead one's lock; 1 crash, 1 stall, 1 failing write | exclusion among the undisplaced, late heartbeats, termination, recovery, and that the protocol implements `GlobalLock` |
| `lock_race` | finding: 3 runs and a dead one's lock, no crash, stall or fault | two runs hold the lock |
| `automation_scheduled` | 1 scheduler, 1 manual cycle beside it, owner; 1 crash, 1 failing file operation, 1 rollback | suspension, failure count, shown runs, pointers, due runs |
| `automation_overlap` | finding: 1 scheduler, 1 manual cycle, no crash or fault | a suspension is lifted without the owner |
| `recovery` | 3 calls in any order, 3 groups, 1 crash or failing step, 1 write of the product, locks deleted by hand | one operation, whole success, a mixture closes the product |
| `review` | 2 revisions, 2 attempts, 2 failures, 1 of them a read | one open publication, no idling, checked views, acknowledgement |
| `view_shared` | finding: 1 revision, no failure | a version is committed that is not on the screen |
| `lifecycle` | 2 tokens (one with a disabled row), 2 promotions, 1 act of the owner, 2 failures or crashes | inbox, audit, and that what was added gets told |
| `followup_stranded` | finding: 1 token, 2 checkpoints, 3 acts of the owner | an entry that matures for ever |

`lifecycle` has 2.9 million states, `recovery` 1.7 million, with the calls that
restore a run of their own interchangeable (`MCProductRecovery`), and `review`,
`ai_live` and `automation_scheduled` about 0.8 million each; the others are
smaller.

### Bounds

- *One token, two snapshots.* Rows of different tokens interact through the
  claim order, the worker's suspension, the breaker and the backlog only; two
  fingerprints of one token also interact through `complete()`, and that is
  where two current analyses could appear. Claim order is exercised by two rows.
- *Two consumers, one lease lost.* A takeover needs two; a third consumer could
  only take over from the second. The proofs cover any number.
- *`MaxAttempts` 2, `FailureThreshold` 1.* One retry and one exhaustion; the
  breaker opens at the first reported failure, so that half-open is reached
  within one job. The proofs hold for every value.
- *Crashes, faults and forced runs:* `ai_live` has two of each, so that each meets
  what another or an earlier one of its kind has left; it has one job, and
  `ai_safety` the two that `complete()` relates. Each bound is a constant and a
  conjunct of the guard.
- *Two live runs* in `lock_pair`, each of which can be displaced by the other, by
  its recovery or its release; three in `lock_race`. The proofs cover any number. `Attempts` is
  the code's own number, 8.
- *`MaxRuns` 2, `MaxManuals` 1, limit 3 failures.* Publications and manual cycles
  are bounded, failing scheduled runs are not: the count is saturated at the
  limit. One manual cycle is enough to change the file between a tick's read and
  its write.
- *Three groups:* the bundle's snapshot, which goes first, a store (a SQLite
  database, which `VACUUM INTO` changes), and the automation state with the
  pointer, which goes last. More stores are copied and replaced in the same
  way, and the proofs hold for any number. Three calls reach a recovery of a
  crashed restore and one that is stacked upon it; of one call the bundle names
  the run that is shown already (`Same`). One of the calls may crash or fail at
  any step. A restore that fails and whose undo fails too takes two failures:
  the proofs cover it, as they cover any number of crashes.
- *Two revisions, two attempts:* a publication and its successor, one retry and
  one exhaustion, of the publication and of the wait for the acknowledgement.
- *Two tokens in the lifecycle:* the second one's row is disabled at the start,
  which makes a promotion throw while the first one's is open. Two failures
  reach a crash in the recovery of a crashed cycle, and one whose store lock stays
  behind. One checkpoint is enough for
  a promotion; `followup_stranded` needs the second.

### Fairness

`AnalysisWorker!Fairness`: a claim loop that can take a step takes one (the
polling process of `runAIResearchWorker.ts`, a provider call bounded by its
timeout) and time passes (leases of dead claimants, retry times, the open
period). Nothing is assumed of requests, the collector or the owner, which is
why `JobsSettle` ends in "or the worker is suspended", and "or the breaker is
wedged", the finding of `ai_halfopen`.

`CollectorLock!FairSpec`: a live process goes on, and a dead one's deadline
passes. No heartbeat is assumed to fire in time.

`CentralAutomation!FairSpec`: the task scheduler wakes the tick, a run that has
begun goes on, the lock of a dead process expires. The owner is not assumed to
begin anything, and begins at most `MaxManuals` manual cycles: one after another
they could keep the lock from every tick.

`ProductRefresh!FairSpec`: timers fire and writes and answers arrive; Refresh
View is never assumed.

`SystemLifecycle!CycleSpec`: cycles come again and go on; `FairSpec` adds that
checkpoints come. Neither failures nor the owner's acts are assumed, and both
are bounded. Nobody is assumed to delete a lock file, neither here nor in
`ProductRecovery`, which states no liveness: after a crash its lock is there for
good, and no operation is ever let in again.

Deadlock is checked for the workers, the automation and the lifecycle. The
lock's runs take the lock once and end, a product's operations are over when
the owner makes no more calls, and a page may have nothing left to do: those
configurations switch it off.

### What the write-back of an older reading does

The lock covers the coordinator and not the tick's read and write, nor the
owner's resume. So a tick can write a reading over a manual cycle's suspension
(`automation_overlap`), failure count, pointers and shown run. The properties of
`automation_scheduled` name that one step and exclude nothing else: who has read
the file as it is never lifts a suspension (`SuspensionSticks`) or moves a pointer
back (`PointersForward`), nobody starts a run over a suspension that is there
(`NoRunWhileSuspended`), the count misses no failure since the last overwriting
(`FailuresTrip`), and a run that is shown goes on until one (`ShownRunIsReal`).

### What closes the product

`FailClosed` is about the moment at which the next operation is let in: no lock,
no maintenance. The journal is read, and the maintenance looked at, before the
lock is taken, so that a recovery may work by what the journal of a restore said
earlier, and a restore may be stacked upon an interrupted one. Whatever they do
to the data, the hashes an operation took before decide whether its rollback
counts, and otherwise the maintenance closes the product; a crash leaves the
lock, which does. Two exceptions are in `unguarded`: a lock that somebody has
deleted by hand, and a maintenance state that could not be written, after which
the code gives the lock back.

## 4. What is proved

`AnalysisWorker_proofs` proves, for every set of tokens, snapshots, workers,
consumers and requests and every value of the limits and bounds:

| Theorem | States |
|---|---|
| `Invariance` | the inductive invariant `Inv` |
| `TypeCorrect`, `OneReady`, `LeaseOwnership`, `PublishedValid`, `BreakerSound` | the invariants of `ai_safety`; `PublishedValid` says that the columns of `complete()` go together |
| `AttemptBound` | attempts exceed the limit only by takeovers and forced runs |
| `CallsAreCounted` | provider calls never exceed counted attempts |
| `WedgeIsPermanent` | a breaker half-open with no call out never leaves it |
| `LastGoodStays` | `LastKnownGoodKept`: a token that has a shown result keeps one |
| `Refinement` | `Spec` implements `SharedAnalysis` |

*The argument.* `Inv` adds to the properties what makes them inductive: a
published row has its validated result; a row has an owner exactly in
`PROCESSING`; a consumer has a job exactly in the places where `processClaim`
runs; half-open means in flight, and a breaker that is not closed has reached
its threshold. Each statement of the store preserves the queue's part alone
(one lemma over `QueueNext`), each of the breaker its own, so that a worker's
action is a pair of the two and a change of place.

`OneReadyPerToken` needs no mutual exclusion: `complete()` supersedes in the
transaction that publishes. `AttemptBound` carries the stronger "a claimable row is
below the limit, plus one per expiry and forced run so far".
`WedgeIsPermanent` needs that whoever is about to report to the breaker holds a
permit. `CallsAreCounted` counts: calls and the loops that have claimed a row and not
called yet are together at most its attempts (`CallInv`). A claim adds one to
both sides, a deferral takes one from both, and who owns the row by then does
not matter.
`LastGoodStays` needs that a row with a result is a published one (`ResultInv`):
only `complete()` writes a result, and only a forced re-analysis takes a
published row back to the queue.

`CentralAutomation_proofs` proves, for every set of scheduler tasks and manual
cycles and every value of the limits and bounds:

| Theorem | States |
|---|---|
| `TypeCorrect`, `SuspendedRunsNothing`, `FailuresSuspend`, `ShownRuns` | the invariants `TypeOK`, `NoRunWhileSuspended`, `FailuresTrip`, `ShownRunIsReal` of `automation_scheduled` |
| `RunsExclude` | one run at a time between lock and release, and no rollback beside it |
| `AutomationLocks` | its runs and rollbacks implement `GlobalLock` |
| `SuspensionHolds`, `PointersAdvance` | its action properties `SuspensionSticks`, `PointersForward` |

*The argument.* Every write of the file writes back an earlier reading, and
`behind` says whose reading is not the file any more. `ReadInv` and `RunInv`: the
reading of whoever is not behind is the file, or was the file until its own run
began. From that each property follows for a process that is not behind, by
what it does with its reading: `CycleInv`, a run's reading is not suspended,
because it was taken under the lock of a file that was not; `CountInv`, the file
counts at least the failures of the streak, and suspends at the limit;
`PointerInv`, no reading and no backup names a publication that was not made;
`ShownInv`, until a crash, a failing write or an overwriting the run that is
shown goes on, and no backup shows one. `RunsExclude` and `AutomationLocks` rest
on `BaseInv`, who holds the lock at which place. No theorem assumes anything of
the schedule.

`CollectorLock_proofs` proves, for every set of runs, live and dead, and every
number of crashes, stalls and failing writes:

| Theorem | States |
|---|---|
| `TypeCorrect` | the invariant `TypeOK` of `lock_pair` |
| `MutualExclusion` | `ExclusionKept`: of two runs that hold the lock one has been displaced |
| `HeartbeatsAtHome` | `LateHeartbeats`: a heartbeat has another run's file open only behind the release of its own run, or once that was displaced |
| `LockImplements` | `ImplementsLock`: the protocol implements `GlobalLock` |

*The argument.* `OwnerInv`: from the creation to the release of its file, the
file of an owner that nobody has displaced is at the path; a path has one file,
so that two such owners are one. What has to be shown is that no other step
takes that file away unseen. `JudgedInv`: who recovers has judged a run that
does not live (`DeadInv`: none comes back), so that a living owner's file that it
moves is another one than it judged, and its owner is displaced at that step.
`BeatInv` keeps the heartbeats to runs that have held the lock, and
`LateHeartbeats` is inductive with it: the check reads the file at the path as
the run's own, and only a displacement or the run's release changes that before
the open. An abstract holder enters by a create that finds no file, at which
nobody else can be an undisplaced owner.

`ProductRecovery_proofs` proves, for every set of calls in any order, number of
groups and value of the bounds:

| Theorem | States |
|---|---|
| `TypeCorrect`, `OneAtATime` | the invariants `TypeOK`, `OneOperation` of `recovery` |
| `ClosesOnMixture` | `FailClosed`: a product of mixed origin, or with a pointer to a missing snapshot, is not open to the next call |
| `SuccessIsWhole` | `SucceedsWhole`: a restore that succeeds has put the whole bundle in place |

*The argument.* `OneOperation` follows from the lock (`LockInv`): whoever works
holds it, and it is not deleted while its process lives. `SucceedsWhole` needs
how far a restore has come: `CountInv` relates the place of a call to the group
it is to publish next, and `PublishInv` says that every group before that number
has the bundle's origin. No other call changes them meanwhile, because the lock
is held, and a write of the product changes a file but not its origin.
`FailClosed` is not inductive: it says nothing while the lock is held.
`ClosedInv` adds that, until the maintenance or an unguarded step, the data is
whole also while the one that holds the lock has not begun to publish or has
only the lock left to give back, and that all hashes an operation took
were of whole data. An operation gets to give its lock back outside the
maintenance in three ways: it touched nothing; it verified its bundle, which is
one origin; or its rollback compared with hashes of whole data. A stale journal
or a restore stacked upon another changes what is put back, and not what it is
compared with.

`ProductRefresh_proofs` proves, for every number of revisions, attempts and
failures:

| Theorem | States |
|---|---|
| `TypeCorrect` | the invariant `TypeOK` of `review` |
| `OneOpen` | the invariant `OnePublication` |
| `NeverAsleep` | `NeverIdle`: a recurring publication has something scheduled or under way, until a wait is given up |
| `CheckedViews` | the action property `CheckedViewPublished` |

*The argument.* `ChainInv`: the chain of status writes has at most one
continuation of the publication, and has it exactly while the publication waits
for a status. `CommitInv`: what is pending is what is served and what the status
names. `ServedInv`: the revision served has its marker on disk, and a pointer that
is ahead of its marker is hidden by the base version held in memory. `ReadInv`
carries that to the versions that callers have been told: each is the base, has a
marker, or is no version. `NeverIdle` needs to tell the wait of the pending
publication from what is left of an old one in the chain. `WaitInv`: the
pending one has one wait under way, by timer or in the chain, until as many have
passed as there may be. `OldWaitsInv`: what an acknowledgement has left behind is
gone before the next publication comes to its first status. `AwakeInv`: between
publications, what is left does not count as being awake. `WorkInv` bounds
revision and attempt.

`SystemLifecycle_proofs` proves, for every set of tokens and every bound:

| Theorem | States |
|---|---|
| `TypeCorrect` | the invariant `TypeOK` of `lifecycle` |
| `InboxNeverAhead` | the invariant `InboxFollows` |
| `AuditTells` | `AuditMatches`: what the system has added is told once, or an operation is open for it |
| `ReadingsHold` | what a cycle has read of the stores stays true until it ends, unless the owner has demoted the row |

*The argument.* The inbox follows a store either by the sorting, which goes by
what the cycle has read, or by an operation in hand. `ReadInv` says of a
reading, and `HandInv` of the operation in hand at each stage, that the store
still has the entry; entries leave the basket never, rows only by the owner, who
is recorded in `demoted`.

`AuditTells` needs the history of an operation. What is told as applied has
reached its store (`AppliedInv`), and what the system has added is told, or an
open operation is still to tell it (`WitnessInv`). A promotion has at most one
operation that is open or told (`UniqueInv`): a cycle plans only when it has
recovered what was open, or has lost its row to the owner (`RecoverInv`), and it
knows of every promotion that was told (`KnownInv`).

*Assumptions.* `QueueAssumption`, `FailureThresholdAssumption`,
`WorkerAssumption`, `LockAssumption`, `AutomationAssumption`,
`RecoveryAssumption`, `PublicationAssumption`, `RefreshAssumption`,
`CheckpointsAssumption` and `LifecycleAssumption` type the constants. Two more
are hypotheses of single theorems, and each is needed:

- `OneIdPerLoop` (`Refinement`): no two claim loops share a `worker_id`, which the
  default `maxConcurrency` of 1 gives. With a shared one a loop whose lease was
  taken over publishes in its successor's name.
- `MaxForces = 0` (`LastGoodStays`, `Refinement`): a forced re-analysis withdraws
  what was published; no caller in the repository forces one.

The theorems about the lock, the automation, the recovery, the review and the
lifecycle have no other hypothesis.

*Model-checked only.* Every invariant and action property of the passing runs is
stated by a theorem. What stays with TLC is liveness, since fairness and
`ENABLED` are beyond the prover: `JobsSettle`, `RunsEnd`,
`RecoveryLeadsToHolder`, `DueRuns`, `PendingResolves` and `AdditionsGetTold`; and
the five counterexamples of section 5.

## 5. What else the models show

Five runs are findings: `ai_halfopen`, `lock_race`, `automation_overlap`,
`view_shared` and `followup_stranded`. The following behaviours are in the models
too; each is a disagreement with a document, or a consequence its reader may not
expect. The properties of the passing runs are stated so that they hold beside
them.

*AI worker.* A job that exhausts its attempts does not suspend the worker
(`aiResearchWorker.ts:397`; `docs/ai_shared_queue_cache.md:116` says it does). A
snapshot published during the provider call does not stop the result of the
older fingerprint (`:211`; the same document, line 79).

*Collector lock.* `lock_race`: with three live runs and a dead one's lock, a slow
recoverer moves the lock of the faster one away, a third run creates its own,
and the restore puts the first one's back over it
(`globalCollectorLock.ts:169`; `docs/vps_deployment_automation.md:99-100`). A moved
file that cannot be read is not put back: its run goes on without a file, and
the next run gets the lock beside it (`:176-188`). A
heartbeat in flight writes the old run's record into the next holder's file (`:205`).

*Automation.* `automation_overlap`: a tick that has read before a manual cycle
suspends the automation writes the older reading over it
(`runCentralAutomation.ts:78`; `docs/resilience_failure_drills.md:64`). The manual
cycle's failure count, pointers and the end of its run are lost in the same way,
and so is an owner's resume between a tick's read and its write
(`tools/data-poc/README.md:125`).

*Product recovery.* A crash leaves the owner lock, and so does a write that fails
after its creation (`productRecovery.ts:1262-1277`). No code removes it and no
document asks the owner to, so that the recovery from `operation.json` that
`docs/backup_restore_rollback.md:101` promises is refused for good. Deleting it by hand
opens a product that a crash has left a mixture. The maintenance state is looked
at before the lock is taken: a call that looked in time works on although the
maintenance, opened meanwhile, "blocks the next backup/restore" (`:103`). A
maintenance state that cannot be written is not noticed when the lock is given
back. A step that fails between the safety bundle and the hashes opens the
maintenance over data that nothing has touched. After a lock is deleted
by hand, a restore that is stacked upon an interrupted one takes the mixture it
finds for the original.

*Review.* When the verification of a moved pointer fails, the pointer stays at
the revision that was not published; when the marker cannot be written, it goes
to the base and not to the previous revision (`docs/central_data_cycle.md:33`). A
first load without a version leaves the poller without one to compare with: it
never refreshes (`productVersionPolling.ts:114`). A load that is not checked
against a version may show a snapshot whose publication then fails. The status
may read WAITING for a publication that is PUBLISHED.

*Lifecycle.* A crash leaves `.system-lifecycle.lock` (`systemLifecycle.ts:995-1004`)
and the lock of the store it was writing (`followUpBasket.ts:967-982`,
`establishedUniverseManager.ts:450-465`), and so does a write of these locks that
fails after their creation. Nothing takes them away: every later cycle goes on
without the lifecycle, or ends at that store, and says only DEGRADED. An
operation planned and not applied when its cycle ended is closed as committed
(`:806`; `docs/system_lifecycle_policy_v1.md:55-56` says that only what the target store has
is committed);
its entry is a candidate, which is never rechecked, and only a rechecked entry is
promoted, so the promotion is lost. A row that the owner has disabled
makes `add` throw, in this and in every later cycle, before the promotions that
follow it in order. An operation whose target the owner has removed stays open
for ever. A promotion recovered after a crash between
the universe and the journal is audited as applied, and if the owner disabled
the row meanwhile, not at all. The synchronization goes by the universe as it
was when the cycle began. A provider's failure moves the entry's next check to
the next checkpoint although the promotion wants all of them completed.

## 6. Not modelled

The budget's and rate limits' arithmetic (their verdicts are choices; the
pre-claim and post-claim checks of several processes may together exceed the
daily number, because a failed attempt is not counted), corrupt rows,
diagnostics, the projections of the API, prompt and schema code, the collector's
pipeline, what the interface renders, and the harnesses: sequential or
read-only code whose hazards are its formulas.

The rollback of a data cycle is one step here. In the code it goes file by file
and compares each hash when it comes to the file, so that a backup torn in a
later file is found after the earlier ones are restored
(`dataCycleOperations.ts:127`; `docs/central_data_cycle.md:57` says that all hashes
are checked first).

The dry-run verification of a product backup, the restart of a server between
publications (it begins with a fresh review root), `stop()` of the publication
(only tests call it), the signed preview of an owner's promotion, the
observation of an entry that is already in the basket, and the stores of
feedback, workspace, evidence and review sessions (one record, one statement) are
left out. The report publisher and its library, a staged directory and a
rename, would be the next module.

## 7. Plan

1. `DataCycle`: backup and rollback file by file beside the product's writers.
2. `AnalysisLimits`: the rate-limit windows and the daily budget shared by
   processes.
3. `ReportPublisher`: staged directory, rename, library.
