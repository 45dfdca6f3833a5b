---------------------------- MODULE AnalysisWorker ----------------------------
(***************************************************************************)
(* The AI analysis path: the public service that enqueues (generate of     *)
(* aiResearchService.ts), the collector that publishes new snapshots under *)
(* it, the consumers of the central worker (runCycle and processClaim of   *)
(* aiResearchWorker.ts), and the owner.  A consumer's step is one store    *)
(* transaction or one await, so other processes interleave between any two.*)
(*                                                                         *)
(* Left to a choice: whether the budget blocks a claim, what the provider  *)
(* answers, whether validation accepts it, whether a rate limit refuses a  *)
(* request.  Bounds: MaxExpiries leases that run out on a live claimant,   *)
(* MaxCrashes crashes of a worker, MaxFaults statements that throw         *)
(* STORE_UNAVAILABLE, MaxForces forced re-analyses.                        *)
(***************************************************************************)
EXTENDS AnalysisQueue, CircuitBreaker, FiniteSets

CONSTANTS Consumer,     \* the claim loops, maxConcurrency of them per process
          WorkerOf,     \* the worker_id each of them claims with
          Client,       \* requests in flight in the API process
          NoKey,
          QueueDepth,
          MaxExpiries, MaxCrashes, MaxFaults, MaxForces,
          BudgetMayBlock    \* the budget windows may block a claim

ASSUME WorkerAssumption ==
    /\ WorkerOf \in [Consumer -> WorkerId]
    /\ NoKey \notin Key
    /\ {QueueDepth, MaxExpiries, MaxCrashes, MaxFaults, MaxForces} \subseteq Nat
    /\ BudgetMayBlock \in BOOLEAN

VARIABLES
    pc, job,        \* a consumer's place in processClaim and the row it holds
    failure,        \* classifyFailure(...).transient of the failure it settles
    permit,         \* the kind of circuit permit its call runs under
    api,            \* the identity a request in flight has computed
    snapshot,       \* the fingerprint of each token's published data
    expiries, crashes, faults, forces

workerVars == <<pc, job, failure, permit>>
countVars == <<expiries, crashes, faults, forces>>
envVars == <<api, snapshot, countVars>>
otherEnv == <<api, snapshot, expiries, crashes, forces>>
vars == <<queueVars, breaker, workerVars, envVars>>

Places == {"idle", "polling", "claimed", "checked", "permitted", "calling", "responded",
           "validated", "published", "call_failed", "tripping", "settling", "suspending", "done"}

(* The places at which processClaim is running, so its heartbeat is armed. *)
Processing == Places \ {"idle", "polling", "done"}

WorkerTypeOK ==
    /\ pc \in [Consumer -> Places]
    /\ job \in [Consumer -> Key \cup {NoKey}]
    /\ failure \in [Consumer -> {"none", "transient", "permanent"}]
    /\ permit \in [Consumer -> {"none", "normal", "probe"}]
    /\ api \in [Client -> Key \cup {NoKey}]
    /\ snapshot \in [Token -> Snapshot]
    /\ {expiries, crashes, faults, forces} \subseteq Nat
    /\ \A c \in Consumer : pc[c] \in Processing <=> job[c] # NoKey

TypeOK == QueueTypeOK /\ BreakerTypeOK /\ WorkerTypeOK

Init ==
    /\ QueueInit
    /\ BreakerInit
    /\ pc = [c \in Consumer |-> "idle"]
    /\ job = [c \in Consumer |-> NoKey]
    /\ failure = [c \in Consumer |-> "none"]
    /\ permit = [c \in Consumer |-> "none"]
    /\ api = [u \in Client |-> NoKey]
    /\ snapshot \in [Token -> Snapshot]
    /\ expiries = 0 /\ crashes = 0 /\ faults = 0 /\ forces = 0

-----------------------------------------------------------------------------
(* The service and the collector.                                          *)

(* contextAndIdentity: the request reads the published data (an await) ... *)
BuildContext(u, t) ==
    /\ api[u] = NoKey
    /\ api' = [api EXCEPT ![u] = <<t, snapshot[t]>>]
    /\ UNCHANGED <<queueVars, breaker, workerVars, snapshot, countVars>>

Backlog == Cardinality({k \in Key : status[k] \in {"QUEUED", "PROCESSING"}})

(* ... then generate enqueues it unless one of its guards answers first.   *)
Submit(u) ==
    LET k == api[u] IN
    /\ k # NoKey
    /\ \/ /\ ~worker_suspended
          /\ ~ReadsOpen
          /\ Backlog < QueueDepth
          /\ Enqueueable(k)
          /\ EnterQueue(k)
       \/ UNCHANGED queueVars     \* answered from the row, or refused by a limit
    /\ api' = [api EXCEPT ![u] = NoKey]
    /\ UNCHANGED <<breaker, workerVars, snapshot, countVars>>

(* The collector publishes data with another fingerprint.                  *)
PublishSnapshot(t) ==
    /\ \E s \in Snapshot \ {snapshot[t]} : snapshot' = [snapshot EXCEPT ![t] = s]
    /\ UNCHANGED <<queueVars, breaker, workerVars, api, countVars>>

-----------------------------------------------------------------------------
(* The consumers.                                                          *)

Goto(c, from, to) == pc[c] = from /\ pc' = [pc EXCEPT ![c] = to]
Fails(c, kind) == failure' = [failure EXCEPT ![c] = kind]

(* The statement throws: STORE_UNAVAILABLE, or the lease is not the caller's.*)
StoreFault == faults < MaxFaults /\ faults' = faults + 1
Refused(owns) == (~owns /\ UNCHANGED faults) \/ StoreFault

(* A statement and the SELECT that reads its row back are two transactions:*)
(* when the second one throws, the first has taken effect.                 *)
Throws(owns, Update) == \/ Refused(owns) /\ UNCHANGED queueVars
                        \/ StoreFault /\ Update

Leave(c) ==     \* processClaim returns: the finally block disarms the heartbeat
    /\ job' = [job EXCEPT ![c] = NoKey]
    /\ failure' = [failure EXCEPT ![c] = "none"]
    /\ permit' = [permit EXCEPT ![c] = "none"]

BeginCycle(c) ==
    /\ Goto(c, "idle", "polling")
    /\ ~worker_suspended
    /\ UNCHANGED <<queueVars, breaker, job, failure, permit, envVars>>

(* The budget blocks before the claim, or claimNext finds nothing.         *)
EndCycle(c) ==
    /\ Goto(c, "polling", "idle")
    /\ BudgetMayBlock \/ \A k \in Key : ~Claimable(k)
    /\ UNCHANGED <<queueVars, breaker, job, failure, permit, envVars>>

Claim(c) ==
    /\ Goto(c, "polling", "claimed")
    /\ \E k \in Key : /\ ClaimNext(k, WorkerOf[c])
                      /\ job' = [job EXCEPT ![c] = k]
    /\ UNCHANGED <<breaker, failure, permit, envVars>>

(* Mutant of BudgetDefers: the heartbeat stays armed after the deferral.   *)
BudgetDefersArmed(c) ==
    /\ BudgetMayBlock
    /\ Goto(c, "claimed", "idle")
    /\ \/ DeferClaim(job[c], WorkerOf[c]) /\ UNCHANGED faults
       \/ Refused(Owned(job[c], WorkerOf[c])) /\ UNCHANGED queueVars
    /\ UNCHANGED <<breaker, job, failure, permit, otherEnv>>

(* budgetBlockedAfterClaim: the claim goes back and the cycle ends; the    *)
(* answer of deferClaim is not looked at.                                  *)
BudgetDefers(c) ==
    /\ BudgetMayBlock
    /\ Goto(c, "claimed", "idle")
    /\ \/ DeferClaim(job[c], WorkerOf[c]) /\ UNCHANGED faults
       \/ Refused(Owned(job[c], WorkerOf[c])) /\ UNCHANGED queueVars
    /\ Leave(c)
    /\ UNCHANGED <<breaker, otherEnv>>

(* The context is rebuilt and its cache key compared with the job's.  A    *)
(* context that cannot be built and a key that differs (DATA_STALE) are    *)
(* the same permanent failure.                                             *)
IdentityHolds(c) ==
    /\ Goto(c, "claimed", "checked")
    /\ snapshot[TokenOf(job[c])] = SnapshotOf(job[c])
    /\ UNCHANGED <<queueVars, breaker, job, failure, permit, envVars>>

ContextFails(c) ==
    /\ Goto(c, "claimed", "settling")
    /\ Fails(c, "permanent")
    /\ UNCHANGED <<queueVars, breaker, job, permit, envVars>>

TakePermit(c) ==
    /\ Goto(c, "checked", "permitted")
    /\ \/ NormalPermit /\ permit' = [permit EXCEPT ![c] = "normal"]
       \/ ProbePermit /\ permit' = [permit EXCEPT ![c] = "probe"]
    /\ UNCHANGED <<queueVars, job, failure, envVars>>

PermitFails(c) ==
    /\ Goto(c, "checked", "settling")
    /\ StoreFault
    /\ Fails(c, "permanent")
    /\ UNCHANGED <<queueVars, breaker, job, permit, otherEnv>>

PermitDenied(c) ==
    /\ PermitRefused
    /\ \/ /\ Goto(c, "checked", "idle")
          /\ DeferClaim(job[c], WorkerOf[c])
          /\ Leave(c)
          /\ UNCHANGED faults
       \/ /\ Goto(c, "checked", "settling")
          /\ Refused(Owned(job[c], WorkerOf[c]))
          /\ Fails(c, "permanent")
          /\ UNCHANGED <<queueVars, job, permit>>
    /\ UNCHANGED otherEnv

StartCall(c) ==
    /\ \/ /\ Goto(c, "permitted", "calling")
          /\ ProviderAttemptStarted(job[c], WorkerOf[c])
          /\ UNCHANGED <<failure, faults>>
       \/ /\ Goto(c, "permitted", "settling")
          /\ Throws(Owned(job[c], WorkerOf[c]), ProviderAttemptStarted(job[c], WorkerOf[c]))
          /\ Fails(c, "permanent")
    /\ UNCHANGED <<breaker, job, permit, otherEnv>>

ProviderAnswers(c) ==
    /\ \/ /\ Goto(c, "calling", "responded")
          /\ ProviderAttemptEnds(job[c], WorkerOf[c], "RESPONSE_RECEIVED")
          /\ UNCHANGED <<failure, faults>>
       \/ /\ Goto(c, "calling", "settling")
          /\ Throws(AttemptOpen(job[c], WorkerOf[c]),
                    ProviderAttemptEnds(job[c], WorkerOf[c], "RESPONSE_RECEIVED"))
          /\ Fails(c, "permanent")
    /\ UNCHANGED <<breaker, job, permit, otherEnv>>

(* Timeout, rate limit or outage is transient; refusal, incomplete output  *)
(* and an invalid response are not.                                        *)
ProviderFails(c) ==
    /\ Goto(c, "calling", "call_failed")
    /\ \E kind \in {"transient", "permanent"} : Fails(c, kind)
    /\ UNCHANGED <<queueVars, breaker, job, permit, envVars>>

(* Model, contract and semantic checks, hydration.                         *)
Validate(c) ==
    /\ \/ Goto(c, "responded", "validated") /\ UNCHANGED failure
       \/ Goto(c, "responded", "settling") /\ Fails(c, "permanent")
    /\ UNCHANGED <<queueVars, breaker, job, permit, envVars>>

PublishResult(c) ==
    /\ \/ /\ Goto(c, "validated", "published")
          /\ Complete(job[c], WorkerOf[c])
          /\ UNCHANGED <<failure, faults>>
       \/ /\ Goto(c, "validated", "settling")
          /\ Refused(Owned(job[c], WorkerOf[c]))
          /\ Fails(c, "permanent")
          /\ UNCHANGED queueVars
    /\ UNCHANGED <<breaker, job, permit, otherEnv>>

(* A failure to record the success is only noted on the row.               *)
RecordSuccess(c) ==
    /\ Goto(c, "published", "done")
    /\ \/ CircuitSuccess /\ UNCHANGED faults
       \/ StoreFault /\ UNCHANGED breaker
    /\ Leave(c)
    /\ UNCHANGED <<queueVars, otherEnv>>

-----------------------------------------------------------------------------
(* The catch block of processClaim.                                        *)

RecordAttemptFailed(c) ==
    /\ \/ /\ Goto(c, "call_failed", IF failure[c] = "transient" THEN "tripping" ELSE "settling")
          /\ ProviderAttemptEnds(job[c], WorkerOf[c], "FAILED")
          /\ UNCHANGED <<failure, faults>>
       \/ /\ Goto(c, "call_failed", "settling")
          /\ Throws(AttemptOpen(job[c], WorkerOf[c]),
                    ProviderAttemptEnds(job[c], WorkerOf[c], "FAILED"))
          /\ Fails(c, "permanent")
    /\ UNCHANGED <<breaker, job, permit, otherEnv>>

(* Only a transient failure is reported to the breaker.                    *)
TripBreaker(c) ==
    /\ Goto(c, "tripping", "settling")
    /\ \/ CircuitFailure /\ UNCHANGED <<failure, faults>>
       \/ StoreFault /\ Fails(c, "permanent") /\ UNCHANGED breaker
    /\ UNCHANGED <<queueVars, job, permit, otherEnv>>

(* fail() reads the row and updates it in two transactions: a lease lost   *)
(* in between leaves the row as the new owner has it by then.              *)
Settled(c) == failure[c] = "transient" \/ status[job[c]] = "FAILED"

SettleFailure(c) ==
    /\ \/ /\ Goto(c, "settling", IF Settled(c) THEN "done" ELSE "suspending")
          /\ \/ FailJob(job[c], WorkerOf[c], failure[c] = "transient")
             \/ ~Owned(job[c], WorkerOf[c]) /\ UNCHANGED queueVars
          /\ IF Settled(c) THEN Leave(c) ELSE UNCHANGED <<job, failure, permit>>
          /\ UNCHANGED faults
       \/ /\ Goto(c, "settling", "suspending")
          /\ Throws(Owned(job[c], WorkerOf[c]),
                    FailJob(job[c], WorkerOf[c], failure[c] = "transient"))
          /\ UNCHANGED <<job, failure, permit>>
    /\ UNCHANGED <<breaker, otherEnv>>

Suspend(c) ==
    /\ Goto(c, "suspending", "done")
    /\ \/ SuspendWorker /\ UNCHANGED faults
       \/ StoreFault /\ UNCHANGED queueVars
    /\ Leave(c)
    /\ UNCHANGED <<breaker, otherEnv>>

(* Back in the claim loop: a suspended worker or a full cycle ends it.     *)
NextClaim(c) ==
    /\ \/ ~worker_suspended /\ Goto(c, "done", "polling")
       \/ Goto(c, "done", "idle")
    /\ UNCHANGED <<queueVars, breaker, job, failure, permit, envVars>>

(* The heartbeat fires while processClaim awaits.                          *)
Heartbeat(c) ==
    /\ pc[c] \in {"claimed", "calling"}
    /\ RenewLease(job[c], WorkerOf[c])
    /\ UNCHANGED <<breaker, workerVars, envVars>>

Crash(c) ==
    /\ crashes < MaxCrashes
    /\ pc[c] \in Processing
    /\ pc' = [pc EXCEPT ![c] = "idle"]
    /\ Leave(c)
    /\ crashes' = crashes + 1
    /\ UNCHANGED <<queueVars, breaker, api, snapshot, expiries, faults, forces>>

-----------------------------------------------------------------------------
(* The owner and the clock.                                                *)

OwnerResumes ==
    /\ ResumeWorker
    /\ UNCHANGED <<breaker, workerVars, envVars>>

(* enqueue(force): any existing row of the current identity is re-queued.  *)
OwnerForces(t) ==
    /\ forces < MaxForces
    /\ EnterQueue(<<t, snapshot[t]>>)
    /\ forces' = forces + 1
    /\ UNCHANGED <<breaker, workerVars, api, snapshot, expiries, crashes, faults>>

Attended(k) == \E c \in Consumer : job[c] = k /\ Owned(k, WorkerOf[c])

Expire(k) ==
    /\ expiries < MaxExpiries \/ ~Attended(k)
    /\ LeaseExpires(k)
    /\ expiries' = expiries + 1
    /\ UNCHANGED <<breaker, workerVars, api, snapshot, crashes, faults, forces>>

RetryTime(k) == RetryComes(k) /\ UNCHANGED <<breaker, workerVars, envVars>>

BreakerTime == OpenPeriodElapses /\ UNCHANGED <<queueVars, workerVars, envVars>>

-----------------------------------------------------------------------------
ConsumerStep(c) ==
    \/ BeginCycle(c) \/ EndCycle(c) \/ Claim(c) \/ BudgetDefers(c)
    \/ IdentityHolds(c) \/ ContextFails(c)
    \/ TakePermit(c) \/ PermitFails(c) \/ PermitDenied(c)
    \/ StartCall(c) \/ ProviderAnswers(c) \/ ProviderFails(c) \/ Validate(c)
    \/ PublishResult(c) \/ RecordSuccess(c) \/ RecordAttemptFailed(c)
    \/ TripBreaker(c) \/ SettleFailure(c) \/ Suspend(c) \/ NextClaim(c)

Next ==
    \/ \E u \in Client : Submit(u) \/ \E t \in Token : BuildContext(u, t)
    \/ \E t \in Token : PublishSnapshot(t) \/ OwnerForces(t)
    \/ \E c \in Consumer : ConsumerStep(c) \/ Heartbeat(c) \/ Crash(c)
    \/ \E k \in Key : Expire(k) \/ RetryTime(k)
    \/ OwnerResumes \/ BreakerTime

Spec == Init /\ [][Next]_vars

(* A worker process keeps running its cycles, the provider call is bounded *)
(* by its timeout, and the clock advances.  Nothing is assumed of the      *)
(* owner, the public requests or the collector.                            *)
Fairness ==
    /\ \A c \in Consumer : WF_vars(ConsumerStep(c))
    /\ \A k \in Key : WF_vars(Expire(k)) /\ WF_vars(RetryTime(k))
    /\ WF_vars(BreakerTime)

FairSpec == Spec /\ Fairness

-----------------------------------------------------------------------------
(* Properties.                                                             *)

(* complete() marks the other published rows of the token STALE in the     *)
(* transaction that publishes its own: however claims, takeovers and new   *)
(* snapshots interleave, a token never shows two current analyses.         *)
OneReadyPerToken ==
    \A j, k \in Key : /\ status[j] = "READY" /\ status[k] = "READY"
                      /\ TokenOf(j) = TokenOf(k)
                      => j = k

(* lease_owner is NULL exactly outside PROCESSING: no operation leaves a   *)
(* job that is held by nobody yet not claimable, or one held by a worker   *)
(* that another may claim without the lease running out.                   *)
LeaseHeldIffProcessing ==
    \A k \in Key : status[k] = "PROCESSING" <=> lease_owner[k] # NoWorker

(* A row that is served as an analysis has its result stored and marked    *)
(* VALID: the columns that complete() writes go together, and no other     *)
(* statement takes one of them away and leaves the row served.             *)
PublishedIsValid ==
    \A k \in Key : status[k] \in Published => result[k] /\ validation[k] = "VALID"

(* "An update error does not remove the previous valid result"             *)
(* (docs/ai_shared_queue_cache.md:19): a token that has a last-known-good  *)
(* analysis for a row keeps one, whatever later jobs of the token do.      *)
LastKnownGoodKept ==
    [][\A k \in Key : HasLastKnownGood(k) => HasLastKnownGood(k)']_vars

(* Every paid provider call is counted as an attempt of its row: the       *)
(* deferrals, which take an attempt back, never take back one that called. *)
CallsCounted == \A k \in Key : provider_attempt_count[k] <= attempt_count[k]

(* Attempts of a row exceed maxAttempts only by claims that took over an   *)
(* expired lease and by forced re-analyses, one each.                      *)
AttemptsBounded == \A k \in Key : attempt_count[k] <= MaxAttempts + expiries + forces

(* The persisted breaker is half-open exactly while it has handed out the  *)
(* probe; it can open only after a reported failure.                       *)
BreakerConsistent ==
    /\ breaker.half_open_in_flight <=> breaker.state = "HALF_OPEN"
    /\ breaker.state # "CLOSED" => breaker.failures = FailureThreshold

(* The probe was handed out and nobody who could report on it is left.     *)
Wedged == breaker.state = "HALF_OPEN" /\ \A c \in Consumer : permit[c] = "none"

(* Once wedged the breaker never leaves HALF_OPEN: no consumer gets a      *)
(* permit again, and resumeWorker does not touch the breaker.              *)
WedgedForever == [][Wedged => Wedged']_vars

(* Every accepted job ends as a published analysis or as a suspended job,  *)
(* through crashes, expired leases, retries and an opening breaker, unless *)
(* the breaker is wedged or the worker is suspended; once the owner has    *)
(* resumed the worker the obligation stands again.                         *)
JobsSettle ==
    \A k \in Key : status[k] \in {"QUEUED", "PROCESSING", "FAILED"}
                     ~> \/ status[k] \in Published \cup {"SUSPENDED"}
                        \/ Wedged \/ worker_suspended

(* "A single half-open probe closes it after success; all other heavy      *)
(* provider calls remain deferred" (docs/pc2_ai_production_path.md:22):    *)
(* the half-open state lasts for one probe.                                *)
HalfOpenResolves == breaker.state = "HALF_OPEN" ~> breaker.state # "HALF_OPEN"

-----------------------------------------------------------------------------
(* What the path promises: SharedAnalysis.  The claimant of a row is the   *)
(* consumer that processes it, still owns it and has not published it.     *)
Credited == [c \in Consumer |-> IF pc[c] = "published" THEN job[c] ELSE NoKey]

Claimants(k) ==
    {c \in Consumer : job[c] = k /\ Owned(k, WorkerOf[c]) /\ Credited[c] # k}

Sole(S) == IF S = {} THEN NoKey ELSE CHOOSE c \in S : TRUE
Claimant == [k \in Key |-> Sole(Claimants(k))]

Shown == [k \in Key |-> IF status[k] = "READY" THEN "current"
                        ELSE IF status[k] = "STALE" THEN "superseded"
                        ELSE "none"]

Shared == INSTANCE SharedAnalysis
    WITH Worker <- Consumer, Nobody <- NoKey,
         claimant <- Claimant, shown <- Shown, credited <- Credited

(* Without forced re-analyses and with one worker_id per claim loop, the   *)
(* path implements the shared analysis: only the latest claimant publishes,*)
(* a token shows one current analysis, and what was published stays.       *)
ImplementsShared == Shared!Spec

OneIdPerLoop == \A c, d \in Consumer : WorkerOf[c] = WorkerOf[d] => c = d
=============================================================================
