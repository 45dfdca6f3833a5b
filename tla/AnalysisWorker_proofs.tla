------------------------- MODULE AnalysisWorker_proofs -------------------------
(* Proofs about AnalysisWorker for every value of its constants.           *)
EXTENDS AnalysisWorker, FiniteSetTheorems, TLAPS

USE DEF TokenOf, SnapshotOf

(* What one transaction of the store preserves, whoever runs it.           *)
QueueInv == QueueTypeOK /\ LeaseHeldIffProcessing /\ PublishedIsValid /\ OneReadyPerToken

LEMMA QueueInvInit == QueueInit => QueueInv
<1> SUFFICES ASSUME QueueInit PROVE QueueInv
  OBVIOUS
<1>1. QueueTypeOK
  BY DEF QueueInit, QueueTypeOK, Statuses
<1>2. LeaseHeldIffProcessing
  BY DEF QueueInit, LeaseHeldIffProcessing
<1>3. PublishedIsValid /\ OneReadyPerToken
  BY DEF QueueInit, PublishedIsValid, OneReadyPerToken, Published
<1> QED
  BY <1>1, <1>2, <1>3 DEF QueueInv

LEMMA WorkerTransactionInv ==
    ASSUME NEW k \in Key, NEW w \in WorkerId, QueueInv, WorkerTransaction(k, w)
    PROVE  QueueInv'
<1> USE QueueAssumption DEF QueueInv, QueueTypeOK, LeaseHeldIffProcessing, PublishedIsValid,
        OneReadyPerToken, Statuses, Published
<1>1. CASE ClaimNext(k, w)
  BY <1>1 DEF ClaimNext, Claimable
<1>2. CASE RenewLease(k, w)
  BY <1>2 DEF RenewLease, Owned
<1>3. CASE ProviderAttemptStarted(k, w)
  BY <1>3 DEF ProviderAttemptStarted, Owned
<1>4. ASSUME NEW outcome \in {"RESPONSE_RECEIVED", "FAILED"}, ProviderAttemptEnds(k, w, outcome)
      PROVE  QueueInv'
  BY <1>4 DEF ProviderAttemptEnds, AttemptOpen, Owned
<1>5. CASE DeferClaim(k, w)
  BY <1>5 DEF DeferClaim, ReleaseLease, Owned
<1>6. CASE Complete(k, w)
  BY <1>6 DEF Complete, ReleaseLease, Owned
<1>7. ASSUME NEW transient \in BOOLEAN, FailJob(k, w, transient)
      PROVE  QueueInv'
  BY <1>7 DEF FailJob, ReleaseLease, Retryable, Owned
<1> QED
  BY <1>1, <1>2, <1>3, <1>4, <1>5, <1>6, <1>7 DEF WorkerTransaction

LEMMA QueueNextInv == QueueInv /\ [QueueNext]_queueVars => QueueInv'
<1> SUFFICES ASSUME QueueInv, [QueueNext]_queueVars PROVE QueueInv'
  OBVIOUS
<1> USE DEF QueueInv, QueueTypeOK, LeaseHeldIffProcessing, PublishedIsValid, OneReadyPerToken,
        Statuses, Published
<1>1. ASSUME NEW k \in Key, EnterQueue(k) PROVE QueueInv'
  BY <1>1 DEF EnterQueue, ReleaseLease, Behind
<1>2. ASSUME NEW k \in Key, LeaseExpires(k) PROVE QueueInv'
  BY <1>2 DEF LeaseExpires
<1>3. ASSUME NEW k \in Key, RetryComes(k) PROVE QueueInv'
  BY <1>3 DEF RetryComes, Behind
<1>4. CASE SuspendWorker \/ ResumeWorker
  BY <1>4 DEF SuspendWorker, ResumeWorker, rowVars
<1>5. CASE UNCHANGED queueVars
  BY <1>5 DEF queueVars, rowVars
<1> QED
  BY <1>1, <1>2, <1>3, <1>4, <1>5, WorkerTransactionInv DEF QueueNext

(* The breaker by itself.                                                  *)
BreakerInv == BreakerTypeOK /\ BreakerConsistent

LEMMA BreakerInvInit == BreakerInit => BreakerInv
  BY FailureThresholdAssumption
     DEF BreakerInit, BreakerInv, BreakerTypeOK, BreakerConsistent, Breaker, BreakerStates

LEMMA BreakerNextInv == BreakerInv /\ [BreakerNext]_breaker => BreakerInv'
<1> SUFFICES ASSUME BreakerInv, [BreakerNext]_breaker PROVE BreakerInv'
  OBVIOUS
<1> USE FailureThresholdAssumption
    DEF BreakerInv, BreakerTypeOK, BreakerConsistent, Breaker, BreakerStates
<1>1. CASE NormalPermit \/ PermitRefused \/ UNCHANGED breaker
  BY <1>1 DEF NormalPermit, PermitRefused
<1>2. CASE ProbePermit
  BY <1>2 DEF ProbePermit, MayProbe
<1>3. CASE CircuitSuccess
  BY <1>3 DEF CircuitSuccess
<1>4. CASE CircuitFailure
  BY <1>4 DEF CircuitFailure
<1>5. CASE OpenPeriodElapses
  BY <1>5 DEF OpenPeriodElapses
<1> QED
  BY <1>1, <1>2, <1>3, <1>4, <1>5 DEF BreakerNext

-----------------------------------------------------------------------------
(* A step of the path is at most one transaction on the queue, at most one *)
(* on the breaker, and keeps the consumers' own state well-formed.         *)
StepShape == [QueueNext]_queueVars /\ [BreakerNext]_breaker /\ WorkerTypeOK'

(* A consumer's transaction is one of the worker's, and it moves neither   *)
(* the count of expiries nor that of forced re-analyses.                   *)
WorkerQueueStep == \/ \E k \in Key, w \in WorkerId : WorkerTransaction(k, w)
                   \/ SuspendWorker
                   \/ UNCHANGED queueVars

ConsumerShape == /\ WorkerQueueStep
                 /\ [BreakerNext]_breaker
                 /\ WorkerTypeOK'
                 /\ UNCHANGED <<expiries, forces>>

LEMMA ConsumerStepShape ==
    ASSUME TypeOK, NEW c \in Consumer, ConsumerStep(c) \/ Heartbeat(c) \/ Crash(c)
    PROVE  ConsumerShape
<1> USE WorkerAssumption DEF TypeOK, WorkerTypeOK, ConsumerShape, WorkerQueueStep, Places, Processing, Goto,
        workerVars, envVars, countVars, otherEnv, StoreFault, Refused, Throws, Settled
<1>w. WorkerOf[c] \in WorkerId
  OBVIOUS
<1>k. pc[c] \in Processing => job[c] \in Key
  OBVIOUS
<1>t. ASSUME pc[c] \in Processing, WorkerTransaction(job[c], WorkerOf[c]) PROVE WorkerQueueStep
  BY <1>t, <1>w, <1>k
<1>1. CASE BeginCycle(c)
  BY <1>1 DEF BeginCycle
<1>2. CASE EndCycle(c)
  BY <1>2 DEF EndCycle
<1>3. CASE Claim(c)
  <2>1. WorkerQueueStep
    BY <1>3, <1>w DEF Claim, WorkerTransaction
  <2> QED
    BY <2>1, <1>3 DEF Claim
<1>4. CASE BudgetDefers(c)
  <2>1. WorkerQueueStep
    BY <1>4, <1>t DEF BudgetDefers, Leave, WorkerTransaction
  <2>2. [BreakerNext]_breaker /\ WorkerTypeOK' /\ UNCHANGED <<expiries, forces>>
    BY <1>4 DEF BudgetDefers, Leave, BreakerNext
  <2> QED
    BY <2>1, <2>2
<1>5. CASE IdentityHolds(c)
  BY <1>5 DEF IdentityHolds
<1>6. CASE ContextFails(c)
  BY <1>6 DEF ContextFails, Fails
<1>7. CASE TakePermit(c)
  BY <1>7 DEF TakePermit, BreakerNext
<1>22. CASE PermitFails(c)
  BY <1>22 DEF PermitFails, Fails
<1>8. CASE PermitDenied(c)
  <2>1. WorkerQueueStep
    BY <1>8, <1>t DEF PermitDenied, Leave, Fails, PermitRefused, WorkerTransaction
  <2>2. [BreakerNext]_breaker /\ WorkerTypeOK' /\ UNCHANGED <<expiries, forces>>
    BY <1>8 DEF PermitDenied, Leave, Fails, PermitRefused, BreakerNext
  <2> QED
    BY <2>1, <2>2
<1>9. CASE StartCall(c)
  <2>1. WorkerQueueStep
    BY <1>9, <1>t DEF StartCall, Fails, WorkerTransaction
  <2>2. [BreakerNext]_breaker /\ WorkerTypeOK' /\ UNCHANGED <<expiries, forces>>
    BY <1>9 DEF StartCall, Fails, BreakerNext
  <2> QED
    BY <2>1, <2>2
<1>10. CASE ProviderAnswers(c)
  <2>1. WorkerQueueStep
    BY <1>10, <1>t DEF ProviderAnswers, Fails, WorkerTransaction
  <2>2. [BreakerNext]_breaker /\ WorkerTypeOK' /\ UNCHANGED <<expiries, forces>>
    BY <1>10 DEF ProviderAnswers, Fails, BreakerNext
  <2> QED
    BY <2>1, <2>2
<1>11. CASE ProviderFails(c)
  BY <1>11 DEF ProviderFails, Fails
<1>12. CASE Validate(c)
  BY <1>12 DEF Validate, Fails
<1>13. CASE PublishResult(c)
  <2>1. WorkerQueueStep
    BY <1>13, <1>t DEF PublishResult, Fails, WorkerTransaction
  <2>2. [BreakerNext]_breaker /\ WorkerTypeOK' /\ UNCHANGED <<expiries, forces>>
    BY <1>13 DEF PublishResult, Fails, BreakerNext
  <2> QED
    BY <2>1, <2>2
<1>14. CASE RecordSuccess(c)
  BY <1>14 DEF RecordSuccess, Leave, BreakerNext
<1>15. CASE RecordAttemptFailed(c)
  <2>1. WorkerQueueStep
    BY <1>15, <1>t DEF RecordAttemptFailed, Fails, WorkerTransaction
  <2>2. [BreakerNext]_breaker /\ WorkerTypeOK' /\ UNCHANGED <<expiries, forces>>
    BY <1>15 DEF RecordAttemptFailed, Fails, BreakerNext
  <2> QED
    BY <2>1, <2>2
<1>16. CASE TripBreaker(c)
  BY <1>16 DEF TripBreaker, Fails, BreakerNext
<1>17. CASE SettleFailure(c)
  <2>1. WorkerQueueStep
    BY <1>17, <1>t DEF SettleFailure, Leave, WorkerTransaction
  <2>2. [BreakerNext]_breaker /\ WorkerTypeOK' /\ UNCHANGED <<expiries, forces>>
    BY <1>17 DEF SettleFailure, Leave, BreakerNext
  <2> QED
    BY <2>1, <2>2
<1>18. CASE Suspend(c)
  BY <1>18 DEF Suspend, Leave
<1>19. CASE NextClaim(c)
  BY <1>19 DEF NextClaim
<1>20. CASE Heartbeat(c)
  BY <1>20, <1>t DEF Heartbeat, WorkerTransaction
<1>21. CASE Crash(c)
  BY <1>21 DEF Crash, Leave
<1> QED
  BY <1>1, <1>2, <1>3, <1>4, <1>5, <1>6, <1>7, <1>8, <1>9, <1>10, <1>11, <1>12, <1>13,
     <1>14, <1>15, <1>16, <1>17, <1>18, <1>19, <1>20, <1>21, <1>22 DEF ConsumerStep

LEMMA NextShape ==
    ASSUME TypeOK, [Next]_vars
    PROVE  StepShape
<1> USE DEF TypeOK, WorkerTypeOK, StepShape, workerVars, envVars, countVars
<1>1. ASSUME NEW u \in Client, Submit(u) PROVE StepShape
  <2>1. api[u] \in Key /\ [QueueNext]_queueVars
    BY <1>1 DEF Submit, QueueNext
  <2> QED
    BY <1>1, <2>1 DEF Submit
<1>2. ASSUME NEW u \in Client, NEW t \in Token, BuildContext(u, t) PROVE StepShape
  <2>1. <<t, snapshot[t]>> \in Key
    BY DEF Key
  <2> QED
    BY <1>2, <2>1 DEF BuildContext
<1>3. ASSUME NEW t \in Token, PublishSnapshot(t) PROVE StepShape
  BY <1>3 DEF PublishSnapshot
<1>4. ASSUME NEW t \in Token, OwnerForces(t) PROVE StepShape
  <2>1. QueueNext
    BY <1>4 DEF OwnerForces, QueueNext, Key
  <2> QED
    BY <1>4, <2>1 DEF OwnerForces
<1>5. ASSUME NEW k \in Key, Expire(k) \/ RetryTime(k) PROVE StepShape
  BY <1>5 DEF Expire, RetryTime, QueueNext
<1>6. CASE OwnerResumes \/ BreakerTime
  BY <1>6 DEF OwnerResumes, BreakerTime, QueueNext, BreakerNext
<1>7. CASE UNCHANGED vars
  BY <1>7 DEF vars
<1>8. ASSUME NEW c \in Consumer, ConsumerStep(c) \/ Heartbeat(c) \/ Crash(c)
      PROVE  StepShape
  BY <1>8, ConsumerStepShape DEF ConsumerShape, WorkerQueueStep, QueueNext
<1> QED
  BY <1>1, <1>2, <1>3, <1>4, <1>5, <1>6, <1>7, <1>8 DEF Next

-----------------------------------------------------------------------------
Inv == QueueInv /\ BreakerInv /\ WorkerTypeOK

LEMMA InvInit == Init => Inv
<1>1. Init => WorkerTypeOK
  BY WorkerAssumption DEF Init, WorkerTypeOK, Places, Processing
<1> QED
  BY <1>1, QueueInvInit, BreakerInvInit DEF Init, Inv

LEMMA InvNext == Inv /\ [Next]_vars => Inv'
<1> SUFFICES ASSUME Inv, [Next]_vars PROVE Inv'
  OBVIOUS
<1>1. StepShape
  BY NextShape DEF Inv, TypeOK, QueueInv, BreakerInv
<1> QED
  BY <1>1, QueueNextInv, BreakerNextInv DEF Inv, StepShape

THEOREM Invariance == Spec => []Inv
  BY InvInit, InvNext, PTL DEF Spec

(* Every state of the path is well-typed, with any number of tokens,       *)
(* snapshots, requests and consumers.                                      *)
THEOREM TypeCorrect == Spec => []TypeOK
<1>1. Inv => TypeOK
  BY DEF Inv, QueueInv, BreakerInv, TypeOK
<1> QED
  BY <1>1, Invariance, PTL

(* A token never shows two current analyses (complete() of the store),     *)
(* whatever claims, takeovers, crashes and forced re-analyses do.          *)
THEOREM OneReady == Spec => []OneReadyPerToken
<1>1. Inv => OneReadyPerToken
  BY DEF Inv, QueueInv
<1> QED
  BY <1>1, Invariance, PTL

(* A job has an owner exactly while it is PROCESSING.                      *)
THEOREM LeaseOwnership == Spec => []LeaseHeldIffProcessing
<1>1. Inv => LeaseHeldIffProcessing
  BY DEF Inv, QueueInv
<1> QED
  BY <1>1, Invariance, PTL

(* The columns that complete() writes go together: a row that is served as *)
(* an analysis has its result stored and marked VALID.  What the provider  *)
(* returned and whether a validator saw it is not said here.               *)
THEOREM PublishedValid == Spec => []PublishedIsValid
<1>1. Inv => PublishedIsValid
  BY DEF Inv, QueueInv
<1> QED
  BY <1>1, Invariance, PTL

(* Half-open means a probe was handed out; only failures open the breaker. *)
THEOREM BreakerSound == Spec => []BreakerConsistent
<1>1. Inv => BreakerConsistent
  BY DEF Inv, BreakerInv
<1> QED
  BY <1>1, Invariance, PTL

-----------------------------------------------------------------------------
(* The attempt counter.  A row that may be claimed is strictly below the   *)
(* limit, and an expired lease has already raised the limit by one.        *)
AttemptsUnder(limit) ==
    \A k \in Key :
        /\ attempt_count[k] <= limit
        /\ Claimable(k) \/ status[k] \in {"ABSENT", "QUEUED", "FAILED"} => attempt_count[k] < limit

AttemptInv == AttemptsUnder(MaxAttempts + expiries + forces)

LEMMA WorkerTransactionAttempts ==
    ASSUME NEW limit \in Nat, MaxAttempts <= limit, QueueTypeOK, AttemptsUnder(limit),
           WorkerQueueStep
    PROVE  AttemptsUnder(limit)'
<1> USE QueueAssumption DEF QueueTypeOK, AttemptsUnder, Claimable, Owned
<1>1. ASSUME NEW k \in Key, NEW w \in WorkerId, WorkerTransaction(k, w)
      PROVE  AttemptsUnder(limit)'
  <2>1. CASE ClaimNext(k, w)
    BY <2>1 DEF ClaimNext
  <2>2. CASE RenewLease(k, w)
    BY <2>2 DEF RenewLease
  <2>3. CASE ProviderAttemptStarted(k, w)
    BY <2>3 DEF ProviderAttemptStarted
  <2>4. ASSUME NEW outcome \in {"RESPONSE_RECEIVED", "FAILED"}, ProviderAttemptEnds(k, w, outcome)
        PROVE  AttemptsUnder(limit)'
    BY <2>4 DEF ProviderAttemptEnds
  <2>5. CASE DeferClaim(k, w)
    BY <2>5 DEF DeferClaim, ReleaseLease
  <2>6. CASE Complete(k, w)
    BY <2>6 DEF Complete, ReleaseLease
  <2>7. ASSUME NEW transient \in BOOLEAN, FailJob(k, w, transient)
        PROVE  AttemptsUnder(limit)'
    BY <2>7 DEF FailJob, ReleaseLease, Retryable
  <2> QED
    BY <1>1, <2>1, <2>2, <2>3, <2>4, <2>5, <2>6, <2>7 DEF WorkerTransaction
<1>2. CASE SuspendWorker \/ UNCHANGED queueVars
  BY <1>2 DEF SuspendWorker, queueVars, rowVars
<1> QED
  BY <1>1, <1>2 DEF WorkerQueueStep

LEMMA AttemptNext == Inv /\ AttemptInv /\ [Next]_vars => AttemptInv'
<1> SUFFICES ASSUME Inv, AttemptInv, [Next]_vars PROVE AttemptInv'
  OBVIOUS
<1> PICK limit \in Nat : limit = MaxAttempts + expiries + forces
  BY QueueAssumption DEF Inv, WorkerTypeOK
<1>0. MaxAttempts <= limit /\ AttemptsUnder(limit) /\ QueueTypeOK
  BY QueueAssumption DEF Inv, QueueInv, WorkerTypeOK, AttemptInv
<1> USE QueueAssumption DEF Inv, QueueInv, WorkerTypeOK, QueueTypeOK, AttemptsUnder, Claimable
<1>1. ASSUME NEW c \in Consumer, ConsumerStep(c) \/ Heartbeat(c) \/ Crash(c)
      PROVE  AttemptInv'
  <2>1. WorkerQueueStep /\ UNCHANGED <<expiries, forces>>
    BY <1>1, ConsumerStepShape DEF ConsumerShape, TypeOK, BreakerInv
  <2>2. AttemptsUnder(limit)'
    BY <1>0, <2>1, WorkerTransactionAttempts
  <2> QED
    BY <2>1, <2>2 DEF AttemptInv
<1>2. ASSUME NEW u \in Client, Submit(u) PROVE AttemptInv'
  <2>1. CASE UNCHANGED queueVars
    BY <1>2, <2>1 DEF Submit, AttemptInv, queueVars, rowVars, countVars
  <2>2. CASE Enqueueable(api[u]) /\ EnterQueue(api[u])
    BY <1>2, <2>2 DEF Submit, Enqueueable, EnterQueue, ReleaseLease, AttemptInv, countVars
  <2> QED
    BY <1>2, <2>1, <2>2 DEF Submit
<1>3. ASSUME NEW t \in Token, OwnerForces(t) PROVE AttemptInv'
  BY <1>3 DEF OwnerForces, EnterQueue, ReleaseLease, AttemptInv
<1>4. ASSUME NEW k \in Key, Expire(k) PROVE AttemptInv'
  BY <1>4 DEF Expire, LeaseExpires, AttemptInv
<1>5. ASSUME NEW k \in Key, RetryTime(k) PROVE AttemptInv'
  BY <1>5 DEF RetryTime, RetryComes, AttemptInv, envVars, countVars
<1>6. CASE \/ OwnerResumes \/ BreakerTime \/ UNCHANGED vars
           \/ \E t \in Token : PublishSnapshot(t) \/ \E u \in Client : BuildContext(u, t)
  BY <1>6 DEF OwnerResumes, ResumeWorker, BreakerTime, PublishSnapshot, BuildContext, AttemptInv,
     vars, queueVars, rowVars, envVars, countVars
<1> QED
  BY <1>1, <1>2, <1>3, <1>4, <1>5, <1>6 DEF Next

(* Attempts exceed maxAttempts by at most one per expired lease and one    *)
(* per forced re-analysis: fail() suspends at the limit, and claimNext,    *)
(* which has no limit of its own, only passes it on an expired claim.      *)
THEOREM AttemptBound == Spec => []AttemptsBounded
<1>1. Init => AttemptInv
  BY QueueAssumption DEF Init, QueueInit, AttemptInv, AttemptsUnder, Claimable
<1>2. AttemptInv => AttemptsBounded
  BY DEF AttemptInv, AttemptsUnder, AttemptsBounded
<1> QED
  BY <1>1, <1>2, AttemptNext, Invariance, PTL DEF Spec

-----------------------------------------------------------------------------
(* The wedged breaker.  A consumer between its permit and its report holds *)
(* the permit, so only a permit holder can still report to the breaker.    *)
Reporting == {"permitted", "calling", "responded", "validated", "published",
              "call_failed", "tripping"}

PermitInv == \A c \in Consumer : pc[c] \in Reporting => permit[c] # "none"

LEMMA PermitNext == Inv /\ PermitInv /\ [Next]_vars => PermitInv' /\ (Wedged => Wedged')
<1> SUFFICES ASSUME Inv, PermitInv, [Next]_vars PROVE PermitInv' /\ (Wedged => Wedged')
  OBVIOUS
<1> USE DEF Inv, BreakerInv, BreakerConsistent, WorkerTypeOK, PermitInv, Reporting, Wedged, Goto,
        workerVars, envVars, countVars
<1>1. ASSUME NEW c \in Consumer, ConsumerStep(c) PROVE PermitInv' /\ (Wedged => Wedged')
  <2>1. CASE BeginCycle(c) \/ EndCycle(c) \/ Claim(c) \/ IdentityHolds(c) \/ ContextFails(c)
    BY <2>1 DEF BeginCycle, EndCycle, Claim, IdentityHolds, ContextFails
  <2>2. CASE BudgetDefers(c)
    BY <2>2 DEF BudgetDefers, Leave
  <2>3. CASE TakePermit(c)
    BY <2>3 DEF TakePermit, NormalPermit, ProbePermit, MayProbe
  <2>4. CASE PermitFails(c) \/ PermitDenied(c)
    BY <2>4 DEF PermitFails, PermitDenied, PermitRefused, Leave
  <2>5. CASE StartCall(c) \/ ProviderAnswers(c) \/ ProviderFails(c) \/ Validate(c)
    BY <2>5 DEF StartCall, ProviderAnswers, ProviderFails, Validate
  <2>6. CASE PublishResult(c) \/ RecordAttemptFailed(c)
    BY <2>6 DEF PublishResult, RecordAttemptFailed
  <2>7. CASE RecordSuccess(c)
    BY <2>7 DEF RecordSuccess, Leave
  <2>8. CASE TripBreaker(c)
    BY <2>8 DEF TripBreaker
  <2>9. CASE SettleFailure(c)
    BY <2>9 DEF SettleFailure, Leave
  <2>10. CASE Suspend(c) \/ NextClaim(c)
    BY <2>10 DEF Suspend, NextClaim, Leave
  <2> QED
    BY <1>1, <2>1, <2>2, <2>3, <2>4, <2>5, <2>6, <2>7, <2>8, <2>9, <2>10 DEF ConsumerStep
<1>2. ASSUME NEW c \in Consumer, Heartbeat(c) \/ Crash(c) PROVE PermitInv' /\ (Wedged => Wedged')
  BY <1>2 DEF Heartbeat, Crash, Leave
<1>3. ASSUME NEW u \in Client, Submit(u) PROVE PermitInv' /\ (Wedged => Wedged')
  BY <1>3 DEF Submit
<1>4. ASSUME NEW t \in Token,
             PublishSnapshot(t) \/ OwnerForces(t) \/ \E u \in Client : BuildContext(u, t)
      PROVE  PermitInv' /\ (Wedged => Wedged')
  BY <1>4 DEF PublishSnapshot, OwnerForces, BuildContext
<1>5. ASSUME NEW k \in Key, Expire(k) \/ RetryTime(k) PROVE PermitInv' /\ (Wedged => Wedged')
  BY <1>5 DEF Expire, RetryTime
<1>6. CASE OwnerResumes \/ BreakerTime \/ UNCHANGED vars
  BY <1>6 DEF OwnerResumes, BreakerTime, OpenPeriodElapses, vars
<1> QED
  BY <1>1, <1>2, <1>3, <1>4, <1>5, <1>6 DEF Next

(* A half-open breaker whose probe ended without a report stays half-open  *)
(* for ever: no permit, no elapsed period and no owner resume changes it.  *)
THEOREM WedgeIsPermanent == Spec => WedgedForever
<1>1. Init => PermitInv
  BY DEF Init, PermitInv, Reporting
<1>2. Inv /\ PermitInv /\ [Next]_vars => PermitInv' /\ [Wedged => Wedged']_vars
  BY PermitNext
<1> QED
  BY <1>1, <1>2, Invariance, PTL DEF Spec, WedgedForever

-----------------------------------------------------------------------------
(* Refinement of SharedAnalysis, one worker_id per claim loop.             *)

LEMMA SoleOf == Sole({}) = NoKey /\ \A c : Sole({c}) = c
<1>1. \A c : (CHOOSE d \in {c} : TRUE) = c
  OBVIOUS
<1> QED
  BY <1>1 DEF Sole

LEMMA SoleClaimant ==
    ASSUME OneIdPerLoop, NEW k \in Key, NEW c \in Claimants(k)
    PROVE  Claimants(k) = {c} /\ Claimant[k] = c
<1>1. Claimants(k) = {c}
  BY DEF OneIdPerLoop, Claimants, Owned
<1> QED
  BY <1>1, SoleOf DEF Claimant

LEMMA ClaimantKept ==
    ASSUME \A k \in Key : Claimants(k)' = Claimants(k)
    PROVE  Claimant' = Claimant
  BY DEF Claimant

LEMMA ClaimantDropped ==
    ASSUME NEW k \in Key, Claimants(k)' = {}, \A j \in Key \ {k} : Claimants(j)' = Claimants(j)
    PROVE  Claimant' = [Claimant EXCEPT ![k] = NoKey]
  BY SoleOf DEF Claimant

LEMMA ClaimantTakes ==
    ASSUME NEW k \in Key, NEW c, Claimants(k)' = {c},
           \A j \in Key \ {k} : Claimants(j)' = Claimants(j)
    PROVE  Claimant' = [Claimant EXCEPT ![k] = c]
  BY SoleOf DEF Claimant

(* The four ways a step moves the claimants.  Held: nothing is taken or    *)
(* given back; left: a consumer forgets its row; released: the store takes *)
(* the row from its owner.                                                 *)
SharedStep == [Shared!Next]_(Shared!sharedVars)

LEMMA HeldStep ==
    ASSUME UNCHANGED <<job, status, lease_owner>>, Credited' = Credited
    PROVE  UNCHANGED Shared!sharedVars
<1>1. \A k \in Key : Claimants(k)' = Claimants(k)
  BY DEF Claimants, Owned
<1> QED
  BY <1>1, ClaimantKept DEF Shown, Shared!sharedVars

LEMMA LeftStep ==
    ASSUME OneIdPerLoop, WorkerTypeOK, NEW c \in Consumer, NEW k \in Key, job[c] = k,
           job' = [job EXCEPT ![c] = NoKey], UNCHANGED <<status, lease_owner>>,
           Credited' = Credited
    PROVE  SharedStep
<1> USE WorkerAssumption DEF WorkerTypeOK
<1>1. \A j \in Key \ {k} : Claimants(j)' = Claimants(j)
  BY DEF Claimants, Owned
<1>2. Shown' = Shown
  BY DEF Shown
<1>3. CASE c \in Claimants(k)
  <2>1. Claimants(k) = {c}
    BY <1>3, SoleClaimant
  <2>2. Claimants(k)' = {}
    BY <2>1 DEF Claimants, Owned
  <2>3. Shared!Drop(k)
    BY <1>1, <1>2, <2>2, ClaimantDropped DEF Shared!Drop
  <2> QED
    BY <2>3 DEF SharedStep, Shared!Next
<1>4. CASE c \notin Claimants(k)
  <2>1. Claimants(k)' = Claimants(k)
    BY <1>4 DEF Claimants, Owned
  <2>2. Claimant' = Claimant
    BY <1>1, <2>1, ClaimantKept
  <2> QED
    BY <1>2, <2>2 DEF SharedStep, Shared!sharedVars
<1> QED
  BY <1>3, <1>4

LEMMA ReleasedStep ==
    ASSUME WorkerTypeOK, QueueTypeOK, NEW c \in Consumer, NEW k \in Key, job[c] = k,
           status[k] = "PROCESSING",
           NEW s \in {"QUEUED", "FAILED", "SUSPENDED"},
           status' = [status EXCEPT ![k] = s],
           lease_owner' = [lease_owner EXCEPT ![k] = NoWorker],
           job' \in {job, [job EXCEPT ![c] = NoKey]}, Credited' = Credited
    PROVE  SharedStep
<1> USE WorkerAssumption DEF WorkerTypeOK, QueueTypeOK
<1>1. Claimants(k)' = {}
  BY DEF Claimants, Owned
<1>2. \A j \in Key \ {k} : Claimants(j)' = Claimants(j)
  BY DEF Claimants, Owned
<1>3. Shown' = Shown
  BY DEF Shown
<1>4. Shared!Drop(k)
  BY <1>1, <1>2, <1>3, ClaimantDropped DEF Shared!Drop
<1> QED
  BY <1>4 DEF SharedStep, Shared!Next

LEMMA TakenStep ==
    ASSUME OneIdPerLoop, WorkerTypeOK, QueueTypeOK, NEW c \in Consumer, job[c] = NoKey,
           NEW k \in Key, ClaimNext(k, WorkerOf[c]), job' = [job EXCEPT ![c] = k],
           Credited' = Credited, Credited[c] = NoKey
    PROVE  SharedStep
<1> USE WorkerAssumption DEF WorkerTypeOK, QueueTypeOK, ClaimNext, Claimable
<1>1. Claimants(k)' = {c}
  BY DEF Claimants, Owned, OneIdPerLoop
<1>2. \A j \in Key \ {k} : Claimants(j)' = Claimants(j)
  BY DEF Claimants, Owned
<1>3. Shown[k] = "none" /\ Shown' = Shown
  BY DEF Shown
<1>4. Shared!Take(k, c)
  BY <1>1, <1>2, <1>3, ClaimantTakes DEF Shared!Take
<1> QED
  BY <1>4 DEF SharedStep, Shared!Next

LEMMA PublishedStep ==
    ASSUME OneIdPerLoop, WorkerTypeOK, QueueTypeOK, NEW c \in Consumer, NEW k \in Key, job[c] = k,
           Complete(k, WorkerOf[c]), job' = job, Goto(c, "validated", "published")
    PROVE  SharedStep
<1> USE WorkerAssumption DEF WorkerTypeOK, QueueTypeOK, Complete, ReleaseLease
<1>c. Credited[c] = NoKey /\ Credited' = [Credited EXCEPT ![c] = k]
  BY DEF Credited, Goto
<1>1. Claimant[k] = c
  <2>1. c \in Claimants(k)
    BY <1>c DEF Claimants
  <2> QED
    BY <2>1, SoleClaimant
<1>2. Claimants(k)' = {} /\ \A j \in Key \ {k} : Claimants(j)' = Claimants(j)
  <2>1. \A d \in Consumer \ {c} : Credited'[d] = Credited[d]
    BY <1>c DEF Credited
  <2>2. Claimants(k)' = {}
    BY DEF Claimants, Owned
  <2>3. \A j \in Key \ {k} : /\ status'[j] = "PROCESSING" <=> status[j] = "PROCESSING"
                             /\ lease_owner'[j] = lease_owner[j]
    OBVIOUS
  <2> QED
    BY <2>1, <2>2, <2>3 DEF Claimants, Owned
<1>3. Claimant' = [Claimant EXCEPT ![k] = NoKey]
  BY <1>2, ClaimantDropped
<1>4. Shown' = [j \in Key |->
                  IF j = k THEN "current"
                  ELSE IF TokenOf(j) = TokenOf(k) /\ Shown[j] = "current" THEN "superseded"
                  ELSE Shown[j]]
  BY DEF Shown
<1>5. Shared!Publish(k, c)
  BY <1>1, <1>3, <1>4, <1>c DEF Shared!Publish
<1> QED
  BY <1>5 DEF SharedStep, Shared!Next

LEMMA ReportedStep ==
    ASSUME WorkerTypeOK, NEW c \in Consumer, job' = [job EXCEPT ![c] = NoKey],
           pc[c] = "published", NEW q \in Places \ {"published"}, pc' = [pc EXCEPT ![c] = q],
           UNCHANGED <<status, lease_owner>>
    PROVE  SharedStep
<1> USE WorkerAssumption DEF WorkerTypeOK
<1>1. Credited[c] = job[c] /\ Credited' = [Credited EXCEPT ![c] = NoKey]
  BY DEF Credited
<1>2. \A k \in Key : Claimants(k)' = Claimants(k)
  BY <1>1 DEF Claimants, Owned, Credited
<1>3. Claimant' = Claimant /\ Shown' = Shown
  BY <1>2, ClaimantKept DEF Shown
<1>4. Shared!Report(c)
  BY <1>1, <1>3 DEF Shared!Report
<1> QED
  BY <1>4 DEF SharedStep, Shared!Next

(* Only PublishResult and what follows it move a credit.                   *)
LEMMA CreditKept ==
    ASSUME WorkerTypeOK, NEW c \in Consumer, pc[c] # "published",
           NEW q \in Places \ {"published"}, pc' = [pc EXCEPT ![c] = q],
           \A d \in Consumer \ {c} : job'[d] = job[d]
    PROVE  Credited' = Credited
  BY DEF WorkerTypeOK, Credited

LEMMA ConsumerRefines ==
    ASSUME OneIdPerLoop, Inv, NEW c \in Consumer, ConsumerStep(c) \/ Heartbeat(c) \/ Crash(c)
    PROVE  SharedStep
<1> USE DEF Inv, QueueInv, Goto, Places, Processing, workerVars, envVars, queueVars, rowVars, Throws
<1>p. /\ pc[c] \in Processing => job[c] \in Key
      /\ pc[c] \notin Processing => job[c] = NoKey
  BY DEF WorkerTypeOK
<1>h. ASSUME NEW from \in Places \ {"published"}, NEW to \in Places \ {"published"},
             Goto(c, from, to), UNCHANGED <<job, status, lease_owner>>
      PROVE  SharedStep
  BY <1>h, CreditKept, HeldStep DEF SharedStep
<1>l. ASSUME pc[c] \in Processing \ {"published"}, Leave(c), UNCHANGED <<status, lease_owner>>,
             NEW to \in Places \ {"published"}, pc' = [pc EXCEPT ![c] = to]
      PROVE  SharedStep
  <2>1. Credited' = Credited
    BY <1>l, CreditKept DEF Leave, WorkerTypeOK
  <2> QED
    BY <1>l, <1>p, <2>1, LeftStep DEF Leave
<1>d. ASSUME NEW from \in Processing \ {"published"}, Goto(c, from, "idle"),
             DeferClaim(job[c], WorkerOf[c]), Leave(c)
      PROVE  SharedStep
  <2>1. Credited' = Credited
    BY <1>d, CreditKept DEF Leave, WorkerTypeOK
  <2> QED
    BY <1>d, <1>p, <2>1, ReleasedStep DEF DeferClaim, ReleaseLease, Owned, Leave
<1>1. CASE \/ BeginCycle(c) \/ EndCycle(c) \/ IdentityHolds(c) \/ ContextFails(c) \/ TakePermit(c)
           \/ PermitFails(c) \/ ProviderFails(c) \/ Validate(c) \/ TripBreaker(c) \/ NextClaim(c)
  BY <1>1, <1>h DEF BeginCycle, EndCycle, IdentityHolds, ContextFails, TakePermit, PermitFails,
     ProviderFails, Validate, TripBreaker, NextClaim
<1>2. CASE Claim(c)
  <2>1. PICK k \in Key : ClaimNext(k, WorkerOf[c]) /\ job' = [job EXCEPT ![c] = k]
    BY <1>2 DEF Claim
  <2>2. Credited' = Credited /\ Credited[c] = NoKey
    BY <1>2, <2>1, CreditKept DEF Claim, WorkerTypeOK, Credited
  <2> QED
    BY <1>2, <1>p, <2>1, <2>2, TakenStep DEF Claim
<1>3. CASE BudgetDefers(c)
  BY <1>3, <1>l, <1>d DEF BudgetDefers
<1>4. CASE PermitDenied(c)
  BY <1>4, <1>d, <1>h DEF PermitDenied
<1>5. CASE StartCall(c) \/ ProviderAnswers(c) \/ RecordAttemptFailed(c)
  BY <1>5, <1>h DEF StartCall, ProviderAnswers, RecordAttemptFailed,
     ProviderAttemptStarted, ProviderAttemptEnds
<1>b. CASE Heartbeat(c)
  BY <1>b, HeldStep DEF Heartbeat, RenewLease, Credited, SharedStep
<1>6. CASE PublishResult(c)
  BY <1>6, <1>p, <1>h, PublishedStep DEF PublishResult
<1>7. CASE RecordSuccess(c)
  BY <1>7, ReportedStep DEF RecordSuccess, Leave
<1>9. CASE Suspend(c)
  BY <1>9, <1>l DEF Suspend, SuspendWorker
<1>10. CASE Crash(c)
  BY <1>10, <1>l, ReportedStep DEF Crash, Leave
<1>8. CASE SettleFailure(c)
  <2>c. PICK q \in {"done", "suspending"} : Goto(c, "settling", q)
    BY <1>8 DEF SettleFailure
  <2>k. Leave(c) \/ UNCHANGED job
    BY <1>8 DEF SettleFailure
  <2>1. CASE FailJob(job[c], WorkerOf[c], failure[c] = "transient")
    <3>1. PICK s \in {"FAILED", "SUSPENDED"} : status' = [status EXCEPT ![job[c]] = s]
      BY <2>1 DEF FailJob
    <3>2. /\ status[job[c]] = "PROCESSING"
          /\ lease_owner' = [lease_owner EXCEPT ![job[c]] = NoWorker]
      BY <2>1 DEF FailJob, ReleaseLease, Owned
    <3>3. Credited' = Credited
      BY <2>c, <2>k, CreditKept DEF Leave, WorkerTypeOK
    <3> QED
      BY <3>1, <3>2, <3>3, <2>c, <2>k, <1>p, ReleasedStep DEF Leave
  <2>2. CASE UNCHANGED queueVars
    BY <2>2, <2>c, <2>k, <1>h, <1>l
  <2> QED
    BY <1>8, <2>1, <2>2 DEF SettleFailure
<1> QED
  BY <1>1, <1>2, <1>3, <1>4, <1>5, <1>b, <1>6, <1>7, <1>8, <1>9, <1>10 DEF ConsumerStep

LEMMA NextRefines ==
    ASSUME OneIdPerLoop, MaxForces = 0, Inv, [Next]_vars
    PROVE  SharedStep
<1> USE DEF workerVars, envVars, queueVars, rowVars
<1>h. ASSUME UNCHANGED <<pc, job, status, lease_owner>> PROVE SharedStep
  BY <1>h, HeldStep DEF SharedStep, Credited
<1>1. ASSUME NEW c \in Consumer, ConsumerStep(c) \/ Heartbeat(c) \/ Crash(c) PROVE SharedStep
  BY <1>1, ConsumerRefines
<1>2. ASSUME NEW u \in Client, Submit(u) PROVE SharedStep
  <2>1. CASE UNCHANGED queueVars
    BY <1>2, <2>1, <1>h DEF Submit
  <2>2. CASE Enqueueable(api[u]) /\ EnterQueue(api[u])
    <3> PICK k \in Key : k = api[u]
      BY <1>2 DEF Submit, Inv, WorkerTypeOK
    <3> USE <2>2 DEF Enqueueable, EnterQueue, ReleaseLease, Inv, QueueInv, QueueTypeOK
    <3>1. UNCHANGED job /\ Credited' = Credited
      BY <1>2 DEF Submit, Credited
    <3>2. \A j \in Key : Claimants(j)' = Claimants(j)
      BY <3>1 DEF Claimants, Owned
    <3>3. Shown' = Shown
      BY DEF Shown
    <3> QED
      BY <3>1, <3>2, <3>3, ClaimantKept DEF SharedStep, Shared!sharedVars
  <2> QED
    BY <1>2, <2>1, <2>2 DEF Submit
<1>3. ASSUME NEW t \in Token,
             PublishSnapshot(t) \/ OwnerForces(t) \/ \E u \in Client : BuildContext(u, t)
      PROVE  SharedStep
  <2>1. ~OwnerForces(t)
    BY DEF OwnerForces, Inv, WorkerTypeOK
  <2> QED
    BY <1>3, <2>1, <1>h DEF PublishSnapshot, BuildContext
<1>4. ASSUME NEW k \in Key, Expire(k) \/ RetryTime(k) PROVE SharedStep
  BY <1>4, <1>h DEF Expire, RetryTime, LeaseExpires, RetryComes
<1>5. CASE OwnerResumes \/ BreakerTime \/ UNCHANGED vars
  BY <1>5, <1>h DEF OwnerResumes, ResumeWorker, BreakerTime, vars
<1> QED
  BY <1>1, <1>2, <1>3, <1>4, <1>5 DEF Next

LEMMA InitRefines == Init => Shared!Init
<1> SUFFICES ASSUME Init PROVE Shared!Init
  OBVIOUS
<1>1. \A k \in Key : Claimants(k) = {}
  BY DEF Init, QueueInit, Claimants, Owned
<1>2. Claimant = [k \in Key |-> NoKey]
  BY <1>1, SoleOf DEF Claimant
<1>3. Shown = [k \in Key |-> "none"]
  BY DEF Init, QueueInit, Shown
<1>4. Credited = [c \in Consumer |-> NoKey]
  BY DEF Init, Credited
<1> QED
  BY <1>2, <1>3, <1>4 DEF Shared!Init

(* With one worker_id per claim loop and no forced re-analysis, the queue, *)
(* its leases and the workers implement the shared analysis.               *)
THEOREM Refinement == ASSUME OneIdPerLoop, MaxForces = 0 PROVE Spec => ImplementsShared
<1>1. Inv /\ [Next]_vars => [Shared!Next]_(Shared!sharedVars)
  BY NextRefines DEF SharedStep
<1> QED
  BY <1>1, InitRefines, Invariance, PTL DEF Spec, ImplementsShared, Shared!Spec

-----------------------------------------------------------------------------
(* Provider calls against attempts.  Every claim counts an attempt for a   *)
(* call or a deferral of its own, whoever owns the row by then: the loops  *)
(* that have claimed a row and not called yet have an attempt each.        *)
Uncalled == {"claimed", "checked", "permitted"}
Pending(k) == {c \in Consumer : job[c] = k /\ pc[c] \in Uncalled}

CallInv ==
    \A k \in Key : /\ IsFiniteSet(Pending(k))
                   /\ provider_attempt_count[k] + Cardinality(Pending(k)) <= attempt_count[k]

LEMMA CallHeld ==
    ASSUME QueueTypeOK, CallInv, UNCHANGED <<provider_attempt_count, attempt_count>>,
           \A k \in Key : Pending(k)' \subseteq Pending(k)
    PROVE  CallInv'
<1> SUFFICES ASSUME NEW k \in Key
             PROVE  /\ IsFiniteSet(Pending(k)')
                    /\ provider_attempt_count[k] + Cardinality(Pending(k)') <= attempt_count[k]
  BY DEF CallInv
<1>1. IsFiniteSet(Pending(k)) /\ Pending(k)' \subseteq Pending(k)
  BY DEF CallInv
<1>2. IsFiniteSet(Pending(k)') /\ Cardinality(Pending(k)') <= Cardinality(Pending(k))
  BY <1>1, FS_Subset
<1>3. Cardinality(Pending(k)') \in Nat /\ Cardinality(Pending(k)) \in Nat
  BY <1>1, <1>2, FS_CardinalityType
<1>4. provider_attempt_count[k] \in Nat /\ attempt_count[k] \in Nat
  BY DEF QueueTypeOK
<1>5. provider_attempt_count[k] + Cardinality(Pending(k)) <= attempt_count[k]
  BY DEF CallInv
<1> QED
  BY <1>2, <1>3, <1>4, <1>5

(* A step of one loop on one row.                                          *)
LEMMA CallMoved ==
    ASSUME QueueTypeOK, CallInv, NEW k \in Key,
           \A j \in Key \ {k} : /\ provider_attempt_count'[j] = provider_attempt_count[j]
                                /\ attempt_count'[j] = attempt_count[j]
                                /\ Pending(j)' \subseteq Pending(j),
           IsFiniteSet(Pending(k)'),
           provider_attempt_count'[k] + Cardinality(Pending(k)') <= attempt_count'[k]
    PROVE  CallInv'
<1> SUFFICES ASSUME NEW j \in Key \ {k}
             PROVE  /\ IsFiniteSet(Pending(j)')
                    /\ provider_attempt_count'[j] + Cardinality(Pending(j)') <= attempt_count'[j]
  BY DEF CallInv
<1>1. IsFiniteSet(Pending(j)) /\ Pending(j)' \subseteq Pending(j)
  BY DEF CallInv
<1>2. IsFiniteSet(Pending(j)') /\ Cardinality(Pending(j)') <= Cardinality(Pending(j))
  BY <1>1, FS_Subset
<1>3. Cardinality(Pending(j)') \in Nat /\ Cardinality(Pending(j)) \in Nat
  BY <1>1, <1>2, FS_CardinalityType
<1>4. provider_attempt_count[j] \in Nat /\ attempt_count[j] \in Nat
  BY DEF QueueTypeOK
<1>5. provider_attempt_count[j] + Cardinality(Pending(j)) <= attempt_count[j]
  BY DEF CallInv
<1> QED
  BY <1>2, <1>3, <1>4, <1>5

(* A loop leaves a row it has claimed by its call or by its deferral.      *)
LEMMA PendingLeft ==
    ASSUME QueueTypeOK, CallInv, NEW k \in Key, NEW c \in Pending(k),
           Pending(k)' = Pending(k) \ {c}
    PROVE  /\ IsFiniteSet(Pending(k)')
           /\ provider_attempt_count[k] + Cardinality(Pending(k)') + 1 <= attempt_count[k]
           /\ Cardinality(Pending(k)') \in Nat
<1>1. IsFiniteSet(Pending(k)) /\ Cardinality(Pending(k)) \in Nat
  BY FS_CardinalityType DEF CallInv
<1>2. IsFiniteSet(Pending(k)') /\ Cardinality(Pending(k)') = Cardinality(Pending(k)) - 1
  BY <1>1, FS_RemoveElement
<1>3. Cardinality(Pending(k)') \in Nat
  BY <1>2, FS_CardinalityType
<1>4. provider_attempt_count[k] \in Nat /\ attempt_count[k] \in Nat
  BY DEF QueueTypeOK
<1>5. provider_attempt_count[k] + Cardinality(Pending(k)) <= attempt_count[k]
  BY DEF CallInv
<1> QED
  BY <1>1, <1>2, <1>3, <1>4, <1>5

LEMMA ConsumerCalls ==
    ASSUME Inv, CallInv, NEW c \in Consumer, ConsumerStep(c) \/ Heartbeat(c) \/ Crash(c)
    PROVE  CallInv'
<1> USE QueueAssumption, WorkerAssumption DEF Inv, QueueInv, WorkerTypeOK, Goto, Uncalled, Throws
<1>n. ASSUME UNCHANGED <<provider_attempt_count, attempt_count>>,
             pc[c] \in Uncalled \/ pc'[c] \notin Uncalled,
             job' \in {job, [job EXCEPT ![c] = NoKey]},
             \A d \in Consumer \ {c} : pc'[d] = pc[d]
      PROVE  CallInv'
  BY <1>n, CallHeld DEF Pending
<1>1. CASE \/ BeginCycle(c) \/ EndCycle(c) \/ IdentityHolds(c) \/ ContextFails(c) \/ TakePermit(c)
           \/ PermitFails(c) \/ ProviderFails(c) \/ Validate(c) \/ TripBreaker(c) \/ NextClaim(c)
  BY <1>1, <1>n DEF BeginCycle, EndCycle, IdentityHolds, ContextFails, TakePermit, PermitFails,
     ProviderFails, Validate, TripBreaker, NextClaim, queueVars, rowVars, workerVars, envVars
<1>2. CASE Claim(c)
  <2> PICK k \in Key : ClaimNext(k, WorkerOf[c]) /\ job' = [job EXCEPT ![c] = k]
    BY <1>2 DEF Claim
  <2>1. c \notin Pending(k) /\ Pending(k)' = Pending(k) \cup {c}
    BY <1>2 DEF Claim, Pending
  <2>2. IsFiniteSet(Pending(k)) /\ Cardinality(Pending(k)) \in Nat
    BY FS_CardinalityType DEF CallInv
  <2>3. IsFiniteSet(Pending(k)') /\ Cardinality(Pending(k)') = Cardinality(Pending(k)) + 1
    BY <2>1, <2>2, FS_AddElement
  <2>4. provider_attempt_count'[k] + Cardinality(Pending(k)') <= attempt_count'[k]
    BY <2>2, <2>3 DEF CallInv, ClaimNext, QueueTypeOK
  <2>5. \A j \in Key \ {k} : /\ provider_attempt_count'[j] = provider_attempt_count[j]
                             /\ attempt_count'[j] = attempt_count[j]
                             /\ Pending(j)' \subseteq Pending(j)
    BY <1>2 DEF Claim, ClaimNext, Pending, QueueTypeOK
  <2> QED
    BY <2>3, <2>4, <2>5, CallMoved
<1>d. ASSUME pc[c] \in Uncalled, pc'[c] \notin Uncalled, DeferClaim(job[c], WorkerOf[c]),
             \A d \in Consumer \ {c} : pc'[d] = pc[d] /\ job'[d] = job[d]
      PROVE  CallInv'
  <2> PICK k \in Key : k = job[c]
    BY <1>d DEF Processing, Places
  <2>1. c \in Pending(k) /\ Pending(k)' = Pending(k) \ {c}
    BY <1>d DEF Pending
  <2>2. /\ IsFiniteSet(Pending(k)') /\ Cardinality(Pending(k)') \in Nat
        /\ provider_attempt_count[k] + Cardinality(Pending(k)') + 1 <= attempt_count[k]
    BY <2>1, PendingLeft
  <2>3. provider_attempt_count'[k] + Cardinality(Pending(k)') <= attempt_count'[k]
    BY <1>d, <2>2 DEF DeferClaim, QueueTypeOK
  <2>4. \A j \in Key \ {k} : /\ provider_attempt_count'[j] = provider_attempt_count[j]
                             /\ attempt_count'[j] = attempt_count[j]
                             /\ Pending(j)' \subseteq Pending(j)
    BY <1>d DEF DeferClaim, Pending, QueueTypeOK
  <2> QED
    BY <2>2, <2>3, <2>4, CallMoved
<1>3. CASE BudgetDefers(c)
  BY <1>3, <1>d, <1>n DEF BudgetDefers, Leave, queueVars, rowVars
<1>4. CASE PermitDenied(c)
  BY <1>4, <1>d, <1>n DEF PermitDenied, Leave, queueVars, rowVars
<1>5. CASE StartCall(c)
  <2>1. CASE ProviderAttemptStarted(job[c], WorkerOf[c])
    <3> PICK k \in Key : k = job[c]
      BY <1>5 DEF StartCall, Processing, Places
    <3>1. c \in Pending(k) /\ Pending(k)' = Pending(k) \ {c}
      BY <1>5 DEF StartCall, Pending
    <3>2. /\ IsFiniteSet(Pending(k)') /\ Cardinality(Pending(k)') \in Nat
          /\ provider_attempt_count[k] + Cardinality(Pending(k)') + 1 <= attempt_count[k]
      BY <3>1, PendingLeft
    <3>3. provider_attempt_count'[k] + Cardinality(Pending(k)') <= attempt_count'[k]
      BY <2>1, <3>2 DEF ProviderAttemptStarted, QueueTypeOK
    <3>4. \A j \in Key \ {k} : /\ provider_attempt_count'[j] = provider_attempt_count[j]
                               /\ attempt_count'[j] = attempt_count[j]
                               /\ Pending(j)' \subseteq Pending(j)
      BY <1>5, <2>1 DEF StartCall, ProviderAttemptStarted, Pending, QueueTypeOK
    <3> QED
      BY <3>2, <3>3, <3>4, CallMoved
  <2>2. CASE UNCHANGED queueVars
    BY <1>5, <2>2, <1>n DEF StartCall, queueVars, rowVars
  <2> QED
    BY <1>5, <2>1, <2>2 DEF StartCall
<1>6. CASE ProviderAnswers(c) \/ RecordAttemptFailed(c)
  BY <1>6, <1>n DEF ProviderAnswers, RecordAttemptFailed, ProviderAttemptEnds, queueVars, rowVars
<1>7. CASE RecordSuccess(c) \/ Suspend(c) \/ Crash(c)
  BY <1>7, <1>n DEF RecordSuccess, Suspend, SuspendWorker, Crash, Leave, queueVars, rowVars
<1>8. CASE PublishResult(c)
  BY <1>8, <1>n DEF PublishResult, Complete, queueVars, rowVars
<1>9. CASE SettleFailure(c)
  BY <1>9, <1>n DEF SettleFailure, FailJob, Leave, queueVars, rowVars
<1>10. CASE Heartbeat(c)
  BY <1>10, CallHeld DEF Heartbeat, RenewLease, Pending, workerVars
<1> QED
  BY <1>1, <1>2, <1>3, <1>4, <1>5, <1>6, <1>7, <1>8, <1>9, <1>10 DEF ConsumerStep

LEMMA CallNext == Inv /\ CallInv /\ [Next]_vars => CallInv'
<1> SUFFICES ASSUME Inv, CallInv, [Next]_vars PROVE CallInv'
  OBVIOUS
<1> USE DEF Inv, QueueInv, workerVars, envVars, queueVars, rowVars
<1>h. ASSUME UNCHANGED <<provider_attempt_count, attempt_count, job, pc>>
      PROVE  CallInv'
  BY <1>h, CallHeld DEF Pending
<1>1. ASSUME NEW c \in Consumer, ConsumerStep(c) \/ Heartbeat(c) \/ Crash(c) PROVE CallInv'
  BY <1>1, ConsumerCalls
<1>2. ASSUME NEW u \in Client, Submit(u) PROVE CallInv'
  BY <1>2, <1>h DEF Submit, EnterQueue
<1>3. ASSUME NEW t \in Token,
             PublishSnapshot(t) \/ OwnerForces(t) \/ \E u \in Client : BuildContext(u, t)
      PROVE  CallInv'
  BY <1>3, <1>h DEF PublishSnapshot, OwnerForces, EnterQueue, BuildContext
<1>4. ASSUME NEW k \in Key, Expire(k) \/ RetryTime(k) PROVE CallInv'
  BY <1>4, <1>h DEF Expire, RetryTime, LeaseExpires, RetryComes
<1>5. CASE OwnerResumes \/ BreakerTime \/ UNCHANGED vars
  BY <1>5, <1>h DEF OwnerResumes, ResumeWorker, BreakerTime, vars
<1> QED
  BY <1>1, <1>2, <1>3, <1>4, <1>5 DEF Next

(* A provider call is always covered by a counted attempt of its row, also *)
(* where the loops of a process share its worker_id: the attempt limit     *)
(* bounds spending.                                                        *)
THEOREM CallsAreCounted == Spec => []CallsCounted
<1>1. Init => CallInv
  <2> SUFFICES ASSUME Init, NEW k \in Key
               PROVE  /\ IsFiniteSet(Pending(k))
                      /\ provider_attempt_count[k] + Cardinality(Pending(k)) <= attempt_count[k]
    BY DEF CallInv
  <2>1. Pending(k) = {}
    BY DEF Init, Pending, Uncalled
  <2> QED
    BY <2>1, FS_EmptySet DEF Init, QueueInit
<1>2. Inv /\ CallInv => CallsCounted
  <2> SUFFICES ASSUME Inv, CallInv, NEW k \in Key
               PROVE  provider_attempt_count[k] <= attempt_count[k]
    BY DEF CallsCounted
  <2>1. Cardinality(Pending(k)) \in Nat
    BY FS_CardinalityType DEF CallInv
  <2> QED
    BY <2>1 DEF CallInv, Inv, QueueInv, QueueTypeOK
<1>3. Inv /\ CallInv /\ [Next]_vars => CallInv'
  BY CallNext
<1> QED
  BY <1>1, <1>2, <1>3, Invariance, PTL DEF Spec

-----------------------------------------------------------------------------
(* The last-known-good analysis.  Without forced re-analyses a row that    *)
(* has a result is a published one, and those are never taken back.        *)
ResultInv == \A k \in Key : result[k] => status[k] \in Published

(* A step that takes no result away, and leaves one published rows only.   *)
ResultsStay == (\A k \in Key : result[k] => result'[k]) /\ ResultInv'

LEMMA WorkerTransactionResults ==
    ASSUME QueueTypeOK, ResultInv, WorkerQueueStep
    PROVE  ResultsStay
<1> USE DEF QueueTypeOK, ResultInv, ResultsStay, Published, Owned
<1>1. ASSUME NEW k \in Key, NEW w \in WorkerId, WorkerTransaction(k, w)
      PROVE  ResultsStay
  <2>1. CASE ClaimNext(k, w)
    BY <2>1 DEF ClaimNext, Claimable
  <2>2. CASE RenewLease(k, w)
    BY <2>2 DEF RenewLease
  <2>3. CASE ProviderAttemptStarted(k, w)
    BY <2>3 DEF ProviderAttemptStarted
  <2>4. ASSUME NEW outcome \in {"RESPONSE_RECEIVED", "FAILED"}, ProviderAttemptEnds(k, w, outcome)
        PROVE  ResultsStay
    BY <2>4 DEF ProviderAttemptEnds
  <2>5. CASE DeferClaim(k, w)
    BY <2>5 DEF DeferClaim
  <2>6. CASE Complete(k, w)
    BY <2>6 DEF Complete
  <2>7. ASSUME NEW transient \in BOOLEAN, FailJob(k, w, transient)
        PROVE  ResultsStay
    BY <2>7 DEF FailJob
  <2> QED
    BY <1>1, <2>1, <2>2, <2>3, <2>4, <2>5, <2>6, <2>7 DEF WorkerTransaction
<1>2. CASE SuspendWorker \/ UNCHANGED queueVars
  BY <1>2 DEF SuspendWorker, queueVars, rowVars
<1> QED
  BY <1>1, <1>2 DEF WorkerQueueStep

LEMMA ResultNext ==
    ASSUME MaxForces = 0, Inv, ResultInv, [Next]_vars
    PROVE  ResultsStay
<1>0. QueueTypeOK /\ forces \in Nat
  BY DEF Inv, QueueInv, WorkerTypeOK
<1>1. ASSUME NEW c \in Consumer, ConsumerStep(c) \/ Heartbeat(c) \/ Crash(c)
      PROVE  ResultsStay
  <2>1. WorkerQueueStep
    BY <1>1, ConsumerStepShape DEF ConsumerShape, TypeOK, Inv, QueueInv, BreakerInv
  <2> QED
    BY <1>0, <2>1, WorkerTransactionResults
<1> USE <1>0 DEF QueueTypeOK, ResultInv, ResultsStay, Published
<1>2. CASE UNCHANGED <<result, status>>
  BY <1>2
<1>3. ASSUME NEW u \in Client, Submit(u) PROVE ResultsStay
  <2>1. CASE UNCHANGED queueVars
    BY <1>2, <2>1 DEF queueVars, rowVars
  <2>2. CASE Enqueueable(api[u]) /\ EnterQueue(api[u])
    BY <2>2 DEF Enqueueable, EnterQueue
  <2> QED
    BY <1>3, <2>1, <2>2 DEF Submit
<1>4. ASSUME NEW t \in Token, OwnerForces(t) PROVE ResultsStay
  BY <1>4 DEF OwnerForces
<1>5. ASSUME NEW k \in Key, Expire(k) \/ RetryTime(k) PROVE ResultsStay
  BY <1>2, <1>5 DEF Expire, LeaseExpires, RetryTime, RetryComes
<1>6. CASE \/ OwnerResumes \/ BreakerTime \/ UNCHANGED vars
           \/ \E t \in Token : PublishSnapshot(t) \/ \E u \in Client : BuildContext(u, t)
  BY <1>2, <1>6
     DEF OwnerResumes, ResumeWorker, BreakerTime, PublishSnapshot, BuildContext, vars, queueVars, rowVars
<1> QED
  BY <1>1, <1>3, <1>4, <1>5, <1>6 DEF Next

(* A token keeps its last-known-good analysis whatever its later jobs come *)
(* to, failures, takeovers and new snapshots: only complete() touches a    *)
(* published row, and it marks it STALE.  Assumed is that nobody forces a  *)
(* re-analysis, which takes the row of a published result back.            *)
THEOREM LastGoodStays == ASSUME MaxForces = 0 PROVE Spec => LastKnownGoodKept
<1>1. Init => ResultInv
  BY DEF Init, QueueInit, ResultInv
<1>2. ASSUME Inv, Inv', ResultInv, [Next]_vars
      PROVE  ResultInv' /\ [\A k \in Key : HasLastKnownGood(k) => HasLastKnownGood(k)']_vars
  <2>1. ResultsStay
    BY <1>2, ResultNext
  <2>2. \A k \in Key : result'[k] => validation'[k] = "VALID"
    BY <1>2, <2>1 DEF ResultsStay, ResultInv, Inv, QueueInv, PublishedIsValid
  <2>3. \A k \in Key : result[k] => result'[k]
    BY <2>1 DEF ResultsStay
  <2>4. \A k \in Key : HasLastKnownGood(k) => HasLastKnownGood(k)'
    BY <2>2, <2>3 DEF HasLastKnownGood
  <2> QED
    BY <2>1, <2>4 DEF ResultsStay
<1> QED
  BY <1>1, <1>2, Invariance, PTL DEF Spec, LastKnownGoodKept
=============================================================================
