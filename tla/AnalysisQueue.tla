---------------------------- MODULE AnalysisQueue ----------------------------
(***************************************************************************)
(* The shared analysis queue: table crypto_ai_analysis_queue, one row per  *)
(* cache key, and the row of crypto_ai_worker_state, with one operator per *)
(* transaction of aiResearchQueueStore.ts.  A cache key is the token and   *)
(* the fingerprint of the data snapshot it was built from (prompt, model   *)
(* and schema versions are fixed while a build runs; the locale is not     *)
(* part of the key).  A column is a function on the keys.                  *)
(*                                                                         *)
(* Time is abstracted to the comparisons the statements make: whether a    *)
(* lease has expired, whether next_retry_at has come, and which claimable  *)
(* row has the smaller COALESCE(next_retry_at, queued_at, requested_at).   *)
(***************************************************************************)
EXTENDS Naturals

CONSTANTS Token,        \* (chain, contract_address)
          Snapshot,     \* snapshot fingerprints
          WorkerId,     \* lease_owner values
          NoWorker,     \* lease_owner NULL
          MaxAttempts   \* limits.maxAttempts

ASSUME QueueAssumption == /\ NoWorker \notin WorkerId
                          /\ MaxAttempts \in Nat \ {0}

VARIABLES
    status,                   \* "ABSENT" is the missing row
    attempt_count,
    lease_owner,
    lease_expired,            \* lease_expires_at <= now
    retry_due,                \* next_retry_at IS NULL OR next_retry_at <= now
    provider_attempt_status,
    provider_attempt_count,
    result,                   \* result_json IS NOT NULL
    validation,               \* validation_status
    ahead,                    \* ahead[k]: the rows ORDER BY puts before k
    worker_suspended

rowVars == <<status, attempt_count, lease_owner, lease_expired, retry_due,
             provider_attempt_status, provider_attempt_count, result,
             validation, ahead>>
queueVars == <<rowVars, worker_suspended>>

Key == Token \X Snapshot
TokenOf(k) == k[1]
SnapshotOf(k) == k[2]

Statuses == {"ABSENT", "QUEUED", "PROCESSING", "READY", "STALE", "FAILED", "SUSPENDED"}
Published == {"READY", "STALE"}

QueueTypeOK ==
    /\ status \in [Key -> Statuses]
    /\ attempt_count \in [Key -> Nat]
    /\ lease_owner \in [Key -> WorkerId \cup {NoWorker}]
    /\ lease_expired \in [Key -> BOOLEAN]
    /\ retry_due \in [Key -> BOOLEAN]
    /\ provider_attempt_status \in [Key -> {"NOT_ATTEMPTED", "STARTED", "RESPONSE_RECEIVED", "FAILED"}]
    /\ provider_attempt_count \in [Key -> Nat]
    /\ result \in [Key -> BOOLEAN]
    /\ validation \in [Key -> {"PENDING", "VALID", "INVALID"}]
    /\ ahead \in [Key -> SUBSET Key]
    /\ worker_suspended \in BOOLEAN

QueueInit ==
    /\ status = [k \in Key |-> "ABSENT"]
    /\ attempt_count = [k \in Key |-> 0]
    /\ lease_owner = [k \in Key |-> NoWorker]
    /\ lease_expired = [k \in Key |-> FALSE]
    /\ retry_due = [k \in Key |-> TRUE]
    /\ provider_attempt_status = [k \in Key |-> "NOT_ATTEMPTED"]
    /\ provider_attempt_count = [k \in Key |-> 0]
    /\ result = [k \in Key |-> FALSE]
    /\ validation = [k \in Key |-> "PENDING"]
    /\ ahead = [k \in Key |-> {}]
    /\ worker_suspended = FALSE

(* Mutant of Owned: an UPDATE without AND lease_owner = ?.                 *)
HeldByAnyone(k, w) == status[k] = "PROCESSING"

Owned(k, w) == status[k] = "PROCESSING" /\ lease_owner[k] = w

(* k gets the newest sort timestamp: it goes behind every other row.       *)
Behind(k) == [j \in Key |-> IF j = k THEN Key \ {k} ELSE ahead[j] \ {k}]

(* Mutant of ReleaseLease: lease_owner is not set to NULL.                 *)
ReleaseExpiryOnly(k) ==
    /\ lease_expired' = [lease_expired EXCEPT ![k] = FALSE]
    /\ UNCHANGED lease_owner

(* The lease is given up together with the PROCESSING status.              *)
ReleaseLease(k) ==
    /\ lease_owner' = [lease_owner EXCEPT ![k] = NoWorker]
    /\ lease_expired' = [lease_expired EXCEPT ![k] = FALSE]

-----------------------------------------------------------------------------
(* findLastKnownGood: the row's own result, else a VALID one of the token. *)
HasLastKnownGood(k) ==
    \/ result[k]
    \/ \E j \in Key : TokenOf(j) = TokenOf(k) /\ result[j] /\ validation[j] = "VALID"

(* enqueue takes the existing row back to QUEUED or inserts it; the        *)
(* attempt counter and the stored result are left as they are.             *)
EnterQueue(k) ==
    /\ status' = [status EXCEPT ![k] = "QUEUED"]
    /\ ReleaseLease(k)
    /\ retry_due' = [retry_due EXCEPT ![k] = TRUE]
    /\ validation' = [validation EXCEPT ![k] = "PENDING"]
    /\ ahead' = Behind(k)
    /\ UNCHANGED <<attempt_count, provider_attempt_status, provider_attempt_count,
                   result, worker_suspended>>

(* Mutant of Enqueueable: published rows are queued again without force.   *)
EnqueueableAgain(k) == status[k] \notin {"QUEUED", "PROCESSING"}

(* enqueue without force: only a missing row, or a FAILED one whose retry  *)
(* time and cooldown have passed, is queued; every other status answers    *)
(* READY, ALREADY_EXISTS, SUSPENDED or COOLDOWN and changes nothing.       *)
Enqueueable(k) == status[k] = "ABSENT" \/ (status[k] = "FAILED" /\ retry_due[k])

(* Mutant of Claimable: expired claims are not offered again.              *)
ClaimableUnheld(k) == status[k] \in {"QUEUED", "FAILED"} /\ retry_due[k]

(* claimNext: the first claimable row, an expired claim included.          *)
Claimable(k) == \/ status[k] \in {"QUEUED", "FAILED"} /\ retry_due[k]
                \/ status[k] = "PROCESSING" /\ lease_expired[k]

(* Mutant of ClaimNext: a takeover is not counted as an attempt.           *)
ClaimNextUncounted(k, w) ==
    /\ Claimable(k)
    /\ \A j \in ahead[k] : ~Claimable(j)
    /\ status' = [status EXCEPT ![k] = "PROCESSING"]
    /\ attempt_count' = [attempt_count EXCEPT ![k] = IF status[k] = "PROCESSING" THEN @ ELSE @ + 1]
    /\ lease_owner' = [lease_owner EXCEPT ![k] = w]
    /\ lease_expired' = [lease_expired EXCEPT ![k] = FALSE]
    /\ UNCHANGED <<retry_due, provider_attempt_status, provider_attempt_count,
                   result, validation, ahead, worker_suspended>>

ClaimNext(k, w) ==
    /\ Claimable(k)
    /\ \A j \in ahead[k] : ~Claimable(j)
    /\ status' = [status EXCEPT ![k] = "PROCESSING"]
    /\ attempt_count' = [attempt_count EXCEPT ![k] = @ + 1]
    /\ lease_owner' = [lease_owner EXCEPT ![k] = w]
    /\ lease_expired' = [lease_expired EXCEPT ![k] = FALSE]
    /\ UNCHANGED <<retry_due, provider_attempt_status, provider_attempt_count,
                   result, validation, ahead, worker_suspended>>

(* renewLease asks for ownership only, not for an unexpired lease.         *)
RenewLease(k, w) ==
    /\ Owned(k, w)
    /\ lease_expired' = [lease_expired EXCEPT ![k] = FALSE]
    /\ UNCHANGED <<status, attempt_count, lease_owner, retry_due, provider_attempt_status,
                   provider_attempt_count, result, validation, ahead, worker_suspended>>

ProviderAttemptStarted(k, w) ==
    /\ Owned(k, w)
    /\ provider_attempt_count' = [provider_attempt_count EXCEPT ![k] = @ + 1]
    /\ provider_attempt_status' = [provider_attempt_status EXCEPT ![k] = "STARTED"]
    /\ UNCHANGED <<status, attempt_count, lease_owner, lease_expired, retry_due,
                   result, validation, ahead, worker_suspended>>

AttemptOpen(k, w) == Owned(k, w) /\ provider_attempt_status[k] = "STARTED"

(* recordProviderResponseReceived and recordProviderAttemptFailed.         *)
ProviderAttemptEnds(k, w, outcome) ==
    /\ AttemptOpen(k, w)
    /\ provider_attempt_status' = [provider_attempt_status EXCEPT ![k] = outcome]
    /\ UNCHANGED <<status, attempt_count, lease_owner, lease_expired, retry_due,
                   provider_attempt_count, result, validation, ahead, worker_suspended>>

(* deferClaim: back to QUEUED with a retry time, the attempt is not counted.*)
DeferClaim(k, w) ==
    /\ Owned(k, w)
    /\ status' = [status EXCEPT ![k] = "QUEUED"]
    /\ attempt_count' = [attempt_count EXCEPT ![k] = IF @ > 0 THEN @ - 1 ELSE 0]
    /\ retry_due' = [retry_due EXCEPT ![k] = FALSE]
    /\ ReleaseLease(k)
    /\ UNCHANGED <<provider_attempt_status, provider_attempt_count, result,
                   validation, ahead, worker_suspended>>

(* Mutants of Complete: without the UPDATE of the superseded rows, and     *)
(* without validation_status.                                              *)
CompleteOnly(k, w) ==
    /\ Owned(k, w)
    /\ status' = [status EXCEPT ![k] = "READY"]
    /\ result' = [result EXCEPT ![k] = TRUE]
    /\ validation' = [validation EXCEPT ![k] = "VALID"]
    /\ retry_due' = [retry_due EXCEPT ![k] = TRUE]
    /\ ReleaseLease(k)
    /\ UNCHANGED <<attempt_count, provider_attempt_status, provider_attempt_count,
                   ahead, worker_suspended>>

CompleteUnvalidated(k, w) ==
    /\ Owned(k, w)
    /\ status' = [status EXCEPT ![k] = "READY"]
    /\ result' = [result EXCEPT ![k] = TRUE]
    /\ ReleaseLease(k)
    /\ UNCHANGED <<attempt_count, retry_due, provider_attempt_status, provider_attempt_count,
                   validation, ahead, worker_suspended>>

(* complete: every other READY row of the token becomes STALE in the same  *)
(* transaction that publishes the owner's result.                          *)
Complete(k, w) ==
    /\ Owned(k, w)
    /\ status' = [j \in Key |->
                    IF j = k THEN "READY"
                    ELSE IF TokenOf(j) = TokenOf(k) /\ status[j] = "READY" THEN "STALE"
                    ELSE status[j]]
    /\ result' = [result EXCEPT ![k] = TRUE]
    /\ validation' = [validation EXCEPT ![k] = "VALID"]
    /\ retry_due' = [retry_due EXCEPT ![k] = TRUE]
    /\ ReleaseLease(k)
    /\ UNCHANGED <<attempt_count, provider_attempt_status, provider_attempt_count,
                   ahead, worker_suspended>>

(* Mutant of Retryable: one attempt too many.                              *)
RetryableAtLimit(k, transient) == transient /\ attempt_count[k] <= MaxAttempts

(* fail: a transient failure below the attempt limit is retried later,     *)
(* any other one suspends the job.                                         *)
Retryable(k, transient) == transient /\ attempt_count[k] < MaxAttempts

FailJob(k, w, transient) ==
    /\ Owned(k, w)
    /\ status' = [status EXCEPT ![k] = IF Retryable(k, transient) THEN "FAILED" ELSE "SUSPENDED"]
    /\ retry_due' = [retry_due EXCEPT ![k] = ~Retryable(k, transient)]
    /\ validation' = [validation EXCEPT ![k] = IF transient THEN "PENDING" ELSE "INVALID"]
    /\ ReleaseLease(k)
    /\ UNCHANGED <<attempt_count, provider_attempt_status, provider_attempt_count,
                   result, ahead, worker_suspended>>

SuspendWorker == worker_suspended' = TRUE /\ UNCHANGED rowVars
ResumeWorker  == worker_suspended /\ worker_suspended' = FALSE /\ UNCHANGED rowVars

-----------------------------------------------------------------------------
(* The clock: a lease runs out, a retry time comes (the row then sorts     *)
(* behind the rows that were claimable before it).                         *)
LeaseExpires(k) ==
    /\ status[k] = "PROCESSING"
    /\ ~lease_expired[k]
    /\ lease_expired' = [lease_expired EXCEPT ![k] = TRUE]
    /\ UNCHANGED <<status, attempt_count, lease_owner, retry_due, provider_attempt_status,
                   provider_attempt_count, result, validation, ahead, worker_suspended>>

RetryComes(k) ==
    /\ status[k] \in {"QUEUED", "FAILED"}
    /\ ~retry_due[k]
    /\ retry_due' = [retry_due EXCEPT ![k] = TRUE]
    /\ ahead' = Behind(k)
    /\ UNCHANGED <<status, attempt_count, lease_owner, lease_expired, provider_attempt_status,
                   provider_attempt_count, result, validation, worker_suspended>>

-----------------------------------------------------------------------------
(* The transactions a worker runs on the row it claims or claimed.         *)
WorkerTransaction(k, w) ==
    \/ ClaimNext(k, w) \/ RenewLease(k, w) \/ ProviderAttemptStarted(k, w)
    \/ \E outcome \in {"RESPONSE_RECEIVED", "FAILED"} : ProviderAttemptEnds(k, w, outcome)
    \/ DeferClaim(k, w) \/ Complete(k, w)
    \/ \E transient \in BOOLEAN : FailJob(k, w, transient)

QueueNext ==
    \/ \E k \in Key : \/ EnterQueue(k) \/ LeaseExpires(k) \/ RetryComes(k)
                      \/ \E w \in WorkerId : WorkerTransaction(k, w)
    \/ SuspendWorker \/ ResumeWorker
=============================================================================
