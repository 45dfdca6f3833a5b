---------------------------- MODULE FollowUpBasket ----------------------------
(***************************************************************************)
(* An entry of the follow-up store, followUpBasket.ts: how an observation, *)
(* a recheck and a change of the established universe move it.  Its        *)
(* checkpoints (1, 3, 7, 14 and 30 days after it was first seen) are the   *)
(* numbers 1..Checkpoints, its age is how many of them have come, and the  *)
(* completed ones are those up to done.  Market data, security details but *)
(* whether they let a promotion pass, and the audit log are left out.      *)
(***************************************************************************)
EXTENDS Naturals

CONSTANT Checkpoints

ASSUME CheckpointsAssumption == Checkpoints \in Nat \ {0}

Age == 0..Checkpoints

Lifecycle == {"NEW", "MATURING", "CANDIDATE", "ESTABLISHED", "ARCHIVED"}

Entry == [status: Lifecycle,
          by: {"system", "owner"},      \* who put it into the basket
          done: Age,                    \* completed_checkpoints
          next: Age,                    \* the checkpoint of next_check_at, 0 for null
          passed: BOOLEAN,              \* latest_filter_result
          secure: BOOLEAN,              \* whether the security status is CHECKED
          since: BOOLEAN]               \* whether candidate_since is set

Watched == {"NEW", "MATURING"}

(* ingestFollowUpObservations of a token that has no entry.  Its security  *)
(* status is not looked at before a recheck has set it.                    *)
Ingested(who, isEstablished, passes) ==
    [status |-> IF isEstablished THEN "ESTABLISHED" ELSE "NEW", by |-> who,
     done |-> 0, next |-> IF isEstablished THEN 0 ELSE 1,
     passed |-> passes, secure |-> FALSE, since |-> FALSE]

(* selectDueFollowUpEntries.                                               *)
Due(e, age) == e.status \in Watched /\ e.next \in 1..age

(* Mutant of FutureCheckpoint: the plan has no end.                        *)
FutureCheckpointAlways(status, age) == IF status \in Watched THEN age + 1 ELSE 0

(* nextFutureCheckpoint: one that has come is never chosen, completed or   *)
(* not; after the last one there is none.                                  *)
FutureCheckpoint(status, age) == IF status \in Watched /\ age < Checkpoints THEN age + 1 ELSE 0

(* resolveNonEstablishedLifecycle.                                         *)
Unestablished(e, age) ==
    IF e.passed /\ e.since THEN "CANDIDATE"
    ELSE IF e.done = Checkpoints THEN "ARCHIVED"
    ELSE IF age = 0 THEN "NEW" ELSE "MATURING"

(* synchronizeFollowUpEstablishedMembership.                               *)
Synced(e, age, isEstablished) ==
    LET status == IF isEstablished THEN "ESTABLISHED" ELSE Unestablished(e, age)
    IN  IF status = e.status THEN e
        ELSE [e EXCEPT !.status = status, !.next = FutureCheckpoint(status, age)]

(* applyFollowUpRecheckSuccess: every checkpoint that has come is done.    *)
Rechecked(e, age, isEstablished, passes, isSecure) ==
    LET status == IF isEstablished THEN "ESTABLISHED"
                  ELSE IF passes THEN "CANDIDATE"
                  ELSE IF age = Checkpoints THEN "ARCHIVED" ELSE "MATURING"
    IN  [e EXCEPT !.status = status, !.done = age, !.next = FutureCheckpoint(status, age),
                  !.passed = passes, !.secure = isSecure,
                  !.since = @ \/ status = "CANDIDATE"]

(* evaluateFollowUpToMainRadar, but for the cycle of the recheck and the   *)
(* latest manual verification.                                             *)
Promotable(e) == e.status = "CANDIDATE" /\ e.done = Checkpoints /\ e.passed /\ e.secure
=============================================================================
