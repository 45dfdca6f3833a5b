---------------------------- MODULE SharedAnalysis ----------------------------
(***************************************************************************)
(* What the shared analysis queue promises to the product, without leases, *)
(* retries, attempts, breaker or time: one worker at a time may publish a  *)
(* job, a newer claim ends the right of the older one, a worker goes on as *)
(* having published only what it had the right to publish, a token shows   *)
(* at most one current analysis, and a published analysis is only ever     *)
(* superseded, never withdrawn.                                            *)
(***************************************************************************)
CONSTANTS Key, TokenOf(_), Worker, Nobody

VARIABLES claimant,     \* the worker that may publish the analysis
          shown,        \* "none", "current" or "superseded"
          credited      \* the job a worker has just published

sharedVars == <<claimant, shown, credited>>

Init == /\ claimant = [k \in Key |-> Nobody]
        /\ shown = [k \in Key |-> "none"]
        /\ credited = [w \in Worker |-> Nobody]

(* A worker takes a job, from another one if that one lost its lease.      *)
Take(k, w) ==
    /\ shown[k] = "none"
    /\ claimant' = [claimant EXCEPT ![k] = w]
    /\ UNCHANGED <<shown, credited>>

(* The claimant gives up, fails or dies.                                   *)
Drop(k) ==
    /\ claimant' = [claimant EXCEPT ![k] = Nobody]
    /\ UNCHANGED <<shown, credited>>

Publish(k, w) ==
    /\ claimant[k] = w
    /\ claimant' = [claimant EXCEPT ![k] = Nobody]
    /\ shown' = [j \in Key |->
                   IF j = k THEN "current"
                   ELSE IF TokenOf(j) = TokenOf(k) /\ shown[j] = "current" THEN "superseded"
                   ELSE shown[j]]
    /\ credited' = [credited EXCEPT ![w] = k]

(* A worker has done what follows its publication, or dies before.         *)
Report(w) ==
    /\ credited' = [credited EXCEPT ![w] = Nobody]
    /\ UNCHANGED <<claimant, shown>>

Next ==
    \/ \E k \in Key : Drop(k) \/ \E w \in Worker : Take(k, w) \/ Publish(k, w)
    \/ \E w \in Worker : Report(w)

Spec == Init /\ [][Next]_sharedVars
=============================================================================
