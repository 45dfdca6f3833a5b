--------------------------- MODULE MCAnalysisWorker ---------------------------
(* Instances of AnalysisWorker for TLC.                                    *)
EXTENDS AnalysisWorker, TLC

CONSTANT w1

\* One claim loop per worker process: the loop's identity is its worker_id.
OwnIds == [c \in Consumer |-> c]

\* The claim loops of one process share its worker_id.
SharedId == [c \in Consumer |-> w1]

\* Processes and fingerprints are interchangeable.
Symmetry == Permutations(Consumer) \cup Permutations(Snapshot)
=============================================================================
