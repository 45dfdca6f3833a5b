-------------------------- MODULE MCProductRecovery --------------------------
(***************************************************************************)
(* ProductRecovery for TLC: the calls whose bundle names a run of its own  *)
(* are interchangeable.                                                    *)
(***************************************************************************)
EXTENDS ProductRecovery, TLC

Calls == Permutations(Owner \ Same)
=============================================================================
