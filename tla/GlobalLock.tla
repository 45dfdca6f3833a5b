----------------------------- MODULE GlobalLock -----------------------------
(***************************************************************************)
(* What the collector's global lock promises to those who run cycles and   *)
(* rollbacks: nobody comes to hold it while another one does.  How a lock  *)
(* is found stale, moved and put back is left to who implements it, and so *)
(* is who else tries and fails.                                            *)
(***************************************************************************)
CONSTANT Client

VARIABLE holders    \* those who go by holding the lock

Init == holders = {}

Take(c) == holders = {} /\ holders' = {c}

(* By its release, by a failure or by a crash.                             *)
Leave(c) == c \in holders /\ holders' = holders \ {c}

Next == \E c \in Client : Take(c) \/ Leave(c)

Spec == Init /\ [][Next]_holders
=============================================================================
