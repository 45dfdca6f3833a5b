------------------------ MODULE ProductRecovery_proofs ------------------------
(***************************************************************************)
(* Proofs about productRecovery.ts: one operation at a time works on the   *)
(* product, a restore that reports success has put its whole bundle in     *)
(* place, and a mixture keeps every later operation out, for any number of *)
(* calls in any order, groups, crashes and failing steps.                  *)
(***************************************************************************)
EXTENDS ProductRecovery, TLAPS

(* Where the group counter of a call stands at each place.                 *)
Counted(o) ==
    /\ pc[o] \in {"copying", "journalling", "puttingBack"} => next[o] > 1
    /\ pc[o] \in {"hashing", "staging"} => next[o] = 1
    /\ pc[o] \in {"settingAside", "placing"} => next[o] <= Groups
    /\ pc[o] = "verifying" => next[o] = Groups + 1
CountInv == \A o \in Owner : Counted(o)

(* A call at work holds the lock.                                          *)
LockInv == \A o \in Owner : Working(o) => lock = o

(* The groups a restore has passed carry its bundle.                       *)
Publishing(o) == pc[o] \in {"settingAside", "placing", "journalling", "verifying"}
Passed(o) ==
    /\ \A s \in Data : s < next[o] => target[s].base = o
    /\ next[o] > 1 => Exists(RunOf(o))
PublishInv == \A o \in Owner : Publishing(o) => Passed(o)

(* A backup never gets past the bundle it publishes.                       *)
RoleInv == \A o \in Owner : role[o] = "backup" =>
    pc[o] \notin {"hashing", "staging", "settingAside", "placing", "journalling", "verifying",
                  "undoing", "puttingBack", "closing"}

(* While no call has touched the data, or a call has only the lock left to *)
(* give back, the data is clean, and every hash a restore compares with was*)
(* taken of clean data: unless the maintenance state closes the product.   *)
Untouched == {"inventory", "copying", "hashing", "releasing"}
Settled == lock = None \/ \E o \in Owner : lock = o /\ pc[o] \in Untouched
Clean == Whole(target) /\ ~Dangling
HashesWhole == \A o \in Owner : Whole(before[o])
ClosedInv == ~maintenance /\ ~unguarded => HashesWhole /\ (Settled => Clean)

IInv == TypeOK /\ CountInv /\ LockInv /\ PublishInv /\ RoleInv /\ ClosedInv

(* The counter's place is kept by every step.                              *)
LEMMA CountStep ==
    ASSUME TypeOK, CountInv, [Next]_vars
    PROVE  CountInv'
PROOF
<1>types. /\ pc \in [Owner -> Places] /\ next \in [Owner -> 1..Groups + 1]
          /\ journal \in [Owner -> [status: Statuses, logged: 0..Groups]]
          /\ Groups \in Nat /\ Groups >= 2
  BY RecoveryAssumption DEF TypeOK
<1> USE DEF CountInv, Counted, Group, Data
<1>1. ASSUME NEW o \in Owner, NEW r \in {"backup", "restore"}, BeginCall(o, r)
     PROVE  CountInv'
  BY <1>1, <1>types DEF BeginCall, Goto
<1>2. ASSUME NEW o \in Owner, BeginRecovery(o)
     PROVE  CountInv'
  BY <1>2, <1>types DEF BeginRecovery, Recoverable, Goto
<1>3. ASSUME NEW o \in Owner, AskMaintenance(o)
     PROVE  CountInv'
  BY <1>3, <1>types DEF AskMaintenance, NotLocked, Goto, callVars
<1>4. ASSUME NEW o \in Owner, OpenLock(o)
     PROVE  CountInv'
  BY <1>4, <1>types DEF OpenLock, NotLocked, Goto, callVars
<1>5. ASSUME NEW o \in Owner, TakeInventory(o)
     PROVE  CountInv'
  BY <1>5, <1>types DEF TakeInventory, FailurePlace, Goto, callVars, InventoryPasses
<1>6. ASSUME NEW o \in Owner, CopyStore(o)
     PROVE  CountInv'
  BY <1>6, <1>types DEF CopyStore, callVars
<1>7. ASSUME NEW o \in Owner, PublishBundle(o)
     PROVE  CountInv'
  BY <1>7, <1>types DEF PublishBundle, Goto, callVars
<1>8. ASSUME NEW o \in Owner, HashBefore(o)
     PROVE  CountInv'
  BY <1>8, <1>types DEF HashBefore, Goto, callVars
<1>9. ASSUME NEW o \in Owner, OpenJournal(o)
     PROVE  CountInv'
  BY <1>9, <1>types DEF OpenJournal, Goto, callVars
<1>10. ASSUME NEW o \in Owner, SetAside(o)
     PROVE  CountInv'
  BY <1>10, <1>types DEF SetAside, Goto, callVars
<1>11. ASSUME NEW o \in Owner, PlaceStaged(o)
     PROVE  CountInv'
  BY <1>11, <1>types DEF PlaceStaged, Goto, callVars
<1>12. ASSUME NEW o \in Owner, WriteJournal(o)
     PROVE  CountInv'
  BY <1>12, <1>types DEF WriteJournal, Goto, callVars
<1>13. ASSUME NEW o \in Owner, Verify(o)
     PROVE  CountInv'
  BY <1>13, <1>types DEF Verify, Goto, callVars
<1>14. ASSUME NEW o \in Owner, TakeDown(o)
     PROVE  CountInv'
  BY <1>14, <1>types DEF TakeDown, Undone, Goto, callVars
<1>15. ASSUME NEW o \in Owner, PutBack(o)
     PROVE  CountInv'
  BY <1>15, <1>types DEF PutBack, Undone, Goto, callVars
<1>16. ASSUME NEW o \in Owner, Refill(o)
     PROVE  CountInv'
  BY <1>16, <1>types DEF Refill, Refillable, callVars
<1>17. ASSUME NEW o \in Owner, RolledBack(o)
     PROVE  CountInv'
  BY <1>17, <1>types DEF RolledBack, Goto, callVars
<1>18. ASSUME NEW o \in Owner, Close(o)
     PROVE  CountInv'
  BY <1>18, <1>types DEF Close, Goto, callVars
<1>19. ASSUME NEW o \in Owner, Release(o)
     PROVE  CountInv'
  BY <1>19, <1>types DEF Release, Goto, callVars
<1>20. ASSUME NEW o \in Owner, StepFails(o)
     PROVE  CountInv'
  <2>1. CASE LockFails(o)
    BY <1>20, <1>types, <2>1 DEF LockFails, NotLocked, Goto, callVars
  <2>2. CASE CallFails(o)
    BY <1>20, <1>types, <2>2 DEF CallFails, FailurePlace, Goto, callVars
  <2>3. QED
    BY <1>20, <2>1, <2>2 DEF StepFails
<1>21. ASSUME NEW o \in Owner, Crash(o)
     PROVE  CountInv'
  BY <1>21, <1>types DEF Crash, callVars
<1>22. ASSUME NEW s \in Data, Edit(s)
     PROVE  CountInv'
  BY <1>22, <1>types DEF Edit, callVars
<1>23. ASSUME ClearLock
     PROVE  CountInv'
  BY <1>23, <1>types DEF ClearLock, callVars
<1>24. ASSUME UNCHANGED vars
     PROVE  CountInv'
  BY <1>24, <1>types DEF vars, callVars
<1>25. QED
  BY <1>1, <1>2, <1>3, <1>4, <1>5, <1>6, <1>7, <1>8, <1>9, <1>10, <1>11, <1>12, <1>13, <1>14,
     <1>15, <1>16, <1>17, <1>18, <1>19, <1>20, <1>21, <1>22, <1>23, <1>24 DEF Next, Run, Backup,
     Restore, Rollback

(* A call gets to work by creating the lock, which only it or, once it is  *)
(* dead, the owner removes.                                                *)
LEMMA LockStep ==
    ASSUME TypeOK, LockInv, [Next]_vars
    PROVE  LockInv'
PROOF
<1>types. pc \in [Owner -> Places] /\ None \notin Owner /\ Left \notin Owner
  BY RecoveryAssumption DEF TypeOK
<1> USE DEF LockInv, Working, Before, Ended
<1>1. ASSUME NEW o \in Owner, NEW r \in {"backup", "restore"}, BeginCall(o, r)
     PROVE  LockInv'
  BY <1>1, <1>types DEF BeginCall, Goto
<1>2. ASSUME NEW o \in Owner, BeginRecovery(o)
     PROVE  LockInv'
  BY <1>2, <1>types DEF BeginRecovery, Recoverable, Goto
<1>3. ASSUME NEW o \in Owner, AskMaintenance(o)
     PROVE  LockInv'
  BY <1>3, <1>types DEF AskMaintenance, NotLocked, Goto, callVars
<1>4. ASSUME NEW o \in Owner, OpenLock(o)
     PROVE  LockInv'
  BY <1>4, <1>types DEF OpenLock, NotLocked, Goto, callVars
<1>5. ASSUME NEW o \in Owner, TakeInventory(o)
     PROVE  LockInv'
  BY <1>5, <1>types DEF TakeInventory, FailurePlace, Goto, callVars
<1>6. ASSUME NEW o \in Owner, CopyStore(o)
     PROVE  LockInv'
  BY <1>6, <1>types DEF CopyStore, callVars
<1>7. ASSUME NEW o \in Owner, PublishBundle(o)
     PROVE  LockInv'
  BY <1>7, <1>types DEF PublishBundle, Goto, callVars
<1>8. ASSUME NEW o \in Owner, HashBefore(o)
     PROVE  LockInv'
  BY <1>8, <1>types DEF HashBefore, Goto, callVars
<1>9. ASSUME NEW o \in Owner, OpenJournal(o)
     PROVE  LockInv'
  BY <1>9, <1>types DEF OpenJournal, Goto, callVars
<1>10. ASSUME NEW o \in Owner, SetAside(o)
     PROVE  LockInv'
  BY <1>10, <1>types DEF SetAside, Goto, callVars
<1>11. ASSUME NEW o \in Owner, PlaceStaged(o)
     PROVE  LockInv'
  BY <1>11, <1>types DEF PlaceStaged, Goto, callVars
<1>12. ASSUME NEW o \in Owner, WriteJournal(o)
     PROVE  LockInv'
  BY <1>12, <1>types DEF WriteJournal, Goto, callVars
<1>13. ASSUME NEW o \in Owner, Verify(o)
     PROVE  LockInv'
  BY <1>13, <1>types DEF Verify, Goto, callVars
<1>14. ASSUME NEW o \in Owner, TakeDown(o)
     PROVE  LockInv'
  BY <1>14, <1>types DEF TakeDown, Undone, Goto, callVars
<1>15. ASSUME NEW o \in Owner, PutBack(o)
     PROVE  LockInv'
  BY <1>15, <1>types DEF PutBack, Undone, Goto, callVars
<1>16. ASSUME NEW o \in Owner, Refill(o)
     PROVE  LockInv'
  BY <1>16, <1>types DEF Refill, Refillable, callVars
<1>17. ASSUME NEW o \in Owner, RolledBack(o)
     PROVE  LockInv'
  BY <1>17, <1>types DEF RolledBack, Goto, callVars
<1>18. ASSUME NEW o \in Owner, Close(o)
     PROVE  LockInv'
  BY <1>18, <1>types DEF Close, Goto, callVars
<1>19. ASSUME NEW o \in Owner, Release(o)
     PROVE  LockInv'
  BY <1>19, <1>types DEF Release, Goto, callVars
<1>20. ASSUME NEW o \in Owner, StepFails(o)
     PROVE  LockInv'
  <2>1. CASE LockFails(o)
    BY <1>20, <1>types, <2>1 DEF LockFails, NotLocked, Goto, callVars
  <2>2. CASE CallFails(o)
    <3>1. pc' = [pc EXCEPT ![o] = pc'[o]] /\ UNCHANGED lock
      BY <1>types, <2>2 DEF CallFails, Goto
    <3>2. Working(o)' => Working(o)
      BY <1>types, <2>2 DEF CallFails, FailurePlace, Goto
    <3>3. QED
      BY <1>types, <3>1, <3>2
  <2>3. QED
    BY <1>20, <2>1, <2>2 DEF StepFails
<1>21. ASSUME NEW o \in Owner, Crash(o)
     PROVE  LockInv'
  BY <1>21, <1>types DEF Crash, callVars
<1>22. ASSUME NEW s \in Data, Edit(s)
     PROVE  LockInv'
  BY <1>22, <1>types DEF Edit, callVars
<1>23. ASSUME ClearLock
     PROVE  LockInv'
  BY <1>23, <1>types DEF ClearLock, callVars
<1>24. ASSUME UNCHANGED vars
     PROVE  LockInv'
  BY <1>24, <1>types DEF vars, callVars
<1>25. QED
  BY <1>1, <1>2, <1>3, <1>4, <1>5, <1>6, <1>7, <1>8, <1>9, <1>10, <1>11, <1>12, <1>13, <1>14,
     <1>15, <1>16, <1>17, <1>18, <1>19, <1>20, <1>21, <1>22, <1>23, <1>24 DEF Next, Run, Backup,
     Restore, Rollback

(* The contents a file may have.                                           *)
LEMMA Contents ==
    /\ Missing \in Content
    /\ \A b \in Owner \cup {Kept} : File(b) \in Content
    /\ \A c \in Content, x \in BOOLEAN : [c EXCEPT !.vacuumed = x] \in Content
PROOF
<1>1. 0 \in 0..MaxEdits
  BY RecoveryAssumption
<1>2. QED
  BY <1>1 DEF Content, File, Missing

(* The stores and the snapshots have different paths.                      *)
LEMMA Paths ==
    /\ Data \subseteq Path
    /\ \A b \in Owner \cup {Kept} : RunOf(b) \in Owner \cup {Kept} /\ RunOf(b) \in Path \ Data
    /\ \A o \in Owner, g \in Nat : PathOf(o, g) \in Path
  BY RecoveryAssumption DEF Path, RunOf, PathOf

(* One file of a payload is replaced.                                      *)
LEMMA FileReplaced ==
    ASSUME NEW f \in [Owner -> [Path -> Content]],
           NEW o \in Owner, NEW p \in Path, NEW c \in Content
    PROVE  [f EXCEPT ![o][p] = c] \in [Owner -> [Path -> Content]]
  OBVIOUS

LEMMA TargetReplaced ==
    ASSUME NEW s, NEW c \in Content, target \in [Path -> Content]
    PROVE  [target EXCEPT ![s] = c] \in [Path -> Content]
  OBVIOUS

(* Every step keeps the types.                                             *)
LEMMA TypeStep ==
    ASSUME TypeOK, CountInv, [Next]_vars
    PROVE  TypeOK'
PROOF
<1> USE RecoveryAssumption DEF Data, Pointer
<1>file. target \in [Path -> Content]
  BY DEF TypeOK
<1>work. /\ before \in [Owner -> [Path -> Content]]
         /\ previous \in [Owner -> [Path -> Content]]
         /\ copies \in [Owner -> [Path -> Content]]
  BY DEF TypeOK
<1>log. journal \in [Owner -> [status: Statuses, logged: 0..Groups]]
  BY DEF TypeOK
<1>place. pc \in [Owner -> Places]
  BY DEF TypeOK
<1>call. /\ role \in [Owner -> {"none", "backup", "restore", "recover"}]
         /\ of \in [Owner -> Owner]
  BY DEF TypeOK
<1>next. next \in [Owner -> 1..Groups + 1]
  BY DEF TypeOK
<1>count. /\ edits \in 0..MaxEdits /\ faults \in 0..MaxFaults
  BY DEF TypeOK
<1>set. lock \in Owner \cup {None, Left} /\ ready \subseteq Owner /\ maintenance \in BOOLEAN
        /\ unguarded \in BOOLEAN
  BY DEF TypeOK
<1>counted. \A o \in Owner : Counted(o)
  BY DEF CountInv
<1>1. ASSUME NEW o \in Owner, NEW r \in {"backup", "restore"}, BeginCall(o, r)
     PROVE  TypeOK'
  <2>1. pc' \in [Owner -> Places]
    BY <1>1, <1>place
    DEF BeginCall, Goto, bundleVars, workVars, callVars, countVars, Places, Before, Ended
  <2>2. role' \in [Owner -> {"none", "backup", "restore", "recover"}]
    BY <1>1, <1>call DEF BeginCall, Goto, bundleVars, workVars, countVars
  <2>3. QED
    BY <1>1, <2>1, <2>2 DEF TypeOK, BeginCall, Goto, bundleVars, workVars, callVars, countVars
<1>2. ASSUME NEW o \in Owner, BeginRecovery(o)
     PROVE  TypeOK'
  <2>1. pc' \in [Owner -> Places]
    BY <1>2, <1>place
    DEF BeginRecovery, Recoverable, Goto, bundleVars, workVars, callVars, countVars, Places,
        Before, Ended
  <2>2. role' \in [Owner -> {"none", "backup", "restore", "recover"}]
    BY <1>2, <1>call DEF BeginRecovery, Recoverable, Goto, bundleVars, workVars,
       countVars
  <2>3. of' \in [Owner -> Owner]
    BY <1>2, <1>call DEF BeginRecovery, Recoverable, Goto, bundleVars, workVars,
       countVars
  <2>4. next' \in [Owner -> 1..Groups + 1]
    BY <1>2, <1>next, <1>log, <1>counted DEF BeginRecovery, Recoverable, Goto,
       bundleVars, workVars, countVars, Counted
  <2>5. QED
    BY <1>2, <2>1, <2>2, <2>3, <2>4
    DEF TypeOK, BeginRecovery, Recoverable, Goto, bundleVars, workVars, callVars, countVars
<1>3. ASSUME NEW o \in Owner, AskMaintenance(o)
     PROVE  TypeOK'
  <2>1. pc' \in [Owner -> Places]
    BY <1>3, <1>place
    DEF AskMaintenance, NotLocked, Goto, bundleVars, workVars, callVars, countVars, Places,
        Before, Ended
  <2>2. role' \in [Owner -> {"none", "backup", "restore", "recover"}]
    BY <1>3, <1>call DEF AskMaintenance, NotLocked, Goto, bundleVars, workVars,
       callVars, countVars
  <2>3. of' \in [Owner -> Owner]
    BY <1>3, <1>call DEF AskMaintenance, NotLocked, Goto, bundleVars, workVars,
       callVars, countVars
  <2>4. next' \in [Owner -> 1..Groups + 1]
    BY <1>3, <1>next, <1>log, <1>counted DEF AskMaintenance, NotLocked, Goto,
       bundleVars, workVars, callVars, countVars, Counted
  <2>5. QED
    BY <1>3, <2>1, <2>2, <2>3, <2>4
    DEF TypeOK, AskMaintenance, NotLocked, Goto, bundleVars, workVars, callVars, countVars
<1>4. ASSUME NEW o \in Owner, OpenLock(o)
     PROVE  TypeOK'
  <2>1. pc' \in [Owner -> Places]
    BY <1>4, <1>place
    DEF OpenLock, NotLocked, Goto, bundleVars, workVars, callVars, countVars, Places, Before,
        Ended
  <2>2. role' \in [Owner -> {"none", "backup", "restore", "recover"}]
    BY <1>4, <1>call DEF OpenLock, NotLocked, Goto, bundleVars, workVars, callVars,
       countVars
  <2>3. of' \in [Owner -> Owner]
    BY <1>4, <1>call DEF OpenLock, NotLocked, Goto, bundleVars, workVars, callVars,
       countVars
  <2>4. next' \in [Owner -> 1..Groups + 1]
    BY <1>4, <1>next, <1>log, <1>counted DEF OpenLock, NotLocked, Goto, bundleVars,
       workVars, callVars, countVars, Counted
  <2>5. lock' \in Owner \cup {None, Left}
    BY <1>4, <1>set DEF OpenLock, NotLocked, Goto, bundleVars, workVars, callVars,
       countVars
  <2>6. QED
    BY <1>4, <2>1, <2>2, <2>3, <2>4, <2>5
    DEF TypeOK, OpenLock, NotLocked, Goto, bundleVars, workVars, callVars, countVars
<1>5. ASSUME NEW o \in Owner, TakeInventory(o)
     PROVE  TypeOK'
  <2>1. pc' \in [Owner -> Places]
    BY <1>5, <1>place
    DEF TakeInventory, FailurePlace, Goto, bundleVars, workVars, callVars, countVars, Places,
        Before, Ended
  <2>2. next' \in [Owner -> 1..Groups + 1]
    BY <1>5, <1>next, <1>log, <1>counted DEF TakeInventory, FailurePlace, Goto,
       bundleVars, workVars, callVars, countVars, Counted
  <2>3. copies' \in [Owner -> [Path -> Content]]
    <3>1. [p \in Path |-> IF p \in Shown THEN target[p] ELSE Missing] \in [Path -> Content]
      BY <1>file, Contents
    <3>2. copies' = copies \/ copies' = [copies EXCEPT ![o] =
              [p \in Path |-> IF p \in Shown THEN target[p] ELSE Missing]]
      BY <1>5 DEF TakeInventory
    <3>3. QED
      BY <1>work, <3>1, <3>2
  <2>4. QED
    BY <1>5, <2>1, <2>2, <2>3
    DEF TypeOK, TakeInventory, FailurePlace, Goto, bundleVars, workVars, callVars, countVars
<1>6. ASSUME NEW o \in Owner, CopyStore(o)
     PROVE  TypeOK'
  <2>1. /\ before' \in [Owner -> [Path -> Content]]
        /\ previous' \in [Owner -> [Path -> Content]]
        /\ copies' \in [Owner -> [Path -> Content]]
    <3>1. next[o] \in Data
      BY <1>6, <1>next, <1>counted DEF CopyStore, Counted
    <3>2. next[o] \in Path /\ Vacuumed(next[o]) \in Content
      BY <3>1, <1>file, Contents, Paths DEF Vacuumed
    <3>3. QED
      BY <1>6, <1>work, <3>1, <3>2, FileReplaced DEF CopyStore, workVars
  <2>2. next' \in [Owner -> 1..Groups + 1]
    BY <1>6, <1>next, <1>log, <1>counted DEF CopyStore, workVars, callVars,
       countVars, Counted
  <2>3. QED
    BY <1>6, <2>1, <2>2 DEF TypeOK, CopyStore, Goto, bundleVars, workVars, callVars, countVars
<1>7. ASSUME NEW o \in Owner, PublishBundle(o)
     PROVE  TypeOK'
  <2>1. pc' \in [Owner -> Places]
    BY <1>7, <1>place
    DEF PublishBundle, Goto, bundleVars, workVars, callVars, countVars, Places, Before, Ended
  <2>2. ready' \subseteq Owner
    BY <1>7, <1>set DEF PublishBundle, Goto, workVars, callVars, countVars
  <2>3. next' \in [Owner -> 1..Groups + 1]
    BY <1>7, <1>next, <1>log, <1>counted DEF PublishBundle, Goto, workVars,
       callVars, countVars, Counted
  <2>4. QED
    BY <1>7, <2>1, <2>2, <2>3
    DEF TypeOK, PublishBundle, Goto, bundleVars, workVars, callVars, countVars
<1>8. ASSUME NEW o \in Owner, HashBefore(o)
     PROVE  TypeOK'
  <2>1. pc' \in [Owner -> Places]
    BY <1>8, <1>place
    DEF HashBefore, Goto, bundleVars, workVars, callVars, countVars, Places, Before, Ended
  <2>2. /\ before' \in [Owner -> [Path -> Content]]
        /\ previous' \in [Owner -> [Path -> Content]]
        /\ copies' \in [Owner -> [Path -> Content]]
    BY <1>8, <1>work, <1>file, <1>next, <1>counted, <1>call, Contents DEF HashBefore, Goto,
       bundleVars, callVars, countVars
  <2>3. QED
    BY <1>8, <2>1, <2>2 DEF TypeOK, HashBefore, Goto, bundleVars, workVars, callVars, countVars
<1>9. ASSUME NEW o \in Owner, OpenJournal(o)
     PROVE  TypeOK'
  <2>1. pc' \in [Owner -> Places]
    BY <1>9, <1>place
    DEF OpenJournal, Goto, bundleVars, workVars, callVars, countVars, Places, Before, Ended
  <2>2. journal' \in [Owner -> [status: Statuses, logged: 0..Groups]]
    BY <1>9, <1>log, <1>call, <1>next, <1>counted
    DEF OpenJournal, Goto, bundleVars, workVars, callVars, countVars, Statuses, Counted
  <2>3. QED
    BY <1>9, <2>1, <2>2 DEF TypeOK, OpenJournal, Goto, bundleVars, workVars, callVars, countVars
<1>10. ASSUME NEW o \in Owner, SetAside(o)
     PROVE  TypeOK'
  <2>1. pc' \in [Owner -> Places]
    BY <1>10, <1>place
    DEF SetAside, Goto, bundleVars, workVars, callVars, countVars, Places, Before, Ended
  <2> DEFINE p == PathOf(o, next[o])
  <2>2. p \in Path /\ target[p] \in Content /\ Missing \in Content
    BY <1>file, <1>next, Paths, Contents
  <2>3. CASE Exists(p)
    <3>1. /\ previous' = [previous EXCEPT ![o][p] = target[p]]
          /\ target' = [target EXCEPT ![p] = Missing]
      BY <1>10, <2>3 DEF SetAside
    <3>2. previous' \in [Owner -> [Path -> Content]] /\ target' \in [Path -> Content]
      <4> HIDE DEF p
      <4>1. QED
        BY <1>file, <1>work, <2>2, <3>1, FileReplaced, TargetReplaced
    <3>3. QED
      BY <1>10, <2>1, <3>2 DEF TypeOK, SetAside, bundleVars, callVars, countVars
  <2>4. CASE ~Exists(p)
    BY <1>10, <2>1, <2>4 DEF TypeOK, SetAside, bundleVars, callVars, countVars
  <2>5. QED
    BY <2>3, <2>4
<1>11. ASSUME NEW o \in Owner, PlaceStaged(o)
     PROVE  TypeOK'
  <2>1. pc' \in [Owner -> Places]
    BY <1>11, <1>place
    DEF PlaceStaged, Goto, bundleVars, workVars, callVars, countVars, Places, Before, Ended
  <2> DEFINE p == PathOf(o, next[o])
  <2>2. p \in Path /\ File(IF p \in Data THEN o ELSE p) \in Content
    BY <1>next, Paths, Contents DEF Path
  <2>3. target' = [target EXCEPT ![p] = File(IF p \in Data THEN o ELSE p)]
    BY <1>11 DEF PlaceStaged
  <2>4. target' \in [Path -> Content]
    <3> HIDE DEF p
    <3>1. QED
      BY <1>file, <2>2, <2>3, TargetReplaced
  <2>5. next' \in [Owner -> 1..Groups + 1]
    BY <1>11, <1>next, <1>counted DEF PlaceStaged, Goto, Counted
  <2>6. QED
    BY <1>11, <2>1, <2>4, <2>5 DEF TypeOK, PlaceStaged, bundleVars, workVars, callVars, countVars
<1>12. ASSUME NEW o \in Owner, WriteJournal(o)
     PROVE  TypeOK'
  <2>1. pc' \in [Owner -> Places]
    BY <1>12, <1>place
    DEF WriteJournal, Goto, bundleVars, workVars, callVars, countVars, Places, Before, Ended
  <2>2. journal' \in [Owner -> [status: Statuses, logged: 0..Groups]]
    BY <1>12, <1>log, <1>call, <1>next, <1>counted DEF WriteJournal, Goto,
       bundleVars, workVars, callVars, countVars, Counted
  <2>3. QED
    BY <1>12, <2>1, <2>2 DEF TypeOK, WriteJournal, Goto, bundleVars, workVars, callVars, countVars
<1>13. ASSUME NEW o \in Owner, Verify(o)
     PROVE  TypeOK'
  <2>1. pc' \in [Owner -> Places]
    BY <1>13, <1>place
    DEF Verify, Goto, bundleVars, workVars, callVars, countVars, Places, Before, Ended
  <2>2. journal' \in [Owner -> [status: Statuses, logged: 0..Groups]]
    BY <1>13, <1>log, <1>call, <1>next, <1>counted
    DEF Verify, Goto, bundleVars, workVars, callVars, countVars, Statuses, Counted
  <2>3. QED
    BY <1>13, <2>1, <2>2 DEF TypeOK, Verify, Goto, bundleVars, workVars, callVars, countVars
<1>14. ASSUME NEW o \in Owner, TakeDown(o)
     PROVE  TypeOK'
  <2>1. pc' \in [Owner -> Places]
    BY <1>14, <1>place
    DEF TakeDown, Undone, Goto, bundleVars, workVars, callVars, countVars, Places, Before, Ended
  <2>2. target' \in [Path -> Content]
    BY <1>14, <1>file, <1>work, <1>call, Contents DEF TakeDown, Undone, Goto, bundleVars,
       workVars, callVars, countVars
  <2>3. QED
    BY <1>14, <2>1, <2>2 DEF TypeOK, TakeDown, Undone, bundleVars, workVars, callVars, countVars
<1>15. ASSUME NEW o \in Owner, PutBack(o)
     PROVE  TypeOK'
  <2>1. pc' \in [Owner -> Places]
    BY <1>15, <1>place
    DEF PutBack, Undone, Goto, bundleVars, workVars, callVars, countVars, Places, Before, Ended
  <2>undone. Undone(o) \in Path /\ of[o] \in Owner /\ Missing \in Content
    <3>1. next[o] > 1
      BY <1>15, <1>counted DEF PutBack, Goto, Counted
    <3>2. QED
      BY <1>next, <1>call, <3>1, Paths, Contents DEF Undone
  <2>2. target' \in [Path -> Content] /\ previous' \in [Owner -> [Path -> Content]]
    <3>1. CASE previous[of[o]][Undone(o)] # Missing
      <4>1. previous[of[o]][Undone(o)] \in Content
        BY <1>work, <2>undone
      <4>2. /\ target' = [target EXCEPT ![Undone(o)] = previous[of[o]][Undone(o)]]
            /\ previous' = [previous EXCEPT ![of[o]][Undone(o)] = Missing]
        BY <1>15, <3>1 DEF PutBack
      <4>3. QED
        BY <1>file, <1>work, <2>undone, <4>1, <4>2, FileReplaced, TargetReplaced
    <3>2. CASE previous[of[o]][Undone(o)] = Missing
      BY <1>15, <1>file, <1>work, <3>2 DEF PutBack
    <3>3. QED
      BY <3>1, <3>2
  <2>3. UNCHANGED <<before, copies>>
    BY <1>15 DEF PutBack, bundleVars
  <2>4. next' \in [Owner -> 1..Groups + 1]
    BY <1>15, <1>next, <1>log, <1>counted DEF PutBack, Undone, Goto, bundleVars, callVars,
       countVars, Counted
  <2>5. QED
    BY <1>15, <2>1, <2>2, <2>3, <2>4
    DEF TypeOK, PutBack, Undone, Goto, bundleVars, workVars, callVars, countVars
<1>16. ASSUME NEW o \in Owner, Refill(o)
     PROVE  TypeOK'
  <2>1. target' \in [Path -> Content]
    <3>1. PICK p \in Path : target' = [target EXCEPT ![p] = copies[of[o]][p]]
      BY <1>16 DEF Refill
    <3>2. copies[of[o]][p] \in Content
      BY <1>work, <1>call
    <3>3. QED
      BY <1>file, <3>1, <3>2, TargetReplaced
  <2>2. QED
    BY <1>16, <2>1 DEF TypeOK, Refill, Refillable, Goto, bundleVars, workVars, callVars, countVars
<1>17. ASSUME NEW o \in Owner, RolledBack(o)
     PROVE  TypeOK'
  <2>1. pc' \in [Owner -> Places]
    BY <1>17, <1>place
    DEF RolledBack, Goto, bundleVars, workVars, callVars, countVars, Places, Before, Ended
  <2>2. journal' \in [Owner -> [status: Statuses, logged: 0..Groups]]
    BY <1>17, <1>log, <1>call, <1>next, <1>counted
    DEF RolledBack, Goto, bundleVars, workVars, callVars, countVars, Statuses, Counted
  <2>3. QED
    BY <1>17, <2>1, <2>2 DEF TypeOK, RolledBack, Goto, bundleVars, workVars, callVars, countVars
<1>18. ASSUME NEW o \in Owner, Close(o)
     PROVE  TypeOK'
  <2>1. pc' \in [Owner -> Places]
    BY <1>18, <1>place
    DEF Close, Goto, bundleVars, workVars, callVars, countVars, Places, Before, Ended
  <2>2. journal' \in [Owner -> [status: Statuses, logged: 0..Groups]]
    BY <1>18, <1>log, <1>call, <1>next, <1>counted
    DEF Close, Goto, bundleVars, workVars, callVars, countVars, Statuses, Counted
  <2>3. QED
    BY <1>18, <2>1, <2>2 DEF TypeOK, Close, Goto, bundleVars, workVars, callVars, countVars
<1>19. ASSUME NEW o \in Owner, Release(o)
     PROVE  TypeOK'
  <2>1. pc' \in [Owner -> Places]
    BY <1>19, <1>place
    DEF Release, Goto, bundleVars, workVars, callVars, countVars, Places, Before, Ended
  <2>2. lock' \in Owner \cup {None, Left}
    BY <1>19, <1>set DEF Release, Goto, bundleVars, workVars, callVars, countVars
  <2>3. QED
    BY <1>19, <2>1, <2>2 DEF TypeOK, Release, Goto, bundleVars, workVars, callVars, countVars
<1>20. ASSUME NEW o \in Owner, StepFails(o)
     PROVE  TypeOK'
  <2>1. edits' \in 0..MaxEdits /\ faults' \in 0..MaxFaults
    BY <1>20, <1>count DEF StepFails
  <2>2. pc' \in [Owner -> Places] /\ maintenance' \in BOOLEAN /\ unguarded' \in BOOLEAN
        /\ lock' \in Owner \cup {None, Left}
        /\ role' \in [Owner -> {"none", "backup", "restore", "recover"}]
        /\ of' \in [Owner -> Owner] /\ next' \in [Owner -> 1..Groups + 1]
    <3>1. CASE LockFails(o)
      BY <1>place, <1>call, <1>next, <1>set, <3>1
      DEF LockFails, NotLocked, Goto, callVars, Places, Before, Ended
    <3>2. CASE CallFails(o)
      <4>1. pc' \in [Owner -> Places]
        BY <1>place, <3>2 DEF CallFails, FailurePlace, Goto, Places, Before, Ended
      <4>2. maintenance' \in BOOLEAN
        BY <1>set, <3>2 DEF CallFails
      <4>3. unguarded' \in BOOLEAN
        BY <1>set, <3>2, Zenon DEF CallFails
      <4>4. UNCHANGED <<lock, next, role, of>>
        BY <3>2 DEF CallFails, callVars
      <4>5. QED
        BY <1>call, <1>next, <1>set, <4>1, <4>2, <4>3, <4>4
    <3>3. QED
      BY <1>20, <3>1, <3>2 DEF StepFails
  <2>3. QED
    BY <1>20, <2>1, <2>2 DEF TypeOK, StepFails, bundleVars, workVars
<1>21. ASSUME NEW o \in Owner, Crash(o)
     PROVE  TypeOK'
  <2>1. pc' \in [Owner -> Places]
    BY <1>21, <1>place
    DEF Crash, Goto, bundleVars, workVars, callVars, countVars, Places, Before, Ended
  <2>2. edits' \in 0..MaxEdits /\ faults' \in 0..MaxFaults
    BY <1>21, <1>count DEF Crash, bundleVars, workVars, callVars
  <2>3. QED
    BY <1>21, <2>1, <2>2 DEF TypeOK, Crash, Goto, bundleVars, workVars, callVars, countVars
<1>22. ASSUME NEW s \in Data, Edit(s)
     PROVE  TypeOK'
  <2>1. target' \in [Path -> Content]
    <3>1. edits + 1 \in 0..MaxEdits
      BY <1>22, <1>count DEF Edit
    <3>2. PICK b \in Owner \cup {Kept, None} :
            target' = [target EXCEPT ![s] = [base |-> b, edit |-> edits + 1, vacuumed |-> FALSE]]
      <4>1. target[s].base \in Owner \cup {Kept, None}
        <5>1. target[s] \in Content
          BY <1>22, <1>file, Paths
        <5>2. QED
          BY <5>1 DEF Content
      <4>2. target' = [target EXCEPT ![s] = [base |-> IF Exists(s) THEN target[s].base ELSE Kept,
                                             edit |-> edits + 1, vacuumed |-> FALSE]]
        BY <1>22, <1>file DEF Edit
      <4>3. QED
        BY <4>1, <4>2
    <3>3. [base |-> b, edit |-> edits + 1, vacuumed |-> FALSE] \in Content
      BY <3>1 DEF Content
    <3>4. QED
      BY <1>file, <3>2, <3>3, TargetReplaced
  <2>2. edits' \in 0..MaxEdits /\ faults' \in 0..MaxFaults
    BY <1>22, <1>count DEF Edit, bundleVars, workVars, callVars
  <2>3. QED
    BY <1>22, <2>1, <2>2 DEF TypeOK, Edit, Goto, bundleVars, workVars, callVars, countVars
<1>23. ASSUME ClearLock
     PROVE  TypeOK'
  <2>1. lock' \in Owner \cup {None, Left}
    BY <1>23, <1>set DEF ClearLock, bundleVars, workVars, callVars, countVars
  <2>2. QED
    BY <1>23, <2>1 DEF TypeOK, ClearLock, Goto, bundleVars, workVars, callVars, countVars
<1>24. ASSUME UNCHANGED vars
     PROVE  TypeOK'
  BY <1>24 DEF TypeOK, vars, Goto, bundleVars, workVars, callVars, countVars
<1>25. QED
  BY <1>1, <1>2, <1>3, <1>4, <1>5, <1>6, <1>7, <1>8, <1>9, <1>10, <1>11, <1>12, <1>13, <1>14,
     <1>15, <1>16, <1>17, <1>18, <1>19, <1>20, <1>21, <1>22, <1>23, <1>24 DEF Next, Run, Backup,
     Restore, Rollback

(* The groups a restore has passed are written by nobody else.             *)
LEMMA PublishStep ==
    ASSUME TypeOK, CountInv, LockInv, PublishInv, [Next]_vars
    PROVE  PublishInv'
PROOF
<1> USE DEF Publishing
<1>place. pc \in [Owner -> Places] /\ next \in [Owner -> 1..Groups + 1]
  BY DEF TypeOK
<1>file. target \in [Path -> Content]
  BY DEF TypeOK
<1>alone. ASSUME NEW o \in Owner, NEW p \in Owner, Working(o), Publishing(p)
          PROVE  o = p
  BY <1>alone DEF LockInv, Working, Before, Ended
<1>still. ASSUME UNCHANGED target,
                 \A p \in Owner : Publishing(p)' => Publishing(p) /\ next'[p] = next[p]
          PROVE  PublishInv'
  BY <1>still DEF PublishInv, Passed, Exists
<1>1. ASSUME NEW o \in Owner, NEW r \in {"backup", "restore"}, BeginCall(o, r)
     PROVE  PublishInv'
  <2>1. UNCHANGED target
    BY <1>1 DEF BeginCall
  <2>2. \A p \in Owner : Publishing(p)' => Publishing(p) /\ next'[p] = next[p]
    BY <1>1, <1>place DEF BeginCall, Goto, bundleVars, workVars, countVars
  <2>3. QED
    BY <1>still, <2>1, <2>2
<1>2. ASSUME NEW o \in Owner, BeginRecovery(o)
     PROVE  PublishInv'
  <2>1. UNCHANGED target
    BY <1>2 DEF BeginRecovery
  <2>2. \A p \in Owner : Publishing(p)' => Publishing(p) /\ next'[p] = next[p]
    BY <1>2, <1>place DEF BeginRecovery, Recoverable, Goto, bundleVars, workVars,
       countVars
  <2>3. QED
    BY <1>still, <2>1, <2>2
<1>3. ASSUME NEW o \in Owner, AskMaintenance(o)
     PROVE  PublishInv'
  <2>1. UNCHANGED target
    BY <1>3 DEF AskMaintenance
  <2>2. \A p \in Owner : Publishing(p)' => Publishing(p) /\ next'[p] = next[p]
    BY <1>3, <1>place DEF AskMaintenance, NotLocked, Goto, bundleVars, workVars,
       callVars, countVars
  <2>3. QED
    BY <1>still, <2>1, <2>2
<1>4. ASSUME NEW o \in Owner, OpenLock(o)
     PROVE  PublishInv'
  <2>1. UNCHANGED target
    BY <1>4 DEF OpenLock
  <2>2. \A p \in Owner : Publishing(p)' => Publishing(p) /\ next'[p] = next[p]
    BY <1>4, <1>place DEF OpenLock, NotLocked, Goto, bundleVars, workVars, callVars,
       countVars
  <2>3. QED
    BY <1>still, <2>1, <2>2
<1>5. ASSUME NEW o \in Owner, TakeInventory(o)
     PROVE  PublishInv'
  <2>1. UNCHANGED target
    BY <1>5 DEF TakeInventory
  <2>2. \A p \in Owner : Publishing(p)' => Publishing(p) /\ next'[p] = next[p]
    BY <1>5, <1>place DEF TakeInventory, FailurePlace, Goto, bundleVars, workVars,
       callVars, countVars
  <2>3. QED
    BY <1>still, <2>1, <2>2
<1>6. ASSUME NEW o \in Owner, CopyStore(o)
     PROVE  PublishInv'
  <2>1. UNCHANGED target
    BY <1>6 DEF CopyStore
  <2>2. \A p \in Owner : Publishing(p)' => Publishing(p) /\ next'[p] = next[p]
    BY <1>6, <1>place DEF CopyStore, workVars, callVars, countVars
  <2>3. QED
    BY <1>still, <2>1, <2>2
<1>7. ASSUME NEW o \in Owner, PublishBundle(o)
     PROVE  PublishInv'
  <2>1. UNCHANGED target
    BY <1>7 DEF PublishBundle
  <2>2. \A p \in Owner : Publishing(p)' => Publishing(p) /\ next'[p] = next[p]
    BY <1>7, <1>place DEF PublishBundle, Goto, workVars, callVars, countVars
  <2>3. QED
    BY <1>still, <2>1, <2>2
<1>8. ASSUME NEW o \in Owner, HashBefore(o)
     PROVE  PublishInv'
  <2>1. UNCHANGED target
    BY <1>8 DEF HashBefore
  <2>2. \A p \in Owner : Publishing(p)' => Publishing(p) /\ next'[p] = next[p]
    BY <1>8, <1>place DEF HashBefore, Goto, bundleVars, callVars, countVars
  <2>3. QED
    BY <1>still, <2>1, <2>2
<1>9. ASSUME NEW o \in Owner, OpenJournal(o)
     PROVE  PublishInv'
  <2>1. UNCHANGED <<target, next>>
    BY <1>9 DEF OpenJournal
  <2>2. ASSUME NEW p \in Owner, Publishing(p)'
        PROVE  Publishing(p) \/ next[p] = 1
    BY <1>9, <1>place, <2>2 DEF OpenJournal, Goto, CountInv, Counted
  <2>3. ASSUME NEW p \in Owner, next[p] = 1
        PROVE  Passed(p)'
    BY <2>1, <2>3 DEF Passed, Data
  <2>4. QED
    BY <2>1, <2>2, <2>3 DEF PublishInv, Passed, Exists
<1>10. ASSUME NEW o \in Owner, SetAside(o)
     PROVE  PublishInv'
  <2>1. Working(o)
    BY <1>10 DEF SetAside, Goto, Working, Before, Ended
  <2>2. UNCHANGED next
    BY <1>10 DEF SetAside
  <2>3. ASSUME NEW p \in Owner, Publishing(p)'
        PROVE  p = o
    BY <1>10, <1>place, <1>alone, <2>1, <2>3 DEF SetAside, Goto
  <2> DEFINE here == PathOf(o, next[o])
  <2>4. \A q \in Path : q # here => target'[q] = target[q]
    <3> HIDE DEF here
    <3>1. target' = target \/ target' = [target EXCEPT ![here] = Missing]
      BY <1>10 DEF SetAside, here
    <3>2. QED
      BY <1>file, <3>1
  <2>5. Passed(o)
    BY <1>10 DEF SetAside, Goto, PublishInv
  <2>6. \A s \in Data : s < next[o] => s # here
    BY <1>place, Paths DEF PathOf, Data
  <2>7. next[o] > 1 => RunOf(o) # here
    BY <1>10, <1>place, Paths DEF SetAside, Goto, CountInv, Counted, PathOf, Data
  <2>8. QED
    BY <2>2, <2>3, <2>4, <2>5, <2>6, <2>7, Paths DEF PublishInv, Passed, Exists
<1>11. ASSUME NEW o \in Owner, PlaceStaged(o)
     PROVE  PublishInv'
  <2>1. Working(o) /\ Passed(o) /\ next[o] \in 1..Groups
    BY <1>11, <1>place
    DEF PlaceStaged, Goto, Working, Before, Ended, PublishInv, CountInv, Counted
  <2>2. next'[o] = next[o] + 1
    BY <1>11, <1>place DEF PlaceStaged
  <2>3. ASSUME NEW p \in Owner, Publishing(p)'
        PROVE  p = o
    BY <1>11, <1>place, <1>alone, <2>1, <2>3 DEF PlaceStaged, Goto
  <2> DEFINE here == PathOf(o, next[o])
  <2>4. target' = [target EXCEPT ![here] = File(IF here \in Data THEN o ELSE here)]
    BY <1>11 DEF PlaceStaged
  <2>5. CASE next[o] \in Data
    <3>1. here = next[o] /\ here \in Path /\ target' = [target EXCEPT ![next[o]] = File(o)]
      BY <2>4, <2>5, Paths DEF PathOf
    <3>2. ASSUME NEW s \in Data, s < next'[o]
          PROVE  target'[s].base = o
      <4>1. CASE s = next[o]
        BY <1>file, <3>1, <4>1, Paths DEF File
      <4>2. CASE s # next[o]
        BY <1>file, <2>1, <2>2, <3>1, <3>2, <4>2, Paths DEF Passed, Data
      <4>3. QED
        BY <4>1, <4>2
    <3>3. Exists(RunOf(o))'
      <4>1. RunOf(o) # next[o] /\ Exists(RunOf(o)) /\ RunOf(o) \in Path
        BY <2>1, <2>5, Paths DEF Passed, Data
      <4>2. QED
        BY <1>file, <3>1, <4>1 DEF Exists
    <3>4. QED
      BY <2>3, <3>2, <3>3 DEF PublishInv, Passed
  <2>6. CASE next[o] \notin Data
    <3>1. next[o] = 1
      BY <2>1, <2>6 DEF Data
    <3>2. here = RunOf(o) /\ here \in Path /\ here \in Owner \cup {Kept} /\ here \notin Data
      BY <2>6, Paths DEF PathOf
    <3>3. Exists(RunOf(o))'
      <4>1. target'[RunOf(o)] = File(RunOf(o))
        BY <1>file, <2>4, <3>2
      <4>2. QED
        BY RecoveryAssumption, <3>2, <4>1 DEF Exists, Missing, File
    <3>4. \A s \in Data : ~(s < next'[o])
      BY <2>2, <3>1 DEF Data
    <3>5. QED
      BY <2>3, <3>3, <3>4 DEF PublishInv, Passed
  <2>7. QED
    BY <2>5, <2>6
<1>12. ASSUME NEW o \in Owner, WriteJournal(o)
     PROVE  PublishInv'
  <2>1. UNCHANGED target
    BY <1>12 DEF WriteJournal
  <2>2. \A p \in Owner : Publishing(p)' => Publishing(p) /\ next'[p] = next[p]
    BY <1>12, <1>place DEF WriteJournal, Goto, bundleVars, workVars, callVars,
       countVars
  <2>3. QED
    BY <1>still, <2>1, <2>2
<1>13. ASSUME NEW o \in Owner, Verify(o)
     PROVE  PublishInv'
  <2>1. UNCHANGED target
    BY <1>13 DEF Verify
  <2>2. \A p \in Owner : Publishing(p)' => Publishing(p) /\ next'[p] = next[p]
    BY <1>13, <1>place DEF Verify, Goto, bundleVars, workVars, callVars, countVars
  <2>3. QED
    BY <1>still, <2>1, <2>2
<1>14. ASSUME NEW o \in Owner, TakeDown(o)
     PROVE  PublishInv'
  <2>1. Working(o) /\ ~Publishing(o)'
    BY <1>14, <1>place DEF TakeDown, Goto, Working, Before, Ended
  <2>2. ASSUME NEW p \in Owner, Publishing(p)'
        PROVE  p = o
    BY <1>14, <1>place, <1>alone, <2>1, <2>2 DEF TakeDown, Goto
  <2>3. QED
    BY <2>1, <2>2 DEF PublishInv
<1>15. ASSUME NEW o \in Owner, PutBack(o)
     PROVE  PublishInv'
  <2>1. Working(o) /\ ~Publishing(o)'
    BY <1>15, <1>place DEF PutBack, Goto, Working, Before, Ended
  <2>2. ASSUME NEW p \in Owner, Publishing(p)'
        PROVE  p = o
    BY <1>15, <1>place, <1>alone, <2>1, <2>2 DEF PutBack, Goto
  <2>3. QED
    BY <2>1, <2>2 DEF PublishInv
<1>16. ASSUME NEW o \in Owner, Refill(o)
     PROVE  PublishInv'
  <2>1. Working(o) /\ ~Publishing(o)'
    BY <1>16, <1>place DEF Refill, Goto, Working, Before, Ended
  <2>2. ASSUME NEW p \in Owner, Publishing(p)'
        PROVE  p = o
    BY <1>16, <1>place, <1>alone, <2>1, <2>2 DEF Refill
  <2>3. QED
    BY <2>1, <2>2 DEF PublishInv
<1>17. ASSUME NEW o \in Owner, RolledBack(o)
     PROVE  PublishInv'
  <2>1. UNCHANGED target
    BY <1>17 DEF RolledBack
  <2>2. \A p \in Owner : Publishing(p)' => Publishing(p) /\ next'[p] = next[p]
    BY <1>17, <1>place DEF RolledBack, Goto, bundleVars, workVars, callVars,
       countVars
  <2>3. QED
    BY <1>still, <2>1, <2>2
<1>18. ASSUME NEW o \in Owner, Close(o)
     PROVE  PublishInv'
  <2>1. UNCHANGED target
    BY <1>18 DEF Close
  <2>2. \A p \in Owner : Publishing(p)' => Publishing(p) /\ next'[p] = next[p]
    BY <1>18, <1>place DEF Close, Goto, bundleVars, workVars, callVars, countVars
  <2>3. QED
    BY <1>still, <2>1, <2>2
<1>19. ASSUME NEW o \in Owner, Release(o)
     PROVE  PublishInv'
  <2>1. UNCHANGED target
    BY <1>19 DEF Release
  <2>2. \A p \in Owner : Publishing(p)' => Publishing(p) /\ next'[p] = next[p]
    BY <1>19, <1>place DEF Release, Goto, bundleVars, workVars, callVars, countVars
  <2>3. QED
    BY <1>still, <2>1, <2>2
<1>20. ASSUME NEW o \in Owner, StepFails(o)
     PROVE  PublishInv'
  <2>1. UNCHANGED target
    BY <1>20 DEF StepFails
  <2>2. \A p \in Owner : Publishing(p)' => Publishing(p) /\ next'[p] = next[p]
    <3>1. CASE LockFails(o)
      BY <1>place, <3>1 DEF LockFails, NotLocked, Goto, callVars
    <3>2. CASE CallFails(o)
      BY <1>place, <3>2 DEF CallFails, FailurePlace, Goto
    <3>3. QED
      BY <1>20, <3>1, <3>2 DEF StepFails
  <2>3. QED
    BY <1>still, <2>1, <2>2
<1>21. ASSUME NEW o \in Owner, Crash(o)
     PROVE  PublishInv'
  <2>1. UNCHANGED target
    BY <1>21 DEF Crash
  <2>2. \A p \in Owner : Publishing(p)' => Publishing(p) /\ next'[p] = next[p]
    BY <1>21, <1>place DEF Crash, bundleVars, workVars, callVars
  <2>3. QED
    BY <1>still, <2>1, <2>2
<1>22. ASSUME NEW s \in Data, Edit(s)
     PROVE  PublishInv'
  <2>1. UNCHANGED <<pc, next>>
    BY <1>22 DEF Edit
  <2>2. ASSUME NEW p \in Owner, NEW d \in Data, target[d].base = p
        PROVE  target'[d].base = p
    <3>1. CASE d = s
      <4>1. Exists(s)
        BY RecoveryAssumption, <2>2, <3>1 DEF Exists, Missing, File
      <4>2. QED
        BY <1>22, <1>file, <2>2, <3>1, <4>1, Paths DEF Edit
    <3>2. CASE d # s
      BY <1>22, <1>file, <2>2, <3>2, Paths DEF Edit
    <3>3. QED
      BY <3>1, <3>2
  <2>3. ASSUME NEW p \in Owner, Exists(RunOf(p))
        PROVE  Exists(RunOf(p))'
    BY <1>22, <1>file, <2>3, Paths DEF Edit, Exists
  <2>4. QED
    BY <2>1, <2>2, <2>3 DEF PublishInv, Passed
<1>23. ASSUME ClearLock
     PROVE  PublishInv'
  <2>1. UNCHANGED target
    BY <1>23 DEF ClearLock
  <2>2. \A p \in Owner : Publishing(p)' => Publishing(p) /\ next'[p] = next[p]
    BY <1>23, <1>place DEF ClearLock, bundleVars, workVars, callVars, countVars
  <2>3. QED
    BY <1>still, <2>1, <2>2
<1>24. ASSUME UNCHANGED vars
     PROVE  PublishInv'
  BY <1>24 DEF PublishInv, Passed, Exists, vars, Goto, bundleVars, workVars, callVars,
     countVars
<1>25. QED
  BY <1>1, <1>2, <1>3, <1>4, <1>5, <1>6, <1>7, <1>8, <1>9, <1>10, <1>11, <1>12, <1>13, <1>14,
     <1>15, <1>16, <1>17, <1>18, <1>19, <1>20, <1>21, <1>22, <1>23, <1>24 DEF Next, Run, Backup,
     Restore, Rollback

(* The role a call has decides where it can be.                            *)
LEMMA RoleStep ==
    ASSUME TypeOK, RoleInv, [Next]_vars
    PROVE  RoleInv'
PROOF
<1>types. pc \in [Owner -> Places] /\ role \in [Owner -> {"none", "backup", "restore", "recover"}]
  BY DEF TypeOK
<1> USE DEF RoleInv
<1>1. ASSUME NEW o \in Owner, NEW r \in {"backup", "restore"}, BeginCall(o, r)
     PROVE  RoleInv'
  BY <1>1, <1>types DEF BeginCall, Goto, callVars
<1>2. ASSUME NEW o \in Owner, BeginRecovery(o)
     PROVE  RoleInv'
  BY <1>2, <1>types DEF BeginRecovery, Goto, callVars
<1>3. ASSUME NEW o \in Owner, AskMaintenance(o)
     PROVE  RoleInv'
  BY <1>3, <1>types DEF AskMaintenance, NotLocked, Goto, callVars
<1>4. ASSUME NEW o \in Owner, OpenLock(o)
     PROVE  RoleInv'
  BY <1>4, <1>types DEF OpenLock, NotLocked, Goto, callVars
<1>5. ASSUME NEW o \in Owner, TakeInventory(o)
     PROVE  RoleInv'
  BY <1>5, <1>types DEF TakeInventory, FailurePlace, Goto, callVars
<1>6. ASSUME NEW o \in Owner, CopyStore(o)
     PROVE  RoleInv'
  BY <1>6, <1>types DEF CopyStore, Goto, callVars
<1>7. ASSUME NEW o \in Owner, PublishBundle(o)
     PROVE  RoleInv'
  BY <1>7, <1>types DEF PublishBundle, Goto, callVars
<1>8. ASSUME NEW o \in Owner, HashBefore(o)
     PROVE  RoleInv'
  BY <1>8, <1>types DEF HashBefore, Goto, callVars
<1>9. ASSUME NEW o \in Owner, OpenJournal(o)
     PROVE  RoleInv'
  BY <1>9, <1>types DEF OpenJournal, Goto, callVars
<1>10. ASSUME NEW o \in Owner, SetAside(o)
     PROVE  RoleInv'
  BY <1>10, <1>types DEF SetAside, Goto, callVars
<1>11. ASSUME NEW o \in Owner, PlaceStaged(o)
     PROVE  RoleInv'
  BY <1>11, <1>types DEF PlaceStaged, Goto, callVars
<1>12. ASSUME NEW o \in Owner, WriteJournal(o)
     PROVE  RoleInv'
  BY <1>12, <1>types DEF WriteJournal, Goto, callVars
<1>13. ASSUME NEW o \in Owner, Verify(o)
     PROVE  RoleInv'
  BY <1>13, <1>types DEF Verify, Goto, callVars
<1>14. ASSUME NEW o \in Owner, TakeDown(o)
     PROVE  RoleInv'
  BY <1>14, <1>types DEF TakeDown, Goto, callVars
<1>15. ASSUME NEW o \in Owner, PutBack(o)
     PROVE  RoleInv'
  BY <1>15, <1>types DEF PutBack, Goto, callVars
<1>16. ASSUME NEW o \in Owner, Refill(o)
     PROVE  RoleInv'
  BY <1>16, <1>types DEF Refill, Goto, callVars
<1>17. ASSUME NEW o \in Owner, RolledBack(o)
     PROVE  RoleInv'
  BY <1>17, <1>types DEF RolledBack, Goto, callVars
<1>18. ASSUME NEW o \in Owner, Close(o)
     PROVE  RoleInv'
  BY <1>18, <1>types DEF Close, Goto, callVars
<1>19. ASSUME NEW o \in Owner, Release(o)
     PROVE  RoleInv'
  BY <1>19, <1>types DEF Release, Goto, callVars
<1>20. ASSUME NEW o \in Owner, StepFails(o)
     PROVE  RoleInv'
  <2>1. CASE LockFails(o)
    BY <1>20, <1>types, <2>1 DEF LockFails, NotLocked, Goto, callVars
  <2>2. CASE CallFails(o)
    BY <1>20, <1>types, <2>2 DEF CallFails, FailurePlace, Goto, callVars
  <2>3. QED
    BY <1>20, <2>1, <2>2 DEF StepFails
<1>21. ASSUME NEW o \in Owner, Crash(o)
     PROVE  RoleInv'
  BY <1>21, <1>types DEF Crash, Goto, callVars
<1>22. ASSUME NEW s \in Data, Edit(s)
     PROVE  RoleInv'
  BY <1>22, <1>types DEF Edit, Goto, callVars
<1>23. ASSUME ClearLock
     PROVE  RoleInv'
  BY <1>23, <1>types DEF ClearLock, Goto, callVars
<1>24. ASSUME UNCHANGED vars
     PROVE  RoleInv'
  BY <1>24, <1>types DEF vars, callVars
<1>25. QED
  BY <1>1, <1>2, <1>3, <1>4, <1>5, <1>6, <1>7, <1>8, <1>9, <1>10, <1>11, <1>12, <1>13, <1>14,
     <1>15, <1>16, <1>17, <1>18, <1>19, <1>20, <1>21, <1>22, <1>23, <1>24 DEF Next, Run, Backup,
     Restore, Rollback

(* What the product writes has the origin that the file has; in a clean    *)
(* product no file is missing, but in an empty one, which is not written.  *)
LEMMA EditKeepsClean ==
    ASSUME TypeOK, Clean, NEW s \in Data, Edit(s)
    PROVE  Clean'
PROOF
<1>file. target \in [Path -> Content] /\ s \in Path /\ Data \subseteq Path
  BY Paths DEF TypeOK
<1>1. PICK b \in Owner \cup {Kept, None} : Origin(target, b)
  BY DEF Clean, Whole
<1>2. b # None
  BY <1>1, RecoveryAssumption DEF Edit, NoneExists, Exists, Origin, Missing, File
<1>3. \A d \in Data : Exists(d)
  BY <1>1, <1>2 DEF Origin, Exists, Missing, File
<1>4. target' = [target EXCEPT ![s] = [base |-> b, edit |-> edits + 1, vacuumed |-> FALSE]]
  BY <1>1, <1>3, <1>file DEF Edit, Origin
<1>5. Whole(target')
  BY <1>1, <1>4, <1>file DEF Whole, Origin
<1>6. ~Dangling'
  <2>1. CASE s = Pointer
    <3>1. target'[Pointer].edit # 0
      BY <1>4, <1>file, <2>1 DEF TypeOK
    <3>2. QED
      BY <3>1 DEF Dangling, Shown
  <2>2. CASE s # Pointer
    <3>1. Pointer \in Path /\ target'[Pointer] = target[Pointer]
      BY <1>4, <1>file, <2>2, RecoveryAssumption DEF Pointer, Data
    <3>2. Shown' = Shown
      BY <3>1 DEF Shown, Exists
    <3>3. \A r \in Shown : Exists(r)'
      <4>1. ASSUME NEW r \in Shown PROVE Exists(r)'
        <5>1. Exists(r)
          BY <4>1 DEF Clean, Dangling
        <5>2. r \in Path /\ r \notin Data
          BY <1>1, <1>2, <1>file, Paths, RecoveryAssumption DEF Shown, Origin, Pointer, Data
        <5>3. QED
          BY <1>4, <1>file, <5>1, <5>2 DEF Exists
      <4>2. QED
        BY <4>1
    <3>4. QED
      BY <3>2, <3>3 DEF Dangling
  <2>3. QED
    BY <2>1, <2>2
<1>7. QED
  BY <1>5, <1>6 DEF Clean

(* Data that hash as they did before are clean again.                      *)
LEMMA IdenticalIsClean ==
    ASSUME HashesWhole, of \in [Owner -> Owner], NEW o \in Owner, ByteIdentical(o)
    PROVE  Clean
PROOF
<1>1. PICK b \in Owner \cup {Kept, None} : Origin(before[of[o]], b)
  BY DEF HashesWhole, Whole
<1>2. Origin(target, b)
  BY <1>1 DEF ByteIdentical, Origin
<1>3. ~Dangling
  BY RecoveryAssumption DEF ByteIdentical, Complete, NoneExists, Dangling, Shown, Pointer, Data
<1>4. QED
  BY <1>2, <1>3 DEF Clean, Whole

(* A call touches the data under the lock, and settles it again only when  *)
(* it has verified its bundle, found the old hashes, or closed the product.*)
LEMMA ClosedStep ==
    ASSUME TypeOK, CountInv, LockInv, PublishInv, RoleInv, ClosedInv, [Next]_vars
    PROVE  ClosedInv'
PROOF
<1>types. /\ pc \in [Owner -> Places] /\ lock \in Owner \cup {None, Left}
          /\ maintenance \in BOOLEAN /\ unguarded \in BOOLEAN
          /\ of \in [Owner -> Owner] /\ target \in [Path -> Content]
          /\ None \notin Owner /\ Left \notin Owner /\ Left # None
  BY RecoveryAssumption DEF TypeOK
<1>holder. ASSUME NEW o \in Owner, Working(o)
           PROVE  lock = o
  BY <1>holder DEF LockInv
<1>clean. UNCHANGED target => Clean' = Clean
  BY DEF Clean, Whole, Origin, Dangling, Shown, Exists
<1>hashes. UNCHANGED before => HashesWhole' = HashesWhole
  BY DEF HashesWhole
<1>open. ASSUME UNCHANGED <<maintenance, unguarded, before>>,
                Settled' => Clean' \/ (Settled /\ UNCHANGED target)
         PROVE  ClosedInv'
  BY <1>open, <1>clean, <1>hashes DEF ClosedInv
<1>still. ASSUME UNCHANGED <<maintenance, unguarded, before, lock, target>>,
                 NEW o \in Owner, NEW x, pc' = [pc EXCEPT ![o] = x],
                 lock = o => x \notin Untouched \/ pc[o] \in Untouched
          PROVE  ClosedInv'
  <2>1. Settled' => Settled
    BY <1>types, <1>still DEF Settled
  <2>2. QED
    BY <1>open, <1>still, <2>1
<1>busy. ASSUME UNCHANGED <<maintenance, unguarded, before, lock>>, NEW o \in Owner, lock = o,
                pc'[o] \notin Untouched
         PROVE  ClosedInv'
  <2>1. ~Settled'
    BY <1>types, <1>busy DEF Settled
  <2>2. QED
    BY <1>open, <1>busy, <2>1
<1>1. ASSUME NEW o \in Owner, NEW r \in {"backup", "restore"}, BeginCall(o, r)
     PROVE  ClosedInv'
  <2>1. UNCHANGED <<maintenance, unguarded, before, lock, target>>
        /\ pc' = [pc EXCEPT ![o] = "asking"]
    BY <1>1 DEF BeginCall, Goto, workVars, countVars
  <2>2. QED
    BY <1>still, <2>1 DEF Untouched
<1>2. ASSUME NEW o \in Owner, BeginRecovery(o)
     PROVE  ClosedInv'
  <2>1. UNCHANGED <<maintenance, unguarded, before, lock, target>>
        /\ pc' = [pc EXCEPT ![o] = "asking"]
    BY <1>2 DEF BeginRecovery, Goto, workVars, countVars
  <2>2. QED
    BY <1>still, <2>1 DEF Untouched
<1>3. ASSUME NEW o \in Owner, AskMaintenance(o)
     PROVE  ClosedInv'
  <2>1. UNCHANGED <<maintenance, unguarded, before, lock, target>>
    BY <1>3 DEF AskMaintenance, workVars, countVars
  <2>2. PICK x \in {"closing", "idle", "locking"} : pc' = [pc EXCEPT ![o] = x]
    BY <1>3 DEF AskMaintenance, NotLocked, Goto
  <2>3. QED
    BY <1>still, <2>1, <2>2 DEF Untouched
<1>4. ASSUME NEW o \in Owner, OpenLock(o)
     PROVE  ClosedInv'
  <2>1. UNCHANGED <<maintenance, unguarded, before, target>>
    BY <1>4 DEF OpenLock, workVars, countVars
  <2>2. CASE lock = None
    BY <1>open, <2>1, <2>2 DEF Settled
  <2>3. CASE lock # None
    <3>1. UNCHANGED lock
      BY <1>4, <2>3 DEF OpenLock
    <3>2. PICK x \in {"closing", "idle"} : pc' = [pc EXCEPT ![o] = x]
      BY <1>4, <2>3 DEF OpenLock, NotLocked, Goto
    <3>3. QED
      BY <1>still, <2>1, <3>1, <3>2 DEF Untouched
  <2>4. QED
    BY <2>2, <2>3
<1>5. ASSUME NEW o \in Owner, TakeInventory(o)
     PROVE  ClosedInv'
  <2>1. UNCHANGED <<maintenance, unguarded, before, lock, target>> /\ pc[o] = "inventory"
    BY <1>5 DEF TakeInventory, Goto, workVars, countVars
  <2>2. pc' = [pc EXCEPT ![o] = pc'[o]]
    BY <1>5, <1>types DEF TakeInventory, Goto
  <2>3. QED
    BY <1>still, <2>1, <2>2 DEF Untouched
<1>6. ASSUME NEW o \in Owner, CopyStore(o)
     PROVE  ClosedInv'
  <2>1. UNCHANGED <<maintenance, unguarded, before, lock, target>> /\ UNCHANGED pc
    BY <1>6 DEF CopyStore, workVars, countVars
  <2>2. QED
    BY <1>open, <2>1 DEF Settled
<1>7. ASSUME NEW o \in Owner, PublishBundle(o)
     PROVE  ClosedInv'
  <2>1. UNCHANGED <<maintenance, unguarded, before, lock, target>> /\ pc[o] = "copying"
    BY <1>7 DEF PublishBundle, Goto, workVars, countVars
  <2>2. pc' = [pc EXCEPT ![o] = pc'[o]]
    BY <1>7, <1>types DEF PublishBundle, Goto
  <2>3. QED
    BY <1>still, <2>1, <2>2 DEF Untouched
<1>8. ASSUME NEW o \in Owner, HashBefore(o)
     PROVE  ClosedInv'
  <2>1. UNCHANGED <<maintenance, unguarded, lock, target>>
        /\ pc[o] = "hashing" /\ pc'[o] = "staging"
        /\ before' = [before EXCEPT ![o] = target]
    BY <1>8, <1>types DEF HashBefore, Goto, countVars
  <2>2. lock = o
    BY <1>holder, <2>1 DEF Working, Before, Ended
  <2>3. ~Settled'
    BY <1>types, <2>1, <2>2 DEF Settled, Untouched
  <2>4. ASSUME ~maintenance', ~unguarded' PROVE HashesWhole'
    <3>1. HashesWhole /\ Whole(target)
      BY <2>1, <2>2, <2>4 DEF ClosedInv, Settled, Untouched, Clean
    <3>2. QED
      BY <2>1, <3>1 DEF HashesWhole, TypeOK
  <2>5. QED
    BY <2>3, <2>4 DEF ClosedInv
<1>9. ASSUME NEW o \in Owner, OpenJournal(o)
     PROVE  ClosedInv'
  <2>1. UNCHANGED <<maintenance, unguarded, before, lock>> /\ Working(o) /\ pc'[o] = "settingAside"
    BY <1>9, <1>types DEF OpenJournal, Goto, workVars, countVars, Working, Before, Ended
  <2>2. QED
    BY <1>busy, <1>holder, <2>1 DEF Untouched
<1>10. ASSUME NEW o \in Owner, SetAside(o)
     PROVE  ClosedInv'
  <2>1. UNCHANGED <<maintenance, unguarded, before, lock>> /\ Working(o) /\ pc'[o] = "placing"
    BY <1>10, <1>types DEF SetAside, Goto, workVars, countVars, Working, Before, Ended
  <2>2. QED
    BY <1>busy, <1>holder, <2>1 DEF Untouched
<1>11. ASSUME NEW o \in Owner, PlaceStaged(o)
     PROVE  ClosedInv'
  <2>1. UNCHANGED <<maintenance, unguarded, before, lock>> /\ Working(o) /\ pc'[o] = "journalling"
    BY <1>11, <1>types DEF PlaceStaged, Goto, workVars, countVars, Working, Before, Ended
  <2>2. QED
    BY <1>busy, <1>holder, <2>1 DEF Untouched
<1>12. ASSUME NEW o \in Owner, WriteJournal(o)
     PROVE  ClosedInv'
  <2>1. UNCHANGED <<maintenance, unguarded, before, lock>> /\ Working(o)
        /\ pc'[o] \in {"settingAside", "verifying"}
    BY <1>12, <1>types DEF WriteJournal, Goto, workVars, countVars, Working, Before, Ended
  <2>2. QED
    BY <1>busy, <1>holder, <2>1 DEF Untouched
<1>13. ASSUME NEW o \in Owner, Verify(o)
     PROVE  ClosedInv'
  <2>1. UNCHANGED <<maintenance, unguarded, before, lock, target>>
        /\ Working(o) /\ pc[o] = "verifying"
    BY <1>13, <1>types DEF Verify, Goto, workVars, countVars, Working, Before, Ended
  <2>2. CASE Complete
    <3>1. next[o] = Groups + 1 /\ Passed(o)
      BY <2>1 DEF CountInv, Counted, PublishInv, Publishing
    <3>2. Origin(target, o)
      BY RecoveryAssumption, <3>1 DEF Passed, Origin, Data
    <3>3. Clean
      BY <2>2, <3>2 DEF Clean, Whole, Complete
    <3>4. QED
      BY <1>open, <1>clean, <2>1, <3>3
  <2>3. CASE ~Complete
    BY <1>busy, <1>holder, <1>types, <1>13, <2>1, <2>3 DEF Verify, Goto, Untouched
  <2>4. QED
    BY <2>2, <2>3
<1>14. ASSUME NEW o \in Owner, TakeDown(o)
     PROVE  ClosedInv'
  <2>1. UNCHANGED <<maintenance, unguarded, before, lock>> /\ Working(o) /\ pc'[o] = "puttingBack"
    BY <1>14, <1>types DEF TakeDown, Goto, workVars, countVars, Working, Before, Ended
  <2>2. QED
    BY <1>busy, <1>holder, <2>1 DEF Untouched
<1>15. ASSUME NEW o \in Owner, PutBack(o)
     PROVE  ClosedInv'
  <2>1. UNCHANGED <<maintenance, unguarded, before, lock>> /\ Working(o) /\ pc'[o] = "undoing"
    BY <1>15, <1>types DEF PutBack, Goto, workVars, countVars, Working, Before, Ended
  <2>2. QED
    BY <1>busy, <1>holder, <2>1 DEF Untouched
<1>16. ASSUME NEW o \in Owner, Refill(o)
     PROVE  ClosedInv'
  <2>1. UNCHANGED <<maintenance, unguarded, before, lock>> /\ Working(o) /\ pc'[o] = "undoing"
    BY <1>16, <1>types DEF Refill, workVars, countVars, Working, Before, Ended
  <2>2. QED
    BY <1>busy, <1>holder, <2>1 DEF Untouched
<1>17. ASSUME NEW o \in Owner, RolledBack(o)
     PROVE  ClosedInv'
  <2>1. UNCHANGED <<maintenance, unguarded, before, lock, target>> /\ Working(o)
    BY <1>17, <1>types DEF RolledBack, Goto, workVars, countVars, Working, Before, Ended
  <2>2. CASE ByteIdentical(o)
    <3>1. HashesWhole => Clean
      BY <1>types, <2>2, IdenticalIsClean
    <3>2. QED
      BY <1>clean, <1>hashes, <2>1, <3>1 DEF ClosedInv
  <2>3. CASE ~ByteIdentical(o)
    BY <1>busy, <1>holder, <1>types, <1>17, <2>1, <2>3 DEF RolledBack, Goto, Untouched
  <2>4. QED
    BY <2>2, <2>3
<1>18. ASSUME NEW o \in Owner, Close(o)
     PROVE  ClosedInv'
  BY <1>18 DEF Close, ClosedInv
<1>19. ASSUME NEW o \in Owner, Release(o)
     PROVE  ClosedInv'
  <2>1. UNCHANGED <<maintenance, unguarded, before, target>> /\ pc[o] = "releasing"
        /\ pc' = [pc EXCEPT ![o] = "done"]
    BY <1>19 DEF Release, Goto, workVars, countVars
  <2>2. CASE lock = o
    BY <1>open, <2>1, <2>2 DEF Settled, Untouched
  <2>3. CASE lock # o
    BY <1>19, <1>still, <2>1, <2>3 DEF Release, Untouched
  <2>4. QED
    BY <2>2, <2>3
<1>20. ASSUME NEW o \in Owner, StepFails(o)
     PROVE  ClosedInv'
  <2>1. UNCHANGED <<before, target>>
    BY <1>20 DEF StepFails, workVars
  <2>2. CASE LockFails(o)
    <3>1. UNCHANGED <<maintenance, unguarded>>
      BY <2>2 DEF LockFails
    <3>2. PICK x \in {"closing", "idle"} : pc' = [pc EXCEPT ![o] = x]
      BY <2>2 DEF LockFails, NotLocked, Goto
    <3>3. CASE UNCHANGED lock
      BY <1>still, <2>1, <3>1, <3>2, <3>3 DEF Untouched
    <3>4. CASE lock' = Left
      BY <1>open, <1>types, <2>1, <3>1, <3>4 DEF Settled
    <3>5. QED
      BY <2>2, <3>3, <3>4 DEF LockFails
  <2>3. CASE CallFails(o)
    <3>1. UNCHANGED lock /\ pc' = [pc EXCEPT ![o] = pc'[o]]
      BY <1>types, <2>3 DEF CallFails, Goto
    <3>2. CASE pc[o] = "closing"
      <4>1. maintenance' \/ unguarded'
        BY <2>3, <3>2, Zenon DEF CallFails
      <4>2. QED
        BY <4>1 DEF ClosedInv
    <3>3. CASE pc[o] # "closing"
      <4>1. UNCHANGED maintenance
        BY <2>3, <3>3 DEF CallFails, Goto
      <4>2. UNCHANGED unguarded
        <5>1. unguarded' = (unguarded \/ (pc[o] = "closing" /\ ~maintenance'))
          BY <2>3, Zenon DEF CallFails
        <5>2. QED
          BY <1>types, <3>3, <5>1
      <4>3. CASE pc'[o] \notin Untouched \/ pc[o] \in Untouched
        BY <1>still, <2>1, <3>1, <4>1, <4>2, <4>3
      <4>4. CASE pc'[o] \in Untouched /\ pc[o] \notin Untouched
        <5>1. ByteIdentical(o)
          <6>1. CASE pc[o] \in {"inventory", "copying", "hashing", "staging", "settingAside",
                               "placing", "journalling", "verifying"}
                     /\ pc' = [pc EXCEPT ![o] = FailurePlace(o)]
            BY <1>types, <4>4, <6>1 DEF FailurePlace, RoleInv, Untouched
          <6>2. CASE pc[o] \in {"undoing", "puttingBack"} /\ pc' = [pc EXCEPT ![o] = "closing"]
            BY <1>types, <4>4, <6>2 DEF Untouched
          <6>3. CASE Goto(o, "releasing", "done")
            BY <4>4, <6>3 DEF Goto, Untouched
          <6>4. QED
            BY <2>3, <3>3, <6>1, <6>2, <6>3 DEF CallFails, Goto
        <5>2. HashesWhole => Clean
          BY <1>types, <5>1, IdenticalIsClean
        <5>3. QED
          BY <1>clean, <1>hashes, <2>1, <4>1, <4>2, <5>2 DEF ClosedInv
      <4>5. QED
        BY <4>3, <4>4
    <3>4. QED
      BY <3>2, <3>3
  <2>4. QED
    BY <1>20, <2>2, <2>3 DEF StepFails
<1>21. ASSUME NEW o \in Owner, Crash(o)
     PROVE  ClosedInv'
  <2>1. UNCHANGED <<maintenance, unguarded, before, lock, target>>
        /\ pc' = [pc EXCEPT ![o] = "crashed"]
    BY <1>21 DEF Crash, workVars
  <2>2. QED
    BY <1>still, <2>1 DEF Untouched
<1>22. ASSUME NEW s \in Data, Edit(s)
     PROVE  ClosedInv'
  <2>1. UNCHANGED <<maintenance, unguarded, before, lock, pc>>
    BY <1>22 DEF Edit, workVars
  <2>2. Settled' => Settled
    BY <2>1 DEF Settled
  <2>3. Clean => Clean'
    BY <1>22, EditKeepsClean
  <2>4. QED
    BY <1>hashes, <2>1, <2>2, <2>3 DEF ClosedInv
<1>23. ASSUME ClearLock
     PROVE  ClosedInv'
  BY <1>23 DEF ClearLock, ClosedInv
<1>24. ASSUME UNCHANGED vars
     PROVE  ClosedInv'
  BY <1>24, <1>open DEF vars, workVars, countVars, Settled
<1>25. QED
  BY <1>1, <1>2, <1>3, <1>4, <1>5, <1>6, <1>7, <1>8, <1>9, <1>10, <1>11, <1>12, <1>13, <1>14,
     <1>15, <1>16, <1>17, <1>18, <1>19, <1>20, <1>21, <1>22, <1>23, <1>24 DEF Next, Run, Backup,
     Restore, Rollback

(* The parts of the invariant hold at the start.                           *)
LEMMA InitialInv ==
    ASSUME Init
    PROVE  IInv
PROOF
<1>1. TypeOK
  <2>1. 0 \in 0..MaxEdits /\ 0 \in 0..MaxFaults
        /\ 0 \in 0..Groups /\ 1 \in 1..Groups + 1
    BY RecoveryAssumption
  <2>2. File(Kept) \in Content /\ Missing \in Content
    BY Contents
  <2>3. /\ NoFiles \in [Path -> Content]
        /\ [p \in Path |-> IF p \in Owner THEN Missing ELSE File(Kept)] \in [Path -> Content]
    BY <2>2 DEF NoFiles
  <2>4. target \in [Path -> Content]
    BY <2>3 DEF Init
  <2>5. {before, previous, copies} \subseteq [Owner -> [Path -> Content]]
    BY <2>3 DEF Init
  <2>6. journal \in [Owner -> [status: Statuses, logged: 0..Groups]]
    BY <2>1 DEF Init, Statuses
  <2>7. pc \in [Owner -> Places]
    BY DEF Init, Places, Before
  <2>8. next \in [Owner -> 1..Groups + 1] /\ of \in [Owner -> Owner]
        /\ role \in [Owner -> {"none", "backup", "restore", "recover"}]
    BY <2>1 DEF Init
  <2>9. QED
    BY <2>1, <2>4, <2>5, <2>6, <2>7, <2>8 DEF Init, TypeOK
<1>2. CountInv /\ LockInv /\ PublishInv /\ RoleInv
  BY DEF Init, CountInv, Counted, LockInv, Working, Before, Ended, PublishInv, Publishing, RoleInv
<1>3. ClosedInv
  <2>1. HashesWhole
    BY Paths DEF Init, HashesWhole, Whole, Origin, NoFiles, Missing, File
  <2>2. CASE target = NoFiles
    <3>1. Origin(target, None)
      BY <2>2, Paths DEF Origin, NoFiles, Missing, File
    <3>2. ~Dangling
      <4>1. Pointer \in Path
        BY RecoveryAssumption, Paths DEF Pointer, Data
      <4>2. ~Exists(Pointer)
        BY <2>2, <4>1 DEF Exists, NoFiles, Missing, File
      <4>3. QED
        BY <4>2 DEF Dangling, Shown
    <3>3. QED
      BY <2>1, <3>1, <3>2 DEF ClosedInv, Clean, Whole
  <2>3. CASE target = [p \in Path |-> IF p \in Owner THEN Missing ELSE File(Kept)]
    <3>1. \A d \in Data \cup {Kept} : d \in Path /\ target[d] = File(Kept)
      BY <2>3, RecoveryAssumption, Paths DEF Path
    <3>2. Origin(target, Kept)
      BY <3>1 DEF Origin, File
    <3>3. ~Dangling
      <4>1. RunOf(Kept) = Kept /\ Exists(Kept) /\ Pointer \in Data
        <5>1. RunOf(Kept) = Kept
          BY RecoveryAssumption DEF RunOf
        <5>2. Exists(Kept)
          BY <3>1, RecoveryAssumption DEF Exists, File
        <5>3. Pointer \in Data
          BY RecoveryAssumption DEF Pointer, Data
        <5>4. QED
          BY <5>1, <5>2, <5>3
      <4>2. Shown = {Kept}
        BY <3>1, <4>1, RecoveryAssumption DEF Shown, Exists, Missing, File
      <4>3. QED
        BY <4>1, <4>2 DEF Dangling
    <3>4. QED
      BY <2>1, <3>2, <3>3 DEF ClosedInv, Clean, Whole
  <2>4. QED
    BY <2>2, <2>3 DEF Init
<1>4. QED
  BY <1>1, <1>2, <1>3 DEF IInv

(* The invariant behind the theorems, inductive.                           *)
LEMMA Invariance == Spec => []IInv
PROOF
<1>1. Init => IInv
  BY InitialInv
<1>2. ASSUME IInv, [Next]_vars PROVE IInv'
  BY <1>2, CountStep, LockStep, TypeStep, PublishStep, RoleStep, ClosedStep DEF IInv
<1>3. QED
  BY <1>1, <1>2, PTL DEF Spec

(* Every file, journal, lock and call has its type.                        *)
THEOREM TypeCorrect == Spec => []TypeOK
PROOF
<1>1. IInv => TypeOK
  BY DEF IInv
<1>2. QED
  BY <1>1, Invariance, PTL

(* No two calls work on the product at the same time: every place between  *)
(* acquireOwnerOperationLock and its release is one call's.                *)
THEOREM OneAtATime == Spec => []OneOperation
PROOF
<1>1. IInv => OneOperation
  BY DEF IInv, LockInv, OneOperation
<1>2. QED
  BY <1>1, Invariance, PTL

(* Whenever the next call can get the lock and no maintenance state stands *)
(* in its way, the product's data is of one origin and the pointer's       *)
(* snapshot is there, whatever calls crashed, failed, were refused or      *)
(* recovered a journal that another had resolved, in any order.            *)
THEOREM ClosesOnMixture == Spec => []FailClosed
PROOF
<1>1. IInv => FailClosed
  BY DEF IInv, ClosedInv, Settled, Clean, FailClosed
<1>2. QED
  BY <1>1, Invariance, PTL

(* restoreProductBackup writes the status of a success only over a product *)
(* that is the bundle's, file by file, the writes of the running product   *)
(* and the restores before it notwithstanding.                             *)
THEOREM SuccessIsWhole == Spec => SucceedsWhole
PROOF
<1>1. ASSUME IInv, [Next]_vars, NEW o \in Owner,
             journal'[o].status = "succeeded", journal[o].status # "succeeded"
      PROVE  Exists(RunOf(o)) /\ Origin(target, o)
  <2>1. journal \in [Owner -> [status: Statuses, logged: 0..Groups]] /\ of \in [Owner -> Owner]
    BY <1>1 DEF IInv, TypeOK
  <2>2. Verify(o)
    <3>1. ASSUME NEW p \in Owner, OpenJournal(p)
          PROVE  Verify(o)
      BY <1>1, <2>1, <3>1 DEF OpenJournal
    <3>2. ASSUME NEW p \in Owner, WriteJournal(p)
          PROVE  Verify(o)
      BY <1>1, <2>1, <3>2 DEF WriteJournal
    <3>3. ASSUME NEW p \in Owner, Verify(p)
          PROVE  Verify(o)
      BY <1>1, <2>1, <3>3 DEF Verify
    <3>4. ASSUME NEW p \in Owner, RolledBack(p)
          PROVE  Verify(o)
      BY <1>1, <2>1, <3>4 DEF RolledBack
    <3>5. ASSUME NEW p \in Owner, Close(p)
          PROVE  Verify(o)
      BY <1>1, <2>1, <3>5 DEF Close
    <3>6. journal' # journal
      BY <1>1
    <3>7. QED
      BY <1>1, <3>1, <3>2, <3>3, <3>4, <3>5, <3>6
      DEF Next, vars, Run, Backup, Restore, Rollback, BeginCall, BeginRecovery, AskMaintenance,
         OpenLock, TakeInventory, CopyStore, PublishBundle, HashBefore, SetAside, PlaceStaged,
         TakeDown, PutBack, Refill, Release, StepFails, Crash, Edit, ClearLock
  <2>3. next[o] = Groups + 1 /\ Passed(o)
    BY <1>1, <2>2 DEF IInv, PublishInv, Publishing, CountInv, Counted, Verify, Goto
  <2>4. QED
    BY RecoveryAssumption, <2>3 DEF Passed, Origin, Data
<1>2. IInv /\ [Next]_vars =>
        [\A o \in Owner : journal'[o].status = "succeeded" /\ journal[o].status # "succeeded"
             => Exists(RunOf(o)) /\ Origin(target, o)]_vars
  BY <1>1
<1>3. QED
  BY <1>2, Invariance, PTL DEF Spec, SucceedsWhole
=============================================================================
