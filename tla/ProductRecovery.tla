--------------------------- MODULE ProductRecovery ---------------------------
(***************************************************************************)
(* Backup, restore and recovery of the product's data, productRecovery.ts: *)
(* createProductBackup, restoreProductBackup, recoverInterruptedRestore    *)
(* and the two files that are to keep them apart, owner-operation.lock.json*)
(* and maintenance-state.json.                                             *)
(*                                                                         *)
(* A restore publishes the groups 1..Groups in order.  Group 1 is the      *)
(* snapshot of the bundle, at the path of the run the bundle names; group  *)
(* Groups is the automation state, whose pointer names the snapshot; the   *)
(* groups between are the stores.  Every file operation that another       *)
(* process or a crash can fall in front of is a step.  The Markdown report *)
(* next to a journal and the failed files an undo sets aside are left out; *)
(* reading all the hashes is one step.                                     *)
(*                                                                         *)
(* Bounds: MaxEdits writes of the running product, which takes no notice   *)
(* of the lock, MaxFaults failing steps and dying processes.               *)
(***************************************************************************)
EXTENDS Naturals, FiniteSets

CONSTANTS Owner,            \* the owner's calls, each with an operation id
          Groups,           \* the number of publish groups
          Sqlite,           \* the stores copied with VACUUM INTO
          Kept, None,       \* the data before any restore; no file, no operation
          Same,             \* the calls whose bundle names the run of the data before any restore
          Left,             \* a lock file of no call: it was created, and its write failed
          MaxEdits, MaxFaults

Group == 1..Groups
Data == 2..Groups
Pointer == Groups

ASSUME RecoveryAssumption ==
    /\ Groups \in Nat /\ Groups >= 2
    /\ Sqlite \subseteq Data \ {Pointer}
    /\ Kept \notin Owner /\ {None, Left} \cap (Owner \cup {Kept}) = {} /\ Left # None
    /\ (Owner \cup {Kept}) \cap Data = {}
    /\ Same \subseteq Owner
    /\ {MaxEdits, MaxFaults} \subseteq Nat

VARIABLES
    target,         \* the file of each store, of the automation state and of each run's snapshot
    lock,           \* the operation whose owner lock file exists, None or Left
    maintenance,    \* whether maintenance-state.json exists
    journal,        \* operation.json of each operation
    before,         \* the hashes an operation took before it published
    previous,       \* restore-work/previous of each operation
    copies, ready,  \* the payload an operation backed up; the bundles with a manifest
    pc, role, of,   \* a call's place, what it was called for, the journal it works on
    next,           \* the group it publishes, or one more than the group it undoes
    edits, faults,
    unguarded       \* history: a lock was deleted by hand, or the maintenance state not written

bundleVars == <<copies, ready>>
workVars == <<before, previous>>
callVars == <<role, of>>
countVars == <<edits, faults, unguarded>>
vars == <<target, lock, maintenance, journal, bundleVars, workVars, pc, next, callVars, countVars>>

Path == Data \cup Owner \cup {Kept}
RunOf(b) == IF b \in Same THEN Kept ELSE b
PathOf(o, g) == IF g \in Data THEN g ELSE RunOf(o)

Content == [base: Owner \cup {Kept, None}, edit: 0..MaxEdits, vacuumed: BOOLEAN]
File(b) == [base |-> b, edit |-> 0, vacuumed |-> FALSE]
Missing == File(None)
NoFiles == [p \in Path |-> Missing]

Statuses == {"none", "open", "succeeded", "rolledBack", "failed"}
Ended == {"done", "crashed"}
Before == {"idle", "asking", "locking"}
Places == Before \cup Ended
          \cup {"inventory", "copying", "hashing", "staging", "settingAside", "placing",
                "journalling", "verifying", "undoing", "puttingBack", "closing", "releasing"}

TypeOK ==
    /\ target \in [Path -> Content]
    /\ lock \in Owner \cup {None, Left}
    /\ maintenance \in BOOLEAN
    /\ journal \in [Owner -> [status: Statuses, logged: 0..Groups]]
    /\ {before, previous, copies} \subseteq [Owner -> [Path -> Content]]
    /\ ready \subseteq Owner
    /\ pc \in [Owner -> Places]
    /\ role \in [Owner -> {"none", "backup", "restore", "recover"}]
    /\ of \in [Owner -> Owner]
    /\ next \in [Owner -> 1..Groups + 1]
    /\ edits \in 0..MaxEdits /\ faults \in 0..MaxFaults
    /\ unguarded \in BOOLEAN

Init ==
    /\ target \in {[p \in Path |-> IF p \in Owner THEN Missing ELSE File(Kept)], NoFiles}
    /\ lock = None /\ maintenance = FALSE
    /\ journal = [o \in Owner |-> [status |-> "none", logged |-> 0]]
    /\ before = [o \in Owner |-> NoFiles] /\ previous = before /\ copies = before
    /\ ready = {}
    /\ pc = [o \in Owner |-> "idle"]
    /\ role = [o \in Owner |-> "none"]
    /\ of = [o \in Owner |-> o]
    /\ next = [o \in Owner |-> 1]
    /\ edits = 0 /\ faults = 0
    /\ unguarded = FALSE

Goto(o, from, to) == pc[o] = from /\ pc' = [pc EXCEPT ![o] = to]

Exists(p) == target[p].base # None
NoneExists == \A s \in Data : ~Exists(s)

(* The runs whose snapshot the pointer names: a cycle that wrote the state *)
(* since has written its own snapshot first, which is not modelled.        *)
Shown == IF target[Pointer].edit = 0 /\ Exists(Pointer) THEN {RunOf(target[Pointer].base)} ELSE {}
Dangling == \E r \in Shown : ~Exists(r)

(* The files buildStoreInventory asks for.                                 *)
Complete == (\A s \in Data : Exists(s)) /\ ~Dangling

Vacuumed(s) == [target[s] EXCEPT !.vacuumed = @ \/ s \in Sqlite]

-----------------------------------------------------------------------------
(* The start of a call, and the owner lock.                                *)

BeginCall(o, r) ==
    /\ ~maintenance
    /\ Goto(o, "idle", "asking")
    /\ role' = [role EXCEPT ![o] = r]
    /\ UNCHANGED <<target, lock, maintenance, journal, bundleVars, workVars, next, of, countVars>>

(* The journal is read before the lock is asked for.                       *)
Recoverable(j) == journal[j].status = "open" /\ journal[j].logged > 0

BeginRecovery(o) ==
    /\ ~maintenance
    /\ Goto(o, "idle", "asking")
    /\ role' = [role EXCEPT ![o] = "recover"]
    /\ \E j \in Owner : /\ Recoverable(j)
                        /\ of' = [of EXCEPT ![o] = j]
                        /\ next' = [next EXCEPT ![o] = journal[j].logged + 1]
    /\ UNCHANGED <<target, lock, maintenance, journal, bundleVars, workVars, countVars>>

(* A call that does not get the lock throws, and may be made again.  A     *)
(* restore asks for it inside its try block, and goes on to the rollback,  *)
(* which finds no safety backup.                                           *)
NotLocked(o, from) ==
    IF role[o] = "restore"
    THEN Goto(o, from, "closing") /\ UNCHANGED <<callVars, next>>
    ELSE /\ Goto(o, from, "idle")
         /\ role' = [role EXCEPT ![o] = "none"]
         /\ of' = [of EXCEPT ![o] = o]
         /\ next' = [next EXCEPT ![o] = 1]

AskMaintenance(o) ==
    /\ IF maintenance THEN NotLocked(o, "asking")
                      ELSE Goto(o, "asking", "locking") /\ UNCHANGED <<callVars, next>>
    /\ UNCHANGED <<target, lock, maintenance, journal, bundleVars, workVars, countVars>>

(* Mutant of OpenLock: a lock that is there is taken over.                 *)
OpenLockShared(o) ==
    /\ Goto(o, "locking", IF role[o] = "recover" THEN "undoing" ELSE "inventory")
    /\ lock' = o
    /\ UNCHANGED <<callVars, next, target, maintenance, journal, bundleVars, workVars, countVars>>

OpenLock(o) ==
    /\ IF lock # None
       THEN NotLocked(o, "locking") /\ UNCHANGED lock
       ELSE /\ Goto(o, "locking", IF role[o] = "recover" THEN "undoing" ELSE "inventory")
            /\ lock' = o
            /\ UNCHANGED <<callVars, next>>
    /\ UNCHANGED <<target, maintenance, journal, bundleVars, workVars, countVars>>

Release(o) ==
    /\ Goto(o, "releasing", "done")
    /\ lock' = IF lock = o THEN None ELSE lock
    /\ UNCHANGED <<target, maintenance, journal, bundleVars, workVars, next, callVars, countVars>>

-----------------------------------------------------------------------------
(* createProductBackup, called by the owner or for the safety backup.      *)

(* Where an exception takes a call: a backup removes its staging; a restore*)
(* rolls back, which is bound to fail without a safety backup or hashes to *)
(* compare with.                                                           *)
FailurePlace(o) ==
    IF role[o] = "backup" THEN "releasing"
    ELSE IF o \notin ready \/ pc[o] = "hashing" THEN "closing"
    ELSE "undoing"

(* A safety backup looks at the maintenance state once more, and may find  *)
(* an empty product.  The snapshot the inventory names, which no one but a *)
(* restore touches, is copied with it.                                     *)
InventoryPasses(o) ==
    \/ role[o] = "backup" /\ Complete
    \/ role[o] = "restore" /\ ~maintenance /\ (Complete \/ NoneExists)

TakeInventory(o) ==
    /\ IF InventoryPasses(o)
       THEN /\ Goto(o, "inventory", "copying")
            /\ next' = [next EXCEPT ![o] = IF NoneExists THEN Groups + 1 ELSE 2]
            /\ copies' = [copies EXCEPT ![o] =
                              [p \in Path |-> IF p \in Shown THEN target[p] ELSE Missing]]
       ELSE /\ Goto(o, "inventory", FailurePlace(o))
            /\ UNCHANGED <<next, copies>>
    /\ UNCHANGED <<target, lock, maintenance, journal, ready, workVars, callVars, countVars>>

CopyStore(o) ==
    /\ pc[o] = "copying" /\ next[o] <= Groups
    /\ copies' = [copies EXCEPT ![o][next[o]] = Vacuumed(next[o])]
    /\ next' = [next EXCEPT ![o] = @ + 1]
    /\ UNCHANGED <<target, lock, maintenance, journal, ready, workVars, pc, callVars, countVars>>

PublishBundle(o) ==
    /\ next[o] = Groups + 1
    /\ Goto(o, "copying", IF role[o] = "backup" THEN "releasing" ELSE "hashing")
    /\ ready' = ready \cup {o}
    /\ next' = [next EXCEPT ![o] = 1]
    /\ UNCHANGED <<target, lock, maintenance, journal, copies, workVars, callVars, countVars>>

-----------------------------------------------------------------------------
(* restoreProductBackup from the safety backup on.                         *)

HashBefore(o) ==
    /\ Goto(o, "hashing", "staging")
    /\ before' = [before EXCEPT ![o] = target]
    /\ UNCHANGED <<target, lock, maintenance, journal, bundleVars, previous, next, callVars,
                   countVars>>

(* The payload is staged, the target map and the journal are written.      *)
OpenJournal(o) ==
    /\ Goto(o, "staging", "settingAside")
    /\ journal' = [journal EXCEPT ![o] = [status |-> "open", logged |-> 0]]
    /\ UNCHANGED <<target, lock, maintenance, bundleVars, workVars, next, callVars, countVars>>

(* publishGroup renames the target, then the staged file: between the two  *)
(* there is no file, and no snapshot where the bundle names the run that   *)
(* is shown.                                                               *)
SetAside(o) ==
    /\ Goto(o, "settingAside", "placing")
    /\ LET p == PathOf(o, next[o]) IN
       IF Exists(p) THEN /\ previous' = [previous EXCEPT ![o][p] = target[p]]
                         /\ target' = [target EXCEPT ![p] = Missing]
                    ELSE UNCHANGED <<previous, target>>
    /\ UNCHANGED <<lock, maintenance, journal, bundleVars, before, next, callVars, countVars>>

PlaceStaged(o) ==
    /\ Goto(o, "placing", "journalling")
    /\ LET p == PathOf(o, next[o]) IN
       target' = [target EXCEPT ![p] = File(IF p \in Data THEN o ELSE p)]
    /\ next' = [next EXCEPT ![o] = @ + 1]
    /\ UNCHANGED <<lock, maintenance, journal, bundleVars, workVars, callVars, countVars>>

(* Mutants of WriteJournal: the last group is not published; a group more  *)
(* than there are.                                                         *)
WriteJournalShort(o) ==
    /\ Goto(o, "journalling", IF next[o] < Groups THEN "settingAside" ELSE "verifying")
    /\ journal' = [journal EXCEPT ![o].logged = next[o] - 1]
    /\ UNCHANGED <<target, lock, maintenance, bundleVars, workVars, next, callVars, countVars>>

WriteJournalLong(o) ==
    /\ Goto(o, "journalling", IF next[o] <= Groups + 1 THEN "settingAside" ELSE "verifying")
    /\ journal' = [journal EXCEPT ![o].logged = next[o] - 1]
    /\ UNCHANGED <<target, lock, maintenance, bundleVars, workVars, next, callVars, countVars>>

WriteJournal(o) ==
    /\ Goto(o, "journalling", IF next[o] <= Groups THEN "settingAside" ELSE "verifying")
    /\ journal' = [journal EXCEPT ![o].logged = next[o] - 1]
    /\ UNCHANGED <<target, lock, maintenance, bundleVars, workVars, next, callVars, countVars>>

Verify(o) ==
    /\ Goto(o, "verifying", IF Complete THEN "releasing" ELSE "undoing")
    /\ journal' = IF Complete THEN [journal EXCEPT ![o].status = "succeeded"] ELSE journal
    /\ UNCHANGED <<target, lock, maintenance, bundleVars, workVars, next, callVars, countVars>>

-----------------------------------------------------------------------------
(* The rollback of a failed restore and of recoverInterruptedRestore.      *)

(* The file of the group to undo.                                          *)
Undone(o) == PathOf(of[o], next[o] - 1)

(* rollbackPublication: the logged groups in reverse, file by file.        *)
TakeDown(o) ==
    /\ next[o] > 1
    /\ Goto(o, "undoing", "puttingBack")
    /\ target' = [target EXCEPT ![Undone(o)] = Missing]
    /\ UNCHANGED <<lock, maintenance, journal, bundleVars, workVars, next, callVars, countVars>>

PutBack(o) ==
    /\ Goto(o, "puttingBack", "undoing")
    /\ IF previous[of[o]][Undone(o)] # Missing
       THEN /\ target' = [target EXCEPT ![Undone(o)] = previous[of[o]][Undone(o)]]
            /\ previous' = [previous EXCEPT ![of[o]][Undone(o)] = Missing]
       ELSE UNCHANGED <<target, previous>>
    /\ next' = [next EXCEPT ![o] = @ - 1]
    /\ UNCHANGED <<lock, maintenance, journal, bundleVars, before, callVars, countVars>>

(* restoreMissingFromSafetyBundle.                                         *)
Refillable(o, p) == ~Exists(p) /\ copies[of[o]][p] # Missing

Refill(o) ==
    /\ pc[o] = "undoing" /\ next[o] = 1
    /\ \E p \in Path : /\ Refillable(o, p)
                       /\ target' = [target EXCEPT ![p] = copies[of[o]][p]]
    /\ UNCHANGED <<lock, maintenance, journal, bundleVars, workVars, pc, next, callVars, countVars>>

(* Mutant of ByteIdentical: any complete product passes for the old one.   *)
CompleteAgain(o) == Complete \/ NoneExists

ByteIdentical(o) == (Complete \/ NoneExists) /\ \A s \in Data : target[s] = before[of[o]][s]

RolledBack(o) ==
    /\ next[o] = 1 /\ \A p \in Path : ~Refillable(o, p)
    /\ IF ByteIdentical(o)
       THEN /\ Goto(o, "undoing", "releasing")
            /\ journal' = [journal EXCEPT ![of[o]].status = "rolledBack"]
       ELSE /\ Goto(o, "undoing", "closing")
            /\ UNCHANGED journal
    /\ UNCHANGED <<target, lock, maintenance, bundleVars, workVars, next, callVars, countVars>>

(* writeMaintenanceState opens the file with "wx": where it exists already *)
(* the call throws out of its handler and its journal stays as it is.      *)
Close(o) ==
    /\ Goto(o, "closing", "releasing")
    /\ maintenance' = TRUE
    /\ journal' = IF maintenance THEN journal ELSE [journal EXCEPT ![of[o]].status = "failed"]
    /\ UNCHANGED <<target, lock, bundleVars, workVars, next, callVars, countVars>>

-----------------------------------------------------------------------------
(* A step that throws: a full disk, an open file, a payload that fails its *)
(* validation.                                                             *)

(* The lock file is created and its write fails: no one removes it.        *)
LockFails(o) ==
    /\ NotLocked(o, "locking")
    /\ lock' \in {lock} \cup (IF lock = None THEN {Left} ELSE {})
    /\ UNCHANGED <<maintenance, unguarded>>

(* The last report of a restore that was rolled back, and the maintenance  *)
(* state with the report that follows it, are written outside any try      *)
(* block; a lock that cannot be removed stays.                             *)
CallFails(o) ==
    /\ \/ /\ pc[o] \in {"inventory", "copying", "hashing", "staging", "settingAside", "placing",
                        "journalling", "verifying"}
          /\ pc' = [pc EXCEPT ![o] = FailurePlace(o)]
          /\ UNCHANGED maintenance
       \/ /\ pc[o] \in {"undoing", "puttingBack"}
          /\ pc' = [pc EXCEPT ![o] = "closing"]
          /\ UNCHANGED maintenance
       \/ /\ role[o] = "restore" /\ next[o] = 1 /\ ByteIdentical(o)
          /\ Goto(o, "undoing", "releasing")
          /\ UNCHANGED maintenance
       \/ /\ Goto(o, "closing", "releasing")
          /\ maintenance' \in {maintenance, TRUE}
       \/ Goto(o, "releasing", "done") /\ UNCHANGED maintenance
    /\ unguarded' = (unguarded \/ (pc[o] = "closing" /\ ~maintenance'))
    /\ UNCHANGED <<lock, next, callVars>>

StepFails(o) ==
    /\ faults < MaxFaults
    /\ faults' = faults + 1
    /\ LockFails(o) \/ CallFails(o)
    /\ UNCHANGED <<target, journal, bundleVars, workVars, edits>>

Crash(o) ==
    /\ faults < MaxFaults
    /\ faults' = faults + 1
    /\ pc[o] \notin Ended \cup {"idle"}
    /\ pc' = [pc EXCEPT ![o] = "crashed"]
    /\ UNCHANGED <<target, lock, maintenance, journal, bundleVars, workVars, next, callVars,
                   edits, unguarded>>

(* Nothing in the code removes a lock that was left behind, and no document*)
(* asks the owner to; the owner may delete the file by hand all the same.  *)
ClearLock ==
    /\ lock = Left \/ \E o \in Owner : lock = o /\ pc[o] \in Ended
    /\ lock' = None
    /\ unguarded' = TRUE
    /\ UNCHANGED <<target, maintenance, journal, bundleVars, workVars, pc, next, callVars, edits,
                   faults>>

(* The running product writes a store, or creates the one that is missing  *)
(* while its group is published.  Whose data a file holds stays as it was: *)
(* a backup torn by the product's own writes is not told apart.            *)
Edit(s) ==
    /\ edits < MaxEdits /\ ~NoneExists
    /\ edits' = edits + 1
    /\ target' = [target EXCEPT ![s] = [base |-> IF Exists(s) THEN @.base ELSE Kept,
                                        edit |-> edits + 1, vacuumed |-> FALSE]]
    /\ UNCHANGED <<lock, maintenance, journal, bundleVars, workVars, pc, next, callVars,
                   faults, unguarded>>

Backup(o) == TakeInventory(o) \/ CopyStore(o) \/ PublishBundle(o)
Restore(o) == HashBefore(o) \/ OpenJournal(o) \/ SetAside(o) \/ PlaceStaged(o)
              \/ WriteJournal(o) \/ Verify(o)
Rollback(o) == TakeDown(o) \/ PutBack(o) \/ Refill(o) \/ RolledBack(o) \/ Close(o)
Run(o) == AskMaintenance(o) \/ OpenLock(o) \/ Backup(o) \/ Restore(o) \/ Rollback(o) \/ Release(o)

Next ==
    \/ \E o \in Owner : BeginCall(o, "backup") \/ BeginCall(o, "restore") \/ BeginRecovery(o)
    \/ \E o \in Owner : Run(o) \/ StepFails(o) \/ Crash(o)
    \/ \E s \in Data : Edit(s)
    \/ ClearLock

Spec == Init /\ [][Next]_vars

-----------------------------------------------------------------------------
(* One operation at a time works on the product: the lock file is created  *)
(* exclusively and outlives its process.                                   *)
Working(o) == pc[o] \notin Before \cup Ended \cup {"closing", "releasing"}
OneOperation == \A o, p \in Owner : Working(o) /\ Working(p) => o = p

Origin(files, b) == \A s \in Data : files[s].base = b
Whole(files) == \E b \in Owner \cup {Kept, None} : Origin(files, b)

(* Whenever the next operation is let in, all of the product's data is of  *)
(* one origin and the snapshot its pointer names is there: whatever calls  *)
(* were made in whatever order, crashed, failed or worked on a journal that*)
(* had moved on, a mixture keeps the lock or the maintenance state.  Two   *)
(* things get past it, which unguarded tells: a lock deleted by hand, and  *)
(* a maintenance state that could not be written.                          *)
FailClosed == lock = None /\ ~maintenance /\ ~unguarded => Whole(target) /\ ~Dangling

(* A restore that reports success has put its bundle under every name.     *)
SucceedsWhole ==
    [][\A o \in Owner : journal'[o].status = "succeeded" /\ journal[o].status # "succeeded"
           => Exists(RunOf(o)) /\ Origin(target, o)]_vars
=============================================================================
