----------------------- MODULE CentralAutomation_proofs -----------------------
(***************************************************************************)
(* Proofs about automation-state.json under every interleaving of ticks,   *)
(* manual cycles, crashes, failing writes and the owner, overlapping as    *)
(* they may: the exclusion of runs, the suspension of the automation, its  *)
(* failure count and its published pointers.                               *)
(***************************************************************************)
EXTENDS CentralAutomation, TLAPS

Cycling == {"backing", "starting", "running"}
Holding == Cycling \cup {"locked", "releasing"}

(* The places each kind of process can be at, and who holds the lock there.*)
LockInv ==
    /\ pc[Owner] \in {"idle", "confirming", "rolling", "releasing"}
    /\ pc[Owner] \in {"rolling", "releasing"} => lock = Owner
    /\ \A p \in Cycler : /\ pc[p] \notin {"confirming", "rolling"}
                         /\ pc[p] \in Holding => lock = p

BaseInv == TypeOK /\ LockInv /\ (pc[Owner] = "rolling" => backup # None)

NoTrouble == crashes + faults = 0 /\ ~overwritten

(* Who is not behind has read the file as it is; in a run it has written   *)
(* the file as it is.                                                      *)
ReadInv ==
    \A p \in Process : pc[p] \in Reading \ {"running"} /\ p \notin behind => view[p] = state
RunInv ==
    \A p \in Cycler : pc[p] = "running" /\ p \notin behind =>
        state = [view[p] EXCEPT !.active = p]

(* A run has read under its lock that the automation is not suspended.     *)
CycleInv == \A p \in Cycler : pc[p] \in Cycling => ~view[p].suspended

(* The file counts the failures since it was last overwritten.             *)
CountInv == streak <= state.failures /\ FailuresTrip

(* No file, reading or backup is ahead of the publications.                *)
Published(s) == s.scanner <= runs /\ s.context <= runs
PointerInv ==
    /\ Published(state) /\ \A p \in Process : Published(view[p])
    /\ backup # None => Published(backup)

(* The run that the file shows is there, and a backup shows none.          *)
ShownInv ==
    NoTrouble => /\ state.active # None => pc[state.active] = "running"
                 /\ backup # None => backup.active = None

Inv == /\ BaseInv /\ ReadInv /\ RunInv /\ CycleInv
       /\ CountInv /\ PointerInv /\ ShownInv

-----------------------------------------------------------------------------
LEMMA CountedType ==
    \A n \in 0..MaxConsecutiveFailures : /\ Counted(n) \in 0..MaxConsecutiveFailures
                                         /\ Counted(n) >= n
  BY AutomationAssumption DEF Counted

LEMMA TypeInit == Init => TypeOK
<1> SUFFICES ASSUME Init PROVE TypeOK
  OBVIOUS
<1> USE AutomationAssumption DEF Init
<1>1. InitialState \in State /\ streak \in 0..MaxConsecutiveFailures
  BY DEF State, InitialState
<1>2. /\ state \in State /\ lock \in Process \cup {Free, Dead} /\ view \in [Process -> State]
      /\ backup \in State \cup {None}
  BY <1>1
<1>3. pc \in [Process -> Places] /\ mode \in [Process -> Modes]
  BY DEF Places, Modes
<1>4. {runs, elapsed, manuals, crashes, faults, rollbacks} \subseteq Nat
  OBVIOUS
<1> QED
  BY <1>1, <1>2, <1>3, <1>4 DEF TypeOK

(* The history that a write leaves.                                        *)
LEMMA HistoryTypes ==
    ASSUME TypeOK, NEW p \in Process
    PROVE  /\ Streak(p) \in 0..MaxConsecutiveFailures
           /\ Wrote(p) => behind' \subseteq Process /\ overwritten' \in BOOLEAN
           /\ UpToDate(p) => behind' \subseteq Process
<1>1. 0 \in 0..MaxConsecutiveFailures
  BY AutomationAssumption
<1> QED
  BY <1>1 DEF TypeOK, Streak, Wrote, UpToDate

LEMMA InvInit == Init => Inv
<1> SUFFICES ASSUME Init PROVE Inv
  OBVIOUS
<1> USE AutomationAssumption DEF Init, InitialState
<1>1. TypeOK
  BY TypeInit
<1>2. LockInv /\ pc[Owner] = "idle"
  BY DEF LockInv, Process, Cycler, Holding, Cycling
<1>3. ReadInv /\ RunInv /\ CycleInv
  BY DEF ReadInv, RunInv, CycleInv, Process, Cycler, Reading, Cycling
<1>4. CountInv /\ PointerInv /\ ShownInv
  BY DEF CountInv, FailuresTrip, PointerInv, Published, ShownInv
<1> QED
  BY <1>1, <1>2, <1>3, <1>4 DEF Inv, BaseInv

(* The steps, by who takes them.                                           *)
TickStep(p) == TickReads(p) \/ TickInspectsLock(p) \/ TickDecides(p)
StartStep(p) == ManualCycle(p) \/ AcquireLock(p) \/ ReadUnderLock(p) \/ BackUp(p) \/ StartRun(p)
EndStep(p) == CompleteRun(p) \/ FailRun(p) \/ LoseOutcome(p) \/ Release(p)
OwnerAct == ResumeReads \/ ResumeWrites \/ RollbackLocks \/ RollbackRestores \/ Release(Owner)
Outside == (\E p \in Process : Crash(p)) \/ LockExpires \/ CadenceElapses

LEMMA StepKinds ==
    Next => \/ \E p \in Cycler : TickStep(p) \/ StartStep(p) \/ EndStep(p)
            \/ OwnerAct \/ Outside
  BY DEF Next, CycleStep, OwnerStep, TickStep, StartStep, EndStep, OwnerAct, Outside

LEMMA StateTypes ==
    ASSUME TypeOK, NEW p \in Process, NEW d \in BOOLEAN
    PROVE  InitialState \in State /\ CompletedState(p) \in State /\ FailedState(p, d) \in State
<1>1. view[p] \in State /\ runs + 1 \in Nat
  BY DEF TypeOK
<1>2. 0 \in 0..MaxConsecutiveFailures /\ Counted(view[p].failures) \in 0..MaxConsecutiveFailures
  BY <1>1, AutomationAssumption, CountedType DEF State
<1>3. InitialState \in State
  BY <1>2 DEF InitialState, State
<1>4. CompletedState(p) \in State
  BY <1>1, <1>2 DEF CompletedState, State
<1>5. (d \/ Counted(view[p].failures) >= MaxConsecutiveFailures) \in BOOLEAN
  OBVIOUS
<1>6. FailedState(p, d) \in State
  BY <1>1, <1>2, <1>5 DEF FailedState, State
<1> QED
  BY <1>3, <1>4, <1>6

LEMMA CyclerTypes ==
    ASSUME TypeOK, NEW p \in Cycler, TickStep(p) \/ StartStep(p) \/ EndStep(p)
    PROVE  TypeOK'
<1> USE AutomationAssumption, CountedType
    DEF Process, Cycler, TypeOK, Goto, ReadState, Ends, Fault, countVars, clockVars,
        historyVars, Places
<1>0. /\ InitialState \in State /\ CompletedState(p) \in State
      /\ \A d \in BOOLEAN : FailedState(p, d) \in State
  BY StateTypes
<1>h. /\ Streak(p) \in 0..MaxConsecutiveFailures
      /\ Wrote(p) => behind' \subseteq Process /\ overwritten' \in BOOLEAN
      /\ UpToDate(p) => behind' \subseteq Process
  BY HistoryTypes
<1>1. CASE TickReads(p) \/ TickInspectsLock(p)
  BY <1>0, <1>h, <1>1 DEF TickReads, TickInspectsLock
<1>2. CASE TickDecides(p)
  <2>1. \A d \in Decisions(p) : d = "nothing" \/ d \in Modes
    BY DEF Decisions, Modes
  <2>2. pc' \in [Process -> Places] /\ mode' \in [Process -> Modes]
    BY <1>2, <2>1 DEF TickDecides
  <2>3. state' \in State /\ streak' \in 0..MaxConsecutiveFailures
    BY <1>h, <1>2 DEF TickDecides, Observed
  <2>4. view' \in [Process -> State] /\ UNCHANGED <<lock, backup, runs, elapsed>>
    BY <1>0, <1>2 DEF TickDecides
  <2>5. behind' \subseteq Process /\ overwritten' \in BOOLEAN
    BY <1>h, <1>2 DEF TickDecides
  <2>6. {manuals', crashes', faults', rollbacks'} \subseteq Nat
    BY <1>2 DEF TickDecides
  <2> QED
    BY <2>2, <2>3, <2>4, <2>5, <2>6
<1>3. CASE ManualCycle(p) \/ AcquireLock(p) \/ ReadUnderLock(p) \/ BackUp(p)
  BY <1>h, <1>3 DEF ManualCycle, AcquireLock, ReadUnderLock, BackUp, Modes
<1>4. CASE StartRun(p)
  <2>1. [view[p] EXCEPT !.active = p] \in State
    BY DEF State
  <2> QED
    BY <1>h, <1>4, <2>1 DEF StartRun
<1>5. CASE CompleteRun(p)
  BY <1>0, <1>h, <1>5 DEF CompleteRun
<1>6. CASE FailRun(p)
  BY <1>0, <1>h, <1>6 DEF FailRun
<1>7. CASE LoseOutcome(p)
  BY <1>7 DEF LoseOutcome
<1>8. CASE Release(p)
  BY <1>0, <1>h, <1>8 DEF Release
<1> QED
  BY <1>1, <1>2, <1>3, <1>4, <1>5, <1>6, <1>7, <1>8 DEF TickStep, StartStep, EndStep

LEMMA OwnerTypes ==
    ASSUME BaseInv, OwnerAct \/ Outside
    PROVE  TypeOK'
<1> USE AutomationAssumption
    DEF Process, BaseInv, TypeOK, Goto, ReadState, Ends, Fault, countVars, clockVars,
        historyVars, Places
<1>0. InitialState \in State /\ Owner \in Process
  BY StateTypes
<1>h. \A p \in Process :
         /\ Wrote(p) => behind' \subseteq Process /\ overwritten' \in BOOLEAN
         /\ UpToDate(p) => behind' \subseteq Process
  BY HistoryTypes
<1>1. CASE ResumeReads
  BY <1>0, <1>h, <1>1 DEF ResumeReads
<1>2. CASE ResumeWrites
  <2>1. view[Owner] \in State /\ 0 \in 0..MaxConsecutiveFailures
    BY <1>0
  <2>2. [view[Owner] EXCEPT !.suspended = FALSE] \in State
    BY <2>1 DEF State
  <2>3. /\ pc' \in [Process -> Places] /\ view' \in [Process -> State]
        /\ UNCHANGED <<lock, mode, backup, runs, elapsed>>
    BY <1>0, <1>2 DEF ResumeWrites
  <2>4. state' \in State /\ streak' \in 0..MaxConsecutiveFailures
    BY <1>2, <2>1, <2>2 DEF ResumeWrites
  <2>5. behind' \subseteq Process /\ overwritten' \in BOOLEAN
    BY <1>0, <1>2, <1>h DEF ResumeWrites
  <2>6. {manuals', crashes', faults', rollbacks'} \subseteq Nat
    BY <1>2 DEF ResumeWrites
  <2> QED
    BY <2>3, <2>4, <2>5, <2>6
<1>3. CASE RollbackLocks
  BY <1>3 DEF RollbackLocks
<1>4. CASE RollbackRestores
  <2>1. state' \in State /\ streak' \in 0..MaxConsecutiveFailures
    BY <1>4 DEF RollbackRestores
  <2>2. behind' \subseteq Process /\ overwritten' \in BOOLEAN
    BY <1>0, <1>4, <1>h DEF RollbackRestores
  <2>3. /\ pc' \in [Process -> Places] /\ {manuals', crashes', faults', rollbacks'} \subseteq Nat
        /\ UNCHANGED <<lock, view, mode, backup, runs, elapsed>>
    BY <1>0, <1>4 DEF RollbackRestores
  <2> QED
    BY <2>1, <2>2, <2>3
<1>5. CASE Release(Owner)
  BY <1>0, <1>h, <1>5 DEF Release
<1>6. ASSUME NEW p \in Process, Crash(p) PROVE TypeOK'
  BY <1>0, <1>h, <1>6 DEF Crash
<1>7. CASE LockExpires \/ CadenceElapses
  BY <1>7 DEF LockExpires, CadenceElapses
<1> QED
  BY <1>1, <1>2, <1>3, <1>4, <1>5, <1>6, <1>7 DEF OwnerAct, Outside

LEMMA BaseNext ==
    ASSUME BaseInv, [Next]_vars
    PROVE  BaseInv'
<1> USE AutomationAssumption DEF BaseInv, Process, Cycler
<1>1. ASSUME NEW p \in Cycler, TickStep(p) PROVE BaseInv'
  BY <1>1, CyclerTypes DEF TickStep, TickReads, TickInspectsLock, TickDecides, Goto, TypeOK,
     LockInv, Holding, Cycling
<1>2. ASSUME NEW p \in Cycler, StartStep(p) PROVE BaseInv'
  BY <1>2, CyclerTypes DEF StartStep, ManualCycle, AcquireLock, ReadUnderLock, BackUp, StartRun,
     Goto, TypeOK, State, LockInv, Holding, Cycling
<1>3. ASSUME NEW p \in Cycler, EndStep(p) PROVE BaseInv'
  BY <1>3, CyclerTypes DEF EndStep, CompleteRun, FailRun, LoseOutcome, Release, Goto, TypeOK,
     LockInv, Holding, Cycling
<1>4. CASE OwnerAct
  BY <1>4, OwnerTypes DEF OwnerAct, ResumeReads, ResumeWrites, RollbackLocks, RollbackRestores,
     Release, Goto, TypeOK, LockInv, Holding, Cycling
<1>5. CASE Outside
  BY <1>5, OwnerTypes DEF Outside, Crash, LockExpires, CadenceElapses, TypeOK, LockInv, Holding,
     Cycling
<1>6. CASE UNCHANGED vars
  BY <1>6 DEF vars, clockVars, historyVars, countVars, TypeOK, LockInv
<1> QED
  BY <1>1, <1>2, <1>3, <1>4, <1>5, <1>6, StepKinds

-----------------------------------------------------------------------------
(* Every step keeps each conjunct of the invariant.                        *)

(* Who writes leaves the others that read behind.                          *)
LEMMA ReadStep ==
    ASSUME BaseInv, ReadInv, [Next]_vars
    PROVE  ReadInv'
<1> USE AutomationAssumption DEF Process, Cycler, Goto, Ends, clockVars, countVars, historyVars,
        ReadInv, Reading
<1> USE DEF BaseInv, TypeOK
<1>1. ASSUME NEW p \in Cycler, TickReads(p) PROVE ReadInv'
  BY <1>1 DEF TickReads, ReadState, UpToDate
<1>2. ASSUME NEW p \in Cycler, TickInspectsLock(p) PROVE ReadInv'
  BY <1>2 DEF TickInspectsLock, UpToDate
<1>3. ASSUME NEW p \in Cycler, TickDecides(p) PROVE ReadInv'
  BY <1>3 DEF TickDecides, Observed, Wrote, UpToDate
<1>4. ASSUME NEW p \in Cycler, ManualCycle(p) \/ AcquireLock(p) PROVE ReadInv'
  BY <1>4 DEF ManualCycle, AcquireLock
<1>5. ASSUME NEW p \in Cycler, ReadUnderLock(p) PROVE ReadInv'
  BY <1>5 DEF ReadUnderLock, ReadState, UpToDate, MayStart
<1>6. ASSUME NEW p \in Cycler, BackUp(p) PROVE ReadInv'
  BY <1>6 DEF BackUp
<1>7. ASSUME NEW p \in Cycler, StartRun(p) PROVE ReadInv'
  BY <1>7 DEF StartRun, Wrote
<1>8. ASSUME NEW p \in Cycler, CompleteRun(p) PROVE ReadInv'
  BY <1>8 DEF CompleteRun, Wrote
<1>9. ASSUME NEW p \in Cycler, FailRun(p) PROVE ReadInv'
  BY <1>9 DEF FailRun, Wrote
<1>10. ASSUME NEW p \in Cycler, LoseOutcome(p) PROVE ReadInv'
  BY <1>10 DEF LoseOutcome
<1>11. ASSUME NEW p \in Process, Release(p) PROVE ReadInv'
  BY <1>11 DEF Release, UpToDate
<1>12. CASE ResumeReads
  BY <1>12 DEF ResumeReads, ReadState, UpToDate
<1>13. CASE ResumeWrites
  BY <1>13 DEF ResumeWrites, Wrote, UpToDate
<1>14. CASE RollbackLocks
  BY <1>14 DEF RollbackLocks
<1>15. CASE RollbackRestores
  BY <1>15 DEF RollbackRestores, Wrote
<1>16. ASSUME NEW p \in Process, Crash(p) PROVE ReadInv'
  BY <1>16 DEF Crash, UpToDate
<1>17. CASE LockExpires \/ CadenceElapses
  BY <1>17 DEF LockExpires, CadenceElapses
<1>18. CASE UNCHANGED vars
  BY <1>18 DEF vars
<1> QED
  BY <1>1, <1>2, <1>3, <1>4, <1>5, <1>6, <1>7, <1>8, <1>9,
     <1>10, <1>11, <1>12, <1>13, <1>14, <1>15, <1>16, <1>17, <1>18
     DEF Next, CycleStep, OwnerStep

(* A run that nobody has overwritten is as its own write left it.          *)
LEMMA RunStep ==
    ASSUME BaseInv, RunInv, [Next]_vars
    PROVE  RunInv'
<1> USE AutomationAssumption DEF Process, Cycler, Goto, Ends, clockVars, countVars, historyVars,
        RunInv, Reading
<1> USE DEF BaseInv, TypeOK
<1>1. ASSUME NEW p \in Cycler, TickReads(p) PROVE RunInv'
  BY <1>1 DEF TickReads, ReadState, UpToDate
<1>2. ASSUME NEW p \in Cycler, TickInspectsLock(p) PROVE RunInv'
  BY <1>2 DEF TickInspectsLock, UpToDate
<1>3. ASSUME NEW p \in Cycler, TickDecides(p) PROVE RunInv'
  BY <1>3 DEF TickDecides, Observed, Wrote, UpToDate
<1>4. ASSUME NEW p \in Cycler, ManualCycle(p) \/ AcquireLock(p) PROVE RunInv'
  BY <1>4 DEF ManualCycle, AcquireLock
<1>5. ASSUME NEW p \in Cycler, ReadUnderLock(p) PROVE RunInv'
  BY <1>5 DEF ReadUnderLock, ReadState, UpToDate, MayStart
<1>6. ASSUME NEW p \in Cycler, BackUp(p) PROVE RunInv'
  BY <1>6 DEF BackUp
<1>7. ASSUME NEW p \in Cycler, StartRun(p) PROVE RunInv'
  <2>1. /\ pc'[p] # "running" => state' = state /\ behind' = behind
        /\ pc'[p] = "running" => Wrote(p) /\ state' = [view[p] EXCEPT !.active = p]
        /\ view' = view /\ \A q \in Cycler \ {p} : pc'[q] = pc[q]
    BY <1>7 DEF StartRun
  <2>2. SUFFICES ASSUME NEW q \in Cycler, pc'[q] = "running", q \notin behind'
                 PROVE  state' = [view'[q] EXCEPT !.active = q]
    OBVIOUS
  <2>3. CASE q = p
    BY <2>1, <2>2, <2>3
  <2>4. CASE q # p
    BY <2>1, <2>2, <2>4 DEF Wrote
  <2> QED
    BY <2>3, <2>4
<1>8. ASSUME NEW p \in Cycler, CompleteRun(p) PROVE RunInv'
  BY <1>8 DEF CompleteRun, Wrote
<1>9. ASSUME NEW p \in Cycler, FailRun(p) PROVE RunInv'
  BY <1>9 DEF FailRun, Wrote
<1>10. ASSUME NEW p \in Cycler, LoseOutcome(p) PROVE RunInv'
  BY <1>10 DEF LoseOutcome
<1>11. ASSUME NEW p \in Process, Release(p) PROVE RunInv'
  BY <1>11 DEF Release, UpToDate
<1>12. CASE ResumeReads
  BY <1>12 DEF ResumeReads, ReadState, UpToDate
<1>13. CASE ResumeWrites
  BY <1>13 DEF ResumeWrites, Wrote, UpToDate
<1>14. CASE RollbackLocks
  BY <1>14 DEF RollbackLocks
<1>15. CASE RollbackRestores
  BY <1>15 DEF RollbackRestores, Wrote
<1>16. ASSUME NEW p \in Process, Crash(p) PROVE RunInv'
  BY <1>16 DEF Crash, UpToDate
<1>17. CASE LockExpires \/ CadenceElapses
  BY <1>17 DEF LockExpires, CadenceElapses
<1>18. CASE UNCHANGED vars
  BY <1>18 DEF vars
<1> QED
  BY <1>1, <1>2, <1>3, <1>4, <1>5, <1>6, <1>7, <1>8, <1>9,
     <1>10, <1>11, <1>12, <1>13, <1>14, <1>15, <1>16, <1>17, <1>18
     DEF Next, CycleStep, OwnerStep

(* A run keeps the reading it has under its lock.                          *)
LEMMA CycleStepKeeps ==
    ASSUME BaseInv, CycleInv, [Next]_vars
    PROVE  CycleInv'
<1> USE AutomationAssumption DEF Process, Cycler, Goto, Ends, clockVars, countVars, historyVars,
        CycleInv, Cycling, LockInv
<1> USE DEF BaseInv, TypeOK
<1>1. ASSUME NEW p \in Cycler, TickReads(p) PROVE CycleInv'
  BY <1>1 DEF TickReads, ReadState, UpToDate
<1>2. ASSUME NEW p \in Cycler, TickInspectsLock(p) PROVE CycleInv'
  BY <1>2 DEF TickInspectsLock, UpToDate
<1>3. ASSUME NEW p \in Cycler, TickDecides(p) PROVE CycleInv'
  BY <1>3 DEF TickDecides, Observed, Wrote, UpToDate
<1>4. ASSUME NEW p \in Cycler, ManualCycle(p) \/ AcquireLock(p) PROVE CycleInv'
  BY <1>4 DEF ManualCycle, AcquireLock
<1>5. ASSUME NEW p \in Cycler, ReadUnderLock(p) PROVE CycleInv'
  BY <1>5 DEF ReadUnderLock, ReadState, UpToDate, MayStart
<1>6. ASSUME NEW p \in Cycler, BackUp(p) PROVE CycleInv'
  BY <1>6 DEF BackUp
<1>7. ASSUME NEW p \in Cycler, StartRun(p) PROVE CycleInv'
  BY <1>7 DEF StartRun, Wrote
<1>8. ASSUME NEW p \in Cycler, CompleteRun(p) PROVE CycleInv'
  BY <1>8 DEF CompleteRun, Wrote
<1>9. ASSUME NEW p \in Cycler, FailRun(p) PROVE CycleInv'
  BY <1>9 DEF FailRun, Wrote
<1>10. ASSUME NEW p \in Cycler, LoseOutcome(p) PROVE CycleInv'
  BY <1>10 DEF LoseOutcome
<1>11. ASSUME NEW p \in Process, Release(p) PROVE CycleInv'
  BY <1>11 DEF Release, UpToDate
<1>12. CASE ResumeReads
  BY <1>12 DEF ResumeReads, ReadState, UpToDate
<1>13. CASE ResumeWrites
  BY <1>13 DEF ResumeWrites, Wrote, UpToDate
<1>14. CASE RollbackLocks
  BY <1>14 DEF RollbackLocks
<1>15. CASE RollbackRestores
  BY <1>15 DEF RollbackRestores, Wrote
<1>16. ASSUME NEW p \in Process, Crash(p) PROVE CycleInv'
  BY <1>16 DEF Crash, UpToDate
<1>17. CASE LockExpires \/ CadenceElapses
  BY <1>17 DEF LockExpires, CadenceElapses
<1>18. CASE UNCHANGED vars
  BY <1>18 DEF vars
<1> QED
  BY <1>1, <1>2, <1>3, <1>4, <1>5, <1>6, <1>7, <1>8, <1>9,
     <1>10, <1>11, <1>12, <1>13, <1>14, <1>15, <1>16, <1>17, <1>18
     DEF Next, CycleStep, OwnerStep

(* Publications are numbered as they come.                                 *)
LEMMA PointerStep ==
    ASSUME BaseInv, PointerInv, [Next]_vars
    PROVE  PointerInv'
<1> USE AutomationAssumption DEF Process, Cycler, Goto, Ends, clockVars, countVars, historyVars,
        PointerInv, Published, InitialState
<1> USE DEF BaseInv, TypeOK, State
<1>1. ASSUME NEW p \in Cycler, TickReads(p) PROVE PointerInv'
  BY <1>1 DEF TickReads, ReadState, UpToDate
<1>2. ASSUME NEW p \in Cycler, TickInspectsLock(p) PROVE PointerInv'
  BY <1>2 DEF TickInspectsLock, UpToDate
<1>3. ASSUME NEW p \in Cycler, TickDecides(p) PROVE PointerInv'
  BY <1>3 DEF TickDecides, Observed, Wrote, UpToDate
<1>4. ASSUME NEW p \in Cycler, ManualCycle(p) \/ AcquireLock(p) PROVE PointerInv'
  BY <1>4 DEF ManualCycle, AcquireLock
<1>5. ASSUME NEW p \in Cycler, ReadUnderLock(p) PROVE PointerInv'
  BY <1>5 DEF ReadUnderLock, ReadState, UpToDate, MayStart
<1>6. ASSUME NEW p \in Cycler, BackUp(p) PROVE PointerInv'
  BY <1>6 DEF BackUp
<1>7. ASSUME NEW p \in Cycler, StartRun(p) PROVE PointerInv'
  BY <1>7 DEF StartRun, Wrote
<1>8. ASSUME NEW p \in Cycler, CompleteRun(p) PROVE PointerInv'
  <2>1. /\ state'.scanner \in {view[p].scanner, runs + 1} /\ state'.context = runs + 1
        /\ runs' = runs + 1 /\ view' = view /\ backup' = backup
    BY <1>8 DEF CompleteRun, CompletedState
  <2>2. view[p] \in State /\ state \in State /\ \A q \in Process : view[q] \in State
    OBVIOUS
  <2> QED
    BY <2>1, <2>2
<1>9. ASSUME NEW p \in Cycler, FailRun(p) PROVE PointerInv'
  <2>1. view[p] \in State
    OBVIOUS
  <2>2. /\ state'.scanner = view[p].scanner /\ state'.context = view[p].context
        /\ runs' = runs /\ view' = view /\ backup' = backup
    BY <1>9, <2>1 DEF FailRun, FailedState
  <2> QED
    BY <2>1, <2>2
<1>10. ASSUME NEW p \in Cycler, LoseOutcome(p) PROVE PointerInv'
  BY <1>10 DEF LoseOutcome
<1>11. ASSUME NEW p \in Process, Release(p) PROVE PointerInv'
  BY <1>11 DEF Release, UpToDate
<1>12. CASE ResumeReads
  BY <1>12 DEF ResumeReads, ReadState, UpToDate
<1>13. CASE ResumeWrites
  BY <1>13 DEF ResumeWrites, Wrote, UpToDate
<1>14. CASE RollbackLocks
  BY <1>14 DEF RollbackLocks
<1>15. CASE RollbackRestores
  BY <1>15 DEF RollbackRestores, Wrote
<1>16. ASSUME NEW p \in Process, Crash(p) PROVE PointerInv'
  BY <1>16 DEF Crash, UpToDate
<1>17. CASE LockExpires \/ CadenceElapses
  BY <1>17 DEF LockExpires, CadenceElapses
<1>18. CASE UNCHANGED vars
  BY <1>18 DEF vars
<1> QED
  BY <1>1, <1>2, <1>3, <1>4, <1>5, <1>6, <1>7, <1>8, <1>9,
     <1>10, <1>11, <1>12, <1>13, <1>14, <1>15, <1>16, <1>17, <1>18
     DEF Next, CycleStep, OwnerStep

(* Who is not behind counts on from the count in the file.                 *)
LEMMA CountStep ==
    ASSUME BaseInv, ReadInv, RunInv, CountInv, [Next]_vars
    PROVE  CountInv'
<1> USE AutomationAssumption DEF Process, Cycler, Goto, Ends, clockVars, countVars, historyVars,
        CountInv, FailuresTrip, ReadInv, RunInv, Reading, Streak
<1> USE DEF BaseInv, TypeOK, State
<1>1. ASSUME NEW p \in Cycler, TickReads(p) PROVE CountInv'
  BY <1>1 DEF TickReads, ReadState, UpToDate
<1>2. ASSUME NEW p \in Cycler, TickInspectsLock(p) PROVE CountInv'
  BY <1>2 DEF TickInspectsLock, UpToDate
<1>3. ASSUME NEW p \in Cycler, TickDecides(p) PROVE CountInv'
  BY <1>3 DEF TickDecides, Observed, Wrote, UpToDate
<1>4. ASSUME NEW p \in Cycler, ManualCycle(p) \/ AcquireLock(p) PROVE CountInv'
  BY <1>4 DEF ManualCycle, AcquireLock
<1>5. ASSUME NEW p \in Cycler, ReadUnderLock(p) PROVE CountInv'
  BY <1>5 DEF ReadUnderLock, ReadState, UpToDate, MayStart
<1>6. ASSUME NEW p \in Cycler, BackUp(p) PROVE CountInv'
  BY <1>6 DEF BackUp
<1>7. ASSUME NEW p \in Cycler, StartRun(p) PROVE CountInv'
  BY <1>7 DEF StartRun, Wrote
<1>8. ASSUME NEW p \in Cycler, CompleteRun(p) PROVE CountInv'
  <2>1. view[p] \in State /\ streak' = 0
    BY <1>8 DEF CompleteRun
  <2>2. state'.failures = 0
    BY <1>8, <2>1 DEF CompleteRun, CompletedState
  <2> QED
    BY <2>1, <2>2
<1>9. ASSUME NEW p \in Cycler, FailRun(p) PROVE CountInv'
  <2>1. PICK d \in BOOLEAN : state' = FailedState(p, d)
    BY <1>9 DEF FailRun
  <2>2. view[p] \in State /\ p \in Process /\ streak' = Counted(Streak(p))
    BY <1>9 DEF FailRun
  <2>3. /\ state'.failures = Counted(view[p].failures)
        /\ state'.failures >= MaxConsecutiveFailures => state'.suspended
    BY <2>1, <2>2 DEF FailedState
  <2>4. Streak(p) <= view[p].failures
    <3>1. CASE p \in behind
      BY <2>2, <3>1
    <3>2. CASE p \notin behind
      <4>1. state = [view[p] EXCEPT !.active = p]
        BY <1>9, <3>2 DEF FailRun
      <4> QED
        BY <2>2, <3>2, <4>1
    <3> QED
      BY <3>1, <3>2
  <2>5. Streak(p) \in Nat /\ view[p].failures \in Nat /\ view[p].failures <= MaxConsecutiveFailures
    BY <2>2
  <2>6. Counted(Streak(p)) <= Counted(view[p].failures)
    BY <2>4, <2>5 DEF Counted
  <2>7. streak' \in Nat /\ state'.failures \in Nat
    BY <2>2, <2>3, <2>5 DEF Counted
  <2> QED
    BY <2>2, <2>3, <2>6, <2>7
<1>10. ASSUME NEW p \in Cycler, LoseOutcome(p) PROVE CountInv'
  BY <1>10 DEF LoseOutcome
<1>11. ASSUME NEW p \in Process, Release(p) PROVE CountInv'
  BY <1>11 DEF Release, UpToDate
<1>12. CASE ResumeReads
  BY <1>12 DEF ResumeReads, ReadState, UpToDate
<1>13. CASE ResumeWrites
  BY <1>13 DEF ResumeWrites, Wrote, UpToDate
<1>14. CASE RollbackLocks
  BY <1>14 DEF RollbackLocks
<1>15. CASE RollbackRestores
  BY <1>15 DEF RollbackRestores, Wrote
<1>16. ASSUME NEW p \in Process, Crash(p) PROVE CountInv'
  BY <1>16 DEF Crash, UpToDate
<1>17. CASE LockExpires \/ CadenceElapses
  BY <1>17 DEF LockExpires, CadenceElapses
<1>18. CASE UNCHANGED vars
  BY <1>18 DEF vars
<1> QED
  BY <1>1, <1>2, <1>3, <1>4, <1>5, <1>6, <1>7, <1>8, <1>9,
     <1>10, <1>11, <1>12, <1>13, <1>14, <1>15, <1>16, <1>17, <1>18
     DEF Next, CycleStep, OwnerStep

(* Only crashes, failing writes and overwritings make trouble.             *)
LEMMA TroubleStep ==
    ASSUME BaseInv, [Next]_vars, NoTrouble'
    PROVE  NoTrouble /\ ~Fault /\ \A p \in Process : ~Crash(p) /\ (Wrote(p) => p \notin behind)
<1>1. {crashes, faults, crashes', faults'} \subseteq Nat /\ overwritten \in BOOLEAN
  BY BaseNext DEF BaseInv, TypeOK
<1>2. crashes' = 0 /\ faults' = 0 /\ ~overwritten'
  BY <1>1 DEF NoTrouble
<1>3. ~Fault
  BY <1>1, <1>2 DEF Fault
<1>4. ASSUME NEW p \in Process PROVE ~Crash(p)
  BY <1>1, <1>2 DEF Crash
<1>5. ASSUME NEW p \in Process PROVE Wrote(p) => p \notin behind /\ ~overwritten
  BY <1>1, <1>2 DEF Wrote
<1>6. UNCHANGED <<crashes, faults>> /\ ~overwritten
  <2> USE <1>2, <1>3, <1>4, <1>5 DEF Process, Cycler, clockVars, countVars, historyVars
  <2>1. ASSUME NEW p \in Cycler, TickStep(p) PROVE UNCHANGED <<crashes, faults>> /\ ~overwritten
    BY <1>1, <2>1 DEF TickStep, TickReads, TickInspectsLock, TickDecides
  <2>2. ASSUME NEW p \in Cycler, StartStep(p) PROVE UNCHANGED <<crashes, faults>> /\ ~overwritten
    BY <1>1, <2>2 DEF StartStep, ManualCycle, AcquireLock, ReadUnderLock, BackUp, StartRun
  <2>3. ASSUME NEW p \in Cycler, EndStep(p) PROVE UNCHANGED <<crashes, faults>> /\ ~overwritten
    BY <1>1, <2>3 DEF EndStep, CompleteRun, FailRun, LoseOutcome, Release
  <2>4. CASE OwnerAct
    BY <1>1, <2>4 DEF OwnerAct, ResumeReads, ResumeWrites, RollbackLocks, RollbackRestores,
       Release
  <2>5. CASE Outside \/ UNCHANGED vars
    BY <2>5 DEF Outside, LockExpires, CadenceElapses, vars
  <2> QED
    BY <2>1, <2>2, <2>3, <2>4, <2>5, StepKinds
<1> QED
  BY <1>1, <1>2, <1>3, <1>4, <1>5, <1>6 DEF NoTrouble

(* A run leaves the file before it leaves its place.                       *)
LEMMA ShownStep ==
    ASSUME BaseInv, ReadInv, ShownInv, [Next]_vars
    PROVE  ShownInv'
<1> USE AutomationAssumption DEF Process, Cycler, Goto, clockVars, countVars, historyVars
<1> DEFINE Shown(s, place) == s.active # None => place[s.active] = "running"
           Backed(b) == b # None => b.active = None
<1>1. SUFFICES ASSUME NoTrouble' PROVE Shown(state', pc') /\ Backed(backup')
  BY DEF ShownInv
<1>2. /\ NoTrouble /\ ~Fault
      /\ \A p \in Process : ~Crash(p) /\ (Wrote(p) => p \notin behind)
  BY <1>1, TroubleStep
<1>3. Shown(state, pc) /\ Backed(backup)
  BY <1>2 DEF ShownInv
<1>4. /\ pc \in [Process -> Places] /\ view \in [Process -> State]
      /\ state \in State /\ state.active \in Cycler \cup {None}
  BY DEF BaseInv, TypeOK, State
<1>5. \A p \in Process : pc[p] \in Reading \ {"running"} /\ p \notin behind => view[p] = state
  BY DEF ReadInv
<1>6. \A p \in Process : pc[p] # "running" /\ (\A q \in Process \ {p} : pc'[q] = pc[q]) =>
          Shown(state, pc')
  BY <1>3, <1>4
<1>7. ASSUME NEW p \in Cycler, TickStep(p) PROVE Shown(state', pc') /\ Backed(backup')
  <2>1. /\ pc[p] # "running" /\ \A q \in Process \ {p} : pc'[q] = pc[q]
        /\ state' = state /\ backup' = backup
    BY <1>2, <1>4, <1>5, <1>7 DEF TickStep, TickReads, TickInspectsLock, TickDecides, Observed,
       Reading
  <2> QED
    BY <1>3, <1>6, <2>1
<1>8. ASSUME NEW p \in Cycler, ManualCycle(p) \/ AcquireLock(p) \/ ReadUnderLock(p)
      PROVE  Shown(state', pc') /\ Backed(backup')
  <2>1. /\ pc[p] # "running" /\ \A q \in Process \ {p} : pc'[q] = pc[q]
        /\ state' = state /\ backup' = backup
    BY <1>2, <1>4, <1>8 DEF ManualCycle, AcquireLock, ReadUnderLock
  <2> QED
    BY <1>3, <1>6, <2>1
<1>9. ASSUME NEW p \in Cycler, BackUp(p) PROVE Shown(state', pc') /\ Backed(backup')
  <2>1. /\ pc[p] = "backing" /\ \A q \in Process \ {p} : pc'[q] = pc[q]
        /\ state' = state /\ backup' = state
    BY <1>2, <1>4, <1>9 DEF BackUp
  <2>2. \A q \in Cycler : pc[q] = "running" => q = p
    BY <2>1 DEF BaseInv, LockInv, Holding, Cycling
  <2>3. state.active = None
    BY <1>3, <1>4, <2>1, <2>2
  <2> QED
    BY <2>1, <2>3
<1>10. ASSUME NEW p \in Cycler, StartRun(p) PROVE Shown(state', pc') /\ Backed(backup')
  <2>1. /\ state' = [view[p] EXCEPT !.active = p] /\ pc'[p] = "running" /\ backup' = backup
    BY <1>2, <1>4, <1>10 DEF StartRun
  <2>2. state'.active = p
    BY <1>4, <2>1 DEF State
  <2> QED
    BY <1>3, <2>1, <2>2
<1>11. ASSUME NEW p \in Cycler, CompleteRun(p) \/ FailRun(p)
       PROVE  Shown(state', pc') /\ Backed(backup')
  <2>1. /\ state' = CompletedState(p) \/ \E d \in BOOLEAN : state' = FailedState(p, d)
        /\ backup' = backup
    BY <1>11 DEF CompleteRun, FailRun
  <2>2. state'.active = None
    BY <1>4, <2>1 DEF CompletedState, FailedState, State
  <2> QED
    BY <1>3, <2>1, <2>2
<1>12. ASSUME NEW p \in Cycler, LoseOutcome(p) PROVE FALSE
  BY <1>2, <1>12 DEF LoseOutcome
<1>13. ASSUME NEW p \in Process, Release(p) PROVE Shown(state', pc') /\ Backed(backup')
  <2>1. /\ pc[p] # "running" /\ \A q \in Process \ {p} : pc'[q] = pc[q]
        /\ state' = state /\ backup' = backup
    BY <1>4, <1>13 DEF Release
  <2> QED
    BY <1>3, <1>6, <2>1
<1>14. CASE ResumeReads \/ RollbackLocks
  <2>1. /\ pc[Owner] # "running" /\ \A q \in Process \ {Owner} : pc'[q] = pc[q]
        /\ state' = state /\ backup' = backup
    BY <1>4, <1>14 DEF ResumeReads, RollbackLocks
  <2> QED
    BY <1>3, <1>6, <2>1
<1>15. CASE ResumeWrites
  <2>1. /\ pc[Owner] = "confirming" /\ \A q \in Process \ {Owner} : pc'[q] = pc[q]
        /\ Wrote(Owner) /\ state' = [view[Owner] EXCEPT !.suspended = FALSE]
        /\ backup' = backup
    BY <1>2, <1>4, <1>15 DEF ResumeWrites
  <2>2. view[Owner] = state
    BY <1>2, <1>5, <2>1 DEF Reading
  <2>3. state'.active = state.active
    BY <1>4, <2>1, <2>2 DEF State
  <2> QED
    BY <1>3, <1>6, <2>1, <2>3
<1>16. CASE RollbackRestores
  <2>1. state' = backup /\ backup' = backup /\ backup # None
    BY <1>2, <1>16 DEF RollbackRestores, BaseInv
  <2> QED
    BY <1>3, <2>1
<1>17. CASE LockExpires \/ CadenceElapses \/ UNCHANGED vars
  BY <1>3, <1>17 DEF LockExpires, CadenceElapses, vars
<1> QED
  BY <1>2, <1>7, <1>8, <1>9, <1>10, <1>11, <1>12, <1>13, <1>14, <1>15, <1>16, <1>17
     DEF Next, CycleStep, OwnerStep, TickStep

-----------------------------------------------------------------------------
LEMMA BaseInvariance == Spec => []BaseInv
<1>1. Init => BaseInv
  BY InvInit DEF Inv
<1> QED
  BY <1>1, BaseNext, PTL DEF Spec

(* Every reachable file and process has its type.                          *)
THEOREM TypeCorrect == Spec => []TypeOK
<1>1. BaseInv => TypeOK
  BY DEF BaseInv
<1> QED
  BY <1>1, BaseInvariance, PTL

(* The lock alone keeps runs apart: however ticks, manual cycles, crashes  *)
(* and lost releases interleave, one run at a time is between its lock and *)
(* its release ("One runner executes one cycle of the collector",          *)
(* docs/vps_deployment_automation.md:100), and no rollback restores the    *)
(* files beside it.                                                        *)
OneRun == \A p, q \in Cycler : pc[p] \in Holding /\ pc[q] \in Holding => p = q
RollbackAlone == \A p \in Cycler : pc[p] \in Holding => pc[Owner] # "rolling"
THEOREM RunsExclude == Spec => [](OneRun /\ RollbackAlone)
<1>1. BaseInv => OneRun /\ RollbackAlone
  BY AutomationAssumption DEF BaseInv, LockInv, OneRun, RollbackAlone, Cycler
<1> QED
  BY <1>1, BaseInvariance, PTL

(* The holders of the abstract lock are the runs and rollbacks that go by  *)
(* holding the file.                                                       *)
UsesLock(p) == pc[p] \in Holding \cup {"rolling"}
Global == INSTANCE GlobalLock WITH Client <- Process, holders <- {p \in Process : UsesLock(p)}

(* A step changes where one process is.                                    *)
LEMMA UseStep ==
    ASSUME TypeOK, [Next]_vars
    PROVE  \/ pc' = pc
           \/ \E p \in Process : \A q \in Process \ {p} : pc'[q] = pc[q]
<1> USE DEF TypeOK, Goto
<1>1. ASSUME NEW p \in Cycler, TickStep(p) \/ StartStep(p) \/ EndStep(p)
      PROVE  \A q \in Process \ {p} : pc'[q] = pc[q]
  BY <1>1 DEF TickStep, TickReads, TickInspectsLock, TickDecides, StartStep, ManualCycle,
     AcquireLock, ReadUnderLock, BackUp, StartRun, EndStep, CompleteRun, FailRun, LoseOutcome,
     Release
<1>2. CASE OwnerAct
  BY <1>2 DEF OwnerAct, ResumeReads, ResumeWrites, RollbackLocks, RollbackRestores, Release,
     Process
<1>3. CASE Outside \/ UNCHANGED vars
  BY <1>3 DEF Outside, Crash, LockExpires, CadenceElapses, vars
<1> QED
  BY <1>1, <1>2, <1>3, StepKinds DEF Process

(* Runs and rollbacks use the lock as GlobalLock has it: the exclusion     *)
(* that this module counts on is the one that the protocol of the lock     *)
(* file implements (LockImplements of CollectorLock_proofs).               *)
THEOREM AutomationLocks == Spec => Global!Spec
<1>1. Init => Global!Init
  BY AutomationAssumption DEF Init, Global!Init, UsesLock, Holding, Cycling
<1>2. ASSUME BaseInv, [Next]_vars
      PROVE  [Global!Next]_{p \in Process : UsesLock(p)}
  <2>1. BaseInv' /\ TypeOK
    BY <1>2, BaseNext DEF BaseInv
  <2>2. \A p \in Process : UsesLock(p)' => lock' = p
    BY <2>1 DEF BaseInv, LockInv, UsesLock, Holding, Cycling, Process
  <2>3. CASE pc' = pc
    BY <2>3 DEF UsesLock
  <2>4. ASSUME NEW p \in Process, \A q \in Process \ {p} : pc'[q] = pc[q]
        PROVE  [Global!Next]_{q \in Process : UsesLock(q)}
    <3>1. \A q \in Process \ {p} : UsesLock(q)' <=> UsesLock(q)
      BY <2>4 DEF UsesLock
    <3>2. CASE UsesLock(p)' <=> UsesLock(p)
      BY <3>1, <3>2
    <3>3. CASE UsesLock(p)' /\ ~UsesLock(p)
      <4>1. \A q \in Process : UsesLock(q)' <=> q = p
        BY <2>2, <3>3
      <4>2. \A q \in Process : ~UsesLock(q)
        BY <3>1, <3>3, <4>1
      <4> QED
        BY <4>1, <4>2 DEF Global!Next, Global!Take
    <3>4. CASE UsesLock(p) /\ ~UsesLock(p)'
      BY <3>1, <3>4 DEF Global!Next, Global!Leave
    <3> QED
      BY <3>2, <3>3, <3>4
  <2> QED
    BY <1>2, <2>1, <2>3, <2>4, UseStep
<1> QED
  BY <1>1, <1>2, BaseInvariance, PTL DEF Spec, Global!Spec

-----------------------------------------------------------------------------
LEMMA Invariance == Spec => []Inv
<1>1. ASSUME Inv, [Next]_vars PROVE Inv'
  BY <1>1, BaseNext, ReadStep, RunStep, CycleStepKeeps, CountStep, PointerStep, ShownStep DEF Inv
<1> QED
  BY <1>1, InvInit, PTL DEF Spec

(* Whatever overlaps, nobody starts a run over a suspension that is there: *)
(* beside a run the file says suspended only when somebody else has written*)
(* it since the run began.                                                 *)
THEOREM SuspendedRunsNothing == Spec => []NoRunWhileSuspended
<1>1. ASSUME Inv, NEW p \in Cycler, pc[p] = "running", state.suspended, p \notin behind
      PROVE  FALSE
  <2>1. state = [view[p] EXCEPT !.active = p] /\ ~view[p].suspended
    BY <1>1 DEF Inv, RunInv, CycleInv, Cycling
  <2>2. view[p] \in State
    BY <1>1 DEF Inv, BaseInv, TypeOK, Process
  <2> QED
    BY <1>1, <2>1, <2>2 DEF State
<1>2. Inv => NoRunWhileSuspended
  BY <1>1 DEF NoRunWhileSuspended
<1> QED
  BY <1>2, Invariance, PTL

(* However ticks, overlapping cycles, crashes and owner actions interleave,*)
(* the limit of consecutive failures suspends the automation, counted since*)
(* the last publication, owner action or overwriting of the file.          *)
THEOREM FailuresSuspend == Spec => []FailuresTrip
<1>1. Inv => FailuresTrip
  BY DEF Inv, CountInv
<1> QED
  BY <1>1, Invariance, PTL

(* A run in progress that the file shows is one that goes on, whatever     *)
(* overlaps, until a crash, a failing write or an overwriting.             *)
THEOREM ShownRuns == Spec => []ShownRunIsReal
<1>1. ASSUME Inv, crashes + faults = 0 \/ ~(crashes + faults > 0)
      PROVE  ShownRunIsReal
  <2>1. crashes \in Nat /\ faults \in Nat
    BY <1>1 DEF Inv, BaseInv, TypeOK
  <2>2. ShownInv /\ crashes + faults = 0
    BY <1>1, <2>1 DEF Inv
  <2> QED
    BY <2>2 DEF ShownInv, NoTrouble, ShownRunIsReal
<1>2. Inv => ShownRunIsReal
  BY <1>1 DEF ShownRunIsReal
<1> QED
  BY <1>2, Invariance, PTL

(* What a process that is not behind writes over the file.                 *)
LEMMA UpToDateWrites ==
    ASSUME Inv, [Next]_vars, ~BehindMoves, ~ResumeWrites, ~RollbackRestores
    PROVE  \/ /\ state'.suspended = state.suspended
              /\ state'.scanner = state.scanner /\ state'.context = state.context
           \/ \E p \in Cycler : /\ CompleteRun(p) \/ FailRun(p)
                                /\ state = [view[p] EXCEPT !.active = p] /\ ~view[p].suspended
<1> DEFINE Kept == /\ state'.suspended = state.suspended
                   /\ state'.scanner = state.scanner /\ state'.context = state.context
<1> USE AutomationAssumption DEF Process, Cycler
<1>1. state \in State /\ view \in [Process -> State] /\ pc \in [Process -> Places]
  BY DEF Inv, BaseInv, TypeOK
<1>2. ASSUME NEW p \in Process, p \in behind PROVE pc'[p] = pc[p]
  BY <1>2 DEF BehindMoves
<1>3. ASSUME NEW p \in Cycler, TickDecides(p) PROVE Kept
  <2>1. p \notin behind /\ pc[p] \in {"free", "busy"}
    <3>1. pc'[p] # pc[p] /\ pc[p] \in {"free", "busy"}
      BY <1>1, <1>3 DEF TickDecides
    <3> QED
      BY <1>2, <3>1
  <2>2. view[p] = state
    BY <2>1 DEF Inv, ReadInv, Reading
  <2> QED
    BY <1>3, <2>2 DEF TickDecides, Observed
<1>4. ASSUME NEW p \in Cycler, StartRun(p) PROVE Kept
  <2>1. p \notin behind /\ pc[p] = "starting"
    <3>1. pc'[p] # pc[p] /\ pc[p] = "starting"
      BY <1>1, <1>4 DEF StartRun, Goto
    <3> QED
      BY <1>2, <3>1
  <2>2. view[p] = state
    BY <2>1 DEF Inv, ReadInv, Reading
  <2> QED
    BY <1>1, <1>4, <2>2 DEF StartRun, State
<1>5. ASSUME NEW p \in Cycler, CompleteRun(p) \/ FailRun(p)
      PROVE  state = [view[p] EXCEPT !.active = p] /\ ~view[p].suspended
  <2>1. p \notin behind /\ pc[p] = "running"
    <3>1. pc'[p] # pc[p] /\ pc[p] = "running"
      BY <1>1, <1>5 DEF CompleteRun, FailRun, Goto
    <3> QED
      BY <1>2, <3>1
  <2> QED
    BY <2>1 DEF Inv, RunInv, CycleInv, Cycling
<1>6. ASSUME NEW p \in Cycler, TickReads(p) \/ TickInspectsLock(p) \/ ManualCycle(p)
             \/ AcquireLock(p) \/ ReadUnderLock(p) \/ BackUp(p) \/ LoseOutcome(p)
      PROVE  Kept
  BY <1>6 DEF TickReads, TickInspectsLock, ManualCycle, AcquireLock, ReadUnderLock, BackUp,
     LoseOutcome
<1>7. ASSUME NEW p \in Process, Release(p) \/ Crash(p) PROVE Kept
  BY <1>7 DEF Release, Crash
<1>8. CASE ResumeReads \/ RollbackLocks \/ LockExpires \/ CadenceElapses \/ UNCHANGED vars
  BY <1>8 DEF ResumeReads, RollbackLocks, LockExpires, CadenceElapses, vars
<1> QED
  BY <1>3, <1>4, <1>5, <1>6, <1>7, <1>8 DEF Next, CycleStep, OwnerStep

(* Only the owner and the write-back of a reading older than the file take *)
(* a suspension away; ticks, cycles and crashes that are up to date never  *)
(* do, whatever overlaps.                                                  *)
THEOREM SuspensionHolds == Spec => SuspensionSticks
<1>1. ASSUME Inv, [Next]_vars
      PROVE  state.suspended /\ ~state'.suspended =>
                 ResumeWrites \/ RollbackRestores \/ BehindMoves
  <2>1. SUFFICES ASSUME state.suspended, ~BehindMoves, ~ResumeWrites, ~RollbackRestores
                 PROVE  state'.suspended
    OBVIOUS
  <2>2. ASSUME NEW p \in Cycler, state = [view[p] EXCEPT !.active = p], ~view[p].suspended
        PROVE  FALSE
    <3>1. view[p] \in State
      BY <1>1 DEF Inv, BaseInv, TypeOK, Process
    <3> QED
      BY <2>1, <2>2, <3>1 DEF State
  <2> QED
    BY <1>1, <2>1, <2>2, UpToDateWrites
<1> QED
  BY <1>1, Invariance, PTL DEF Spec, SuspensionSticks

(* The published pointers go back only by the owner's rollback and by the  *)
(* write-back of a reading older than the file, whatever overlaps.         *)
THEOREM PointersAdvance == Spec => PointersForward
<1>1. ASSUME Inv, [Next]_vars
      PROVE  \/ state'.scanner >= state.scanner /\ state'.context >= state.context
             \/ RollbackRestores \/ BehindMoves
  <2>1. SUFFICES ASSUME ~BehindMoves, ~RollbackRestores
                 PROVE  state'.scanner >= state.scanner /\ state'.context >= state.context
    OBVIOUS
  <2>2. /\ state \in State /\ view \in [Process -> State] /\ runs \in Nat
        /\ pc \in [Process -> Places] /\ Published(state)
    BY <1>1 DEF Inv, BaseInv, TypeOK, PointerInv
  <2>3. CASE ResumeWrites
    <3>1. pc[Owner] = "confirming" /\ pc'[Owner] = "idle" /\ Owner \in Process
      BY <2>2, <2>3 DEF ResumeWrites, Goto, Process
    <3>2. view[Owner] = state
      BY <1>1, <2>1, <3>1 DEF BehindMoves, Inv, ReadInv, Reading
    <3>3. state'.scanner = state.scanner /\ state'.context = state.context
      BY <2>2, <2>3, <3>2 DEF ResumeWrites, State
    <3> QED
      BY <2>2, <3>3 DEF State
  <2>4. CASE state'.scanner = state.scanner /\ state'.context = state.context
    BY <2>2, <2>4 DEF State
  <2>5. ASSUME NEW p \in Cycler, CompleteRun(p) \/ FailRun(p),
               state = [view[p] EXCEPT !.active = p]
        PROVE  state'.scanner >= state.scanner /\ state'.context >= state.context
    <3>1. view[p] \in State
      BY <2>2 DEF Process
    <3>2. view[p].scanner = state.scanner /\ view[p].context = state.context
      BY <2>5, <3>1 DEF State
    <3>3. /\ state'.scanner \in {view[p].scanner, runs + 1}
          /\ state'.context \in {view[p].context, runs + 1}
      BY <2>5, <3>1 DEF CompleteRun, CompletedState, FailRun, FailedState, State
    <3> QED
      BY <2>2, <3>2, <3>3 DEF Published, State
  <2> QED
    BY <1>1, <2>1, <2>3, <2>4, <2>5, UpToDateWrites
<1> QED
  BY <1>1, Invariance, PTL DEF Spec, PointersForward

=============================================================================
