--------------------------- MODULE CentralAutomation ---------------------------
(***************************************************************************)
(* automation-state.json and the processes that read and write it: the     *)
(* scheduler that a task wakes (runCentralSchedulerOnce), the owner's      *)
(* manual cycle (runCentralLiveCycleOnce), both through the coordinator    *)
(* (runCentralAutomation), and the owner's resume and rollback.  The file  *)
(* is replaced whole by an atomic rename; the coordinator and the rollback *)
(* write it under the global lock, the scheduler's observation and the     *)
(* resume write back, without the lock, what they read before.             *)
(*                                                                         *)
(* The lock is mutual exclusion here (CollectorLock is its protocol); the  *)
(* lock of a dead process is Dead until its deadline passes.  Publications *)
(* are numbered; the scanner is due when the interval of the publication   *)
(* its pointer names has elapsed; whether context sources are due is a     *)
(* choice.  Fields that no property tells apart are left out.              *)
(*                                                                         *)
(* Bounds: MaxRuns publications, MaxCrashes, MaxFaults failing file        *)
(* operations, MaxRollbacks; consecutive_failure_count is only compared    *)
(* with its limit and is kept saturated at it.                             *)
(***************************************************************************)
EXTENDS Naturals

CONSTANTS Scheduler,    \* scheduler tasks, at most one instance of each (IgnoreNew)
          Manual,       \* manual live cycles
          Owner,        \* the owner's console: resume and rollback
          None, Free, Dead,
          MaxConsecutiveFailures,
          MaxRuns, MaxManuals, MaxCrashes, MaxFaults, MaxRollbacks

Cycler == Scheduler \cup Manual
Process == Cycler \cup {Owner}

ASSUME AutomationAssumption ==
    /\ Owner \notin Cycler
    /\ Scheduler \cap Manual = {}
    /\ {None, Free, Dead} \cap Process = {} /\ Free # Dead
    /\ MaxConsecutiveFailures \in Nat \ {0}
    /\ {MaxRuns, MaxManuals, MaxCrashes, MaxFaults, MaxRollbacks} \subseteq Nat

VARIABLES
    state,              \* automation-state.json
    lock,               \* its holder
    pc, view, mode,     \* a process's place, the state it has read, its run mode
    backup,             \* the state file in the last manual cycle's backup
    runs, elapsed,      \* publications so far, and the last one whose interval is over
    streak,             \* runs that ended FAILED since the last publication, owner action
                        \* or overwriting
    behind,             \* history: who holds a reading that the file has changed since
    overwritten,        \* history: one of those has written its reading back
    manuals, crashes, faults, rollbacks

countVars == <<manuals, crashes, faults, rollbacks>>
clockVars == <<runs, elapsed>>
historyVars == <<streak, behind, overwritten>>
vars == <<state, lock, pc, view, mode, backup, clockVars, historyVars, countVars>>

State == [scanner: Nat, context: Nat,   \* last_published_{scanner,context}_run_id
          active: Cycler \cup {None},   \* active_run_id, cycle_status IN_PROGRESS
          failures: 0..MaxConsecutiveFailures,      \* consecutive_failure_count
          suspended: BOOLEAN]

InitialState == [scanner |-> 0, context |-> 0, active |-> None,
                 failures |-> 0, suspended |-> FALSE]

Places == {"idle", "read", "free", "busy", "due", "locked", "backing", "starting",
           "running", "releasing", "confirming", "rolling"}
Modes == {"scanner_and_context", "context_only"}

TypeOK ==
    /\ state \in State
    /\ lock \in Process \cup {Free, Dead}
    /\ pc \in [Process -> Places]
    /\ view \in [Process -> State]
    /\ mode \in [Process -> Modes]
    /\ backup \in State \cup {None}
    /\ {runs, elapsed, manuals, crashes, faults, rollbacks} \subseteq Nat
    /\ streak \in 0..MaxConsecutiveFailures
    /\ behind \subseteq Process
    /\ overwritten \in BOOLEAN

Init ==
    /\ state = InitialState
    /\ lock = Free
    /\ pc = [p \in Process |-> "idle"]
    /\ view = [p \in Process |-> InitialState]
    /\ mode = [p \in Process |-> "scanner_and_context"]
    /\ backup = None
    /\ runs = 0 /\ elapsed = 0 /\ streak = 0
    /\ behind = {} /\ overwritten = FALSE
    /\ manuals = 0 /\ crashes = 0 /\ faults = 0 /\ rollbacks = 0

Goto(p, from, to) == pc[p] = from /\ pc' = [pc EXCEPT ![p] = to]
Fault ==
    faults < MaxFaults /\ faults' = faults + 1 /\ UNCHANGED <<manuals, crashes, rollbacks>>

Counted(n) == IF n < MaxConsecutiveFailures THEN n + 1 ELSE n

(* p's reading is that of the file now, or is no longer needed.            *)
UpToDate(p) == behind' = behind \ {p}

ReadState(p) == view' = [view EXCEPT ![p] = state] /\ UpToDate(p)
Ends(p) == view' = [view EXCEPT ![p] = InitialState]

(* p has written: whoever holds a reading of another file is behind now.   *)
Reading == {"read", "free", "busy", "confirming", "backing", "starting", "running"}
Wrote(p) ==
    /\ behind' = IF state' = state THEN behind \ {p}
                 ELSE {q \in Process \ {p} : pc[q] \in Reading}
    /\ overwritten' = (overwritten \/ p \in behind)

(* The failures that p's write can be held to count.                       *)
Streak(p) == IF p \in behind THEN 0 ELSE streak

(* planSourceCadence on the scanner's last success.                        *)
ScannerDue(s) == s.scanner <= elapsed /\ runs < MaxRuns

-----------------------------------------------------------------------------
(* runCentralSchedulerOnce.                                                *)

TickReads(p) ==
    /\ p \in Scheduler
    /\ Goto(p, "idle", "read")
    /\ ReadState(p)
    /\ UNCHANGED <<state, lock, mode, backup, clockVars, streak, overwritten, countVars>>

(* inspectActiveGlobalCollectorLock; an unreadable lock ends the tick.     *)
TickInspectsLock(p) ==
    /\ \/ /\ Goto(p, "read", IF lock = Free THEN "free" ELSE "busy")
          /\ UNCHANGED <<view, behind, countVars>>
       \/ Goto(p, "read", "idle") /\ Fault /\ Ends(p) /\ UpToDate(p)
    /\ UNCHANGED <<state, lock, mode, backup, clockVars, streak, overwritten>>

(* Mutant of Decisions: active_run_id of the state counts as a running run.*)
DecisionsByState(p) ==
    IF view[p].suspended \/ view[p].active # None THEN {"nothing"}
    ELSE IF ScannerDue(view[p]) THEN {"scanner_and_context"}
    ELSE {"nothing"} \cup (IF runs < MaxRuns THEN {"context_only"} ELSE {})

(* decideCentralSchedule: what runs is read from the lock.                 *)
Decisions(p) ==
    IF view[p].suspended \/ pc[p] = "busy" THEN {"nothing"}
    ELSE IF ScannerDue(view[p]) THEN {"scanner_and_context"}
    ELSE {"nothing"} \cup (IF runs < MaxRuns THEN {"context_only"} ELSE {})

(* Mutant of Observed: the observation clears a suspension it has seen.    *)
ObservedResumed(s) == [s EXCEPT !.suspended = FALSE]

(* applySchedulerObservation: the fields it changes (decision, next times) *)
(* are left out, all the others are those the tick read.                   *)
Observed(s) == s

(* The observation is written whatever the decision is; a run that is due  *)
(* goes on to the coordinator.                                             *)
TickDecides(p) ==
    /\ pc[p] \in {"free", "busy"}
    /\ \/ \E d \in Decisions(p) :
            /\ state' = Observed(view[p])
            /\ pc' = [pc EXCEPT ![p] = IF d = "nothing" THEN "idle" ELSE "due"]
            /\ mode' = [mode EXCEPT ![p] = IF d = "nothing" THEN @ ELSE d]
            /\ Wrote(p)
            /\ streak' = Streak(p)
            /\ UNCHANGED countVars
       \/ /\ Fault
          /\ pc' = [pc EXCEPT ![p] = "idle"]
          /\ UpToDate(p)
          /\ UNCHANGED <<state, mode, streak, overwritten>>
    /\ Ends(p)
    /\ UNCHANGED <<lock, backup, clockVars>>

(* runCentralLiveCycleOnce: no decision, no observation.                   *)
ManualCycle(p) ==
    /\ p \in Manual
    /\ runs < MaxRuns
    /\ manuals < MaxManuals
    /\ manuals' = manuals + 1
    /\ Goto(p, "idle", "due")
    /\ mode' = [mode EXCEPT ![p] = "scanner_and_context"]
    /\ UNCHANGED <<state, lock, view, backup, clockVars, historyVars, crashes, faults, rollbacks>>

-----------------------------------------------------------------------------
(* runCentralAutomation.                                                   *)

AcquireLock(p) ==
    /\ \/ lock = Free /\ lock' = p /\ Goto(p, "due", "locked") /\ UNCHANGED countVars
       \/ lock # Free /\ Goto(p, "due", "idle") /\ UNCHANGED <<lock, countVars>>
       \/ Goto(p, "due", "idle") /\ Fault /\ UNCHANGED lock
    /\ UNCHANGED <<state, view, mode, backup, clockVars, historyVars>>

(* Mutant of MayStart: the suspension the scheduler saw is trusted.        *)
MayStartSuspended(s) == TRUE

MayStart(s) == ~s.suspended

(* The state is read again under the lock.                                 *)
ReadUnderLock(p) ==
    /\ \/ /\ MayStart(state)
          /\ Goto(p, "locked", IF p \in Manual THEN "backing" ELSE "starting")
          /\ UNCHANGED countVars
       \/ /\ ~MayStart(state)
          /\ Goto(p, "locked", "releasing")
          /\ UNCHANGED countVars
       \/ Goto(p, "locked", "releasing") /\ Fault
    /\ ReadState(p)
    /\ UNCHANGED <<state, lock, mode, backup, clockVars, streak, overwritten>>

(* beforeRun of the manual cycle: createDataCycleBackup copies the file.   *)
BackUp(p) ==
    /\ \/ /\ Goto(p, "backing", "starting")
          /\ backup' = state
          /\ UNCHANGED countVars
       \/ Goto(p, "backing", "releasing") /\ Fault /\ UNCHANGED backup
    /\ UNCHANGED <<state, lock, view, mode, clockVars, historyVars>>

StartRun(p) ==
    /\ \/ /\ Goto(p, "starting", "running")
          /\ state' = [view[p] EXCEPT !.active = p]
          /\ Wrote(p)
          /\ streak' = Streak(p)
          /\ UNCHANGED countVars
       \/ Goto(p, "starting", "releasing") /\ Fault /\ UNCHANGED <<state, historyVars>>
    /\ UNCHANGED <<lock, view, mode, backup, clockVars>>

(* Mutants of CompletedState and FailedState: the run stays the active one,*)
(* a context-only run loses the scanner pointer (written as 0, or as null),*)
(* a failure is not counted.                                               *)
CompletedStillActive(p) ==
    [view[p] EXCEPT !.context = runs + 1, !.failures = 0, !.active = p,
                    !.scanner = IF mode[p] = "context_only" THEN @ ELSE runs + 1]
CompletedResetsScanner(p) ==
    [view[p] EXCEPT !.context = runs + 1, !.failures = 0, !.active = None,
                    !.scanner = IF mode[p] = "context_only" THEN 0 ELSE runs + 1]
CompletedNullScanner(p) ==
    [view[p] EXCEPT !.context = runs + 1, !.failures = 0, !.active = None,
                    !.scanner = IF mode[p] = "context_only" THEN None ELSE runs + 1]
FailedUncounted(p, deterministic) ==
    [view[p] EXCEPT !.active = None, !.suspended = deterministic]

(* buildCompletedState, for SUCCESS and PARTIAL alike.                     *)
CompletedState(p) ==
    [view[p] EXCEPT !.context = runs + 1, !.failures = 0, !.active = None,
                    !.scanner = IF mode[p] = "context_only" THEN @ ELSE runs + 1]

(* The catch block: classifyAutomationFailure and the failure limit.       *)
FailedState(p, deterministic) ==
    LET count == Counted(view[p].failures)
    IN  [view[p] EXCEPT !.active = None, !.failures = count,
                        !.suspended = deterministic \/ count >= MaxConsecutiveFailures]

(* The runner has published its files and the last write commits them.     *)
CompleteRun(p) ==
    /\ Goto(p, "running", "releasing")
    /\ state' = CompletedState(p)
    /\ Wrote(p)
    /\ runs' = runs + 1
    /\ streak' = 0
    /\ UNCHANGED <<lock, view, mode, backup, elapsed, countVars>>

(* The runner throws, or its heartbeat has failed.                         *)
FailRun(p) ==
    /\ Goto(p, "running", "releasing")
    /\ \E deterministic \in BOOLEAN : state' = FailedState(p, deterministic)
    /\ Wrote(p)
    /\ streak' = Counted(Streak(p))
    /\ UNCHANGED <<lock, view, mode, backup, clockVars, countVars>>

(* The last write fails: the run ends in an error the file does not show.  *)
LoseOutcome(p) ==
    /\ Goto(p, "running", "releasing")
    /\ Fault
    /\ UNCHANGED <<state, lock, view, mode, backup, clockVars, historyVars>>

(* The finally block; a lock that is not released dies with the process.   *)
Release(p) ==
    /\ Goto(p, "releasing", "idle")
    /\ \/ lock' = Free /\ UNCHANGED countVars
       \/ lock' = Dead /\ Fault
    /\ Ends(p)
    /\ UpToDate(p)
    /\ UNCHANGED <<state, mode, backup, clockVars, streak, overwritten>>

-----------------------------------------------------------------------------
(* The owner.                                                              *)

(* resumeAutomationState with the owner's confirmation.                    *)
ResumeReads ==
    /\ state.suspended
    /\ Goto(Owner, "idle", "confirming")
    /\ ReadState(Owner)
    /\ UNCHANGED <<state, lock, mode, backup, clockVars, streak, overwritten, countVars>>

ResumeWrites ==
    /\ Goto(Owner, "confirming", "idle")
    /\ \/ /\ state' = [view[Owner] EXCEPT !.suspended = FALSE]
          /\ Wrote(Owner)
          /\ streak' = 0
          /\ UNCHANGED countVars
       \/ Fault /\ UpToDate(Owner) /\ UNCHANGED <<state, streak, overwritten>>
    /\ Ends(Owner)
    /\ UNCHANGED <<lock, mode, backup, clockVars>>

(* The rollback of runDataCycleOperations.ts, under the lock.              *)
RollbackLocks ==
    /\ rollbacks < MaxRollbacks
    /\ backup # None
    /\ lock = Free
    /\ lock' = Owner
    /\ Goto(Owner, "idle", "rolling")
    /\ rollbacks' = rollbacks + 1
    /\ UNCHANGED <<state, view, mode, backup, clockVars, historyVars, manuals, crashes, faults>>

RollbackRestores ==
    /\ Goto(Owner, "rolling", "releasing")
    /\ \/ state' = backup /\ Wrote(Owner) /\ streak' = 0 /\ UNCHANGED countVars
       \/ Fault /\ UNCHANGED <<state, historyVars>>
    /\ UNCHANGED <<lock, view, mode, backup, clockVars>>

-----------------------------------------------------------------------------
(* Crashes and the clock.                                                  *)

Crash(p) ==
    /\ crashes < MaxCrashes
    /\ pc[p] # "idle"
    /\ crashes' = crashes + 1
    /\ pc' = [pc EXCEPT ![p] = "idle"]
    /\ lock' = IF lock = p THEN Dead ELSE lock
    /\ Ends(p)
    /\ UpToDate(p)
    /\ UNCHANGED <<state, mode, backup, clockVars, streak, overwritten, manuals, faults, rollbacks>>

LockExpires ==
    /\ lock = Dead
    /\ lock' = Free
    /\ UNCHANGED <<state, pc, view, mode, backup, clockVars, historyVars, countVars>>

CadenceElapses ==
    /\ elapsed < runs
    /\ elapsed' = elapsed + 1
    /\ UNCHANGED <<state, lock, pc, view, mode, backup, runs, historyVars, countVars>>

-----------------------------------------------------------------------------
CycleStep(p) ==
    \/ TickInspectsLock(p) \/ TickDecides(p) \/ AcquireLock(p) \/ ReadUnderLock(p)
    \/ BackUp(p) \/ StartRun(p) \/ CompleteRun(p) \/ FailRun(p) \/ LoseOutcome(p)
    \/ Release(p)

OwnerStep == ResumeWrites \/ RollbackRestores \/ Release(Owner)

Next ==
    \/ \E p \in Cycler : TickReads(p) \/ ManualCycle(p) \/ CycleStep(p)
    \/ ResumeReads \/ RollbackLocks \/ OwnerStep
    \/ \E p \in Process : Crash(p)
    \/ LockExpires \/ CadenceElapses

Spec == Init /\ [][Next]_vars

(* The task wakes the scheduler, what has begun goes on, time passes.      *)
FairSpec ==
    /\ Spec
    /\ \A p \in Cycler : WF_vars(TickReads(p)) /\ WF_vars(CycleStep(p))
    /\ WF_vars(OwnerStep)
    /\ WF_vars(LockExpires)

-----------------------------------------------------------------------------
(* Properties.                                                             *)

(* A process whose reading is older than the file takes its next step.     *)
BehindMoves == \E p \in behind : pc'[p] # pc[p]

(* A suspension is taken away by the owner's resume or rollback, or by the *)
(* write-back of a reading that is older than the file: no process that has*)
(* read the file as it is lifts it, whatever it does next.                 *)
SuspensionSticks ==
    [][state.suspended /\ ~state'.suspended =>
           ResumeWrites \/ RollbackRestores \/ BehindMoves]_vars

(* "In the open state the collector is not run; an ordinary user cannot    *)
(* resume the mechanism" (docs/resilience_failure_drills.md:64): only the  *)
(* owner's resume or rollback takes a suspension away.                     *)
OnlyOwnerResumes ==
    [][state.suspended /\ ~state'.suspended => ResumeWrites \/ RollbackRestores]_vars

(* A run beside a file that says suspended read another file under its lock*)
(* than the one that is there: nobody starts a run over a suspension, and  *)
(* nobody who is up to date suspends beside one.                           *)
NoRunWhileSuspended ==
    \A p \in Cycler : pc[p] = "running" /\ state.suspended => p \in behind

(* "Opens ... after three consecutive transient failures"                  *)
(* (docs/resilience_failure_drills.md:62): no interleaving of observations,*)
(* overlapping cycles, crashes and owner actions makes the limit miss a    *)
(* failed run, unless an older reading was written over the count between. *)
FailuresTrip == streak >= MaxConsecutiveFailures => state.suspended

(* The published pointers move to newer publications ("a full failure keeps*)
(* the previous pointers", docs/central_data_cycle.md); a rollback or the  *)
(* write-back of an older reading takes them back, and nothing else.       *)
PointersForward ==
    [][\/ state'.scanner >= state.scanner /\ state'.context >= state.context
       \/ RollbackRestores \/ BehindMoves]_vars

(* The status API shows a run in progress only while that run goes on,     *)
(* unless something crashed, a write failed or an older reading was written*)
(* over the file.                                                          *)
ShownRunIsReal ==
    state.active # None => \/ pc[state.active] = "running"
                           \/ crashes + faults > 0
                           \/ overwritten

(* A scanner that is due gets published or the automation gets suspended:  *)
(* a crash, its stale lock, its IN_PROGRESS state and the write-backs of   *)
(* older readings do not stop the ticks (the owner's manual cycles, which  *)
(* can keep the lock and undo the count of failures, are MaxManuals).      *)
DueRuns == ScannerDue(state) ~> ~ScannerDue(state) \/ state.suspended
=============================================================================
