---------------------------- MODULE CollectorLock ----------------------------
(***************************************************************************)
(* The global lock file of the collector, globalCollectorLock.ts, under    *)
(* the runs that contend for it (runCentralAutomation of                   *)
(* centralAutomationCoordinator.ts, and the rollback).  A step is one file *)
(* system call, so the processes interleave between any two of them, and a *)
(* run's own heartbeat interleaves with its main flow.                     *)
(*                                                                         *)
(* A lock file is named by the run that created it: a run creates at most  *)
(* one.  Reads, renames and opens go by path, writes by open handle, so a  *)
(* file can be written after it was renamed or unlinked.  run_id, pid and  *)
(* started_at of the metadata always go together and are the run; time is  *)
(* the comparison of expires_at with the clock.                            *)
(*                                                                         *)
(* Bounds: MaxCrashes processes that die, MaxStalls times the clock passes *)
(* a deadline a living process was to move, MaxFaults failing writes.      *)
(***************************************************************************)
EXTENDS Naturals, FiniteSets

CONSTANTS Run,          \* the processes, each with its run_id and pid
          Leftover,     \* runs that died before; one may have left its lock
          None,         \* no file
          Attempts,     \* 8 in acquireGlobalCollectorLock
          MaxCrashes, MaxStalls, MaxFaults

ASSUME LockAssumption == /\ Leftover \subseteq Run
                         /\ None \notin Run
                         /\ Attempts \in Nat \ {0}
                         /\ {MaxCrashes, MaxStalls, MaxFaults} \subseteq Nat

VARIABLES
    lock,       \* the file at the path collector.lock.json
    content,    \* a file's metadata: the run it names and whether it expired
    aside,      \* the file at the private path a run has renamed to
    pc, attempt, active,    \* a run's place, its attempt, the metadata it has read
    beat, handle,           \* its heartbeat and the file that heartbeat opened
    alive,                  \* the processes that exist
    displaced,  \* history: the runs whose file another run moved or replaced
    crashes, stalls, faults

fileVars == <<lock, content, aside>>
runVars == <<pc, attempt, active>>
beatVars == <<beat, handle>>
countVars == <<crashes, stalls, faults>>
vars == <<fileVars, runVars, beatVars, alive, displaced, countVars>>

Blank == [run |-> None, expired |-> FALSE]      \* created or truncated, not written
Metadata == [run: Run, expired: BOOLEAN] \cup {Blank}

Ended == {"busy", "failed", "released"}
Places == {"creating", "writing", "reading", "judging", "recovering", "verifying", "restoring",
           "holding", "releasing", "moving", "removing"} \cup Ended

TypeOK ==
    /\ lock \in Run \cup {None}
    /\ content \in [Run -> Metadata]
    /\ aside \in [Run -> Run \cup {None}]
    /\ pc \in [Run -> Places]
    /\ attempt \in [Run -> 0..Attempts]
    /\ active \in [Run -> Metadata]
    /\ beat \in [Run -> {"idle", "checked", "opened", "truncated", "failed"}]
    /\ handle \in [Run -> Run \cup {None}]
    /\ alive \subseteq Run
    /\ displaced \subseteq Run
    /\ {crashes, stalls, faults} \subseteq Nat

Init ==
    /\ lock \in Leftover \cup {None}
    /\ content \in [Run -> Metadata]
    /\ \A r \in Run : content[r].run = IF r = lock THEN r ELSE None
    /\ aside = [r \in Run |-> None]
    /\ pc = [r \in Run |-> IF r \in Leftover THEN "failed" ELSE "creating"]
    /\ attempt = [r \in Run |-> 0]
    /\ active = [r \in Run |-> Blank]
    /\ beat = [r \in Run |-> "idle"]
    /\ handle = [r \in Run |-> None]
    /\ alive = Run \ Leftover
    /\ displaced = {}
    /\ crashes = 0 /\ stalls = 0 /\ faults = 0

Goto(r, from, to) == pc[r] = from /\ pc' = [pc EXCEPT ![r] = to]

(* The file at the path gives way to a run that it is not the file of: no  *)
(* guard reads displaced.                                                  *)
Displace(own) == displaced' = displaced \cup ({lock} \ (own \cup {None}))

(* The metadata of the file at the path; Blank when it cannot be parsed.   *)
Readable == lock # None /\ content[lock] # Blank

(* Mutant of TryCreateLock: "w" for "wx", which creates over what exists.   *)
TryCreateOver(r) ==
    /\ Goto(r, "creating", "writing")
    /\ lock' = r
    /\ UNCHANGED <<content, aside, attempt, active, beatVars, alive, displaced, countVars>>

(* Mutant of NextAttempt: a recovered lock ends the call.                  *)
NextAttemptGivesUp(r, from) ==
    /\ attempt' = [attempt EXCEPT ![r] = @ + 1]
    /\ Goto(r, from, "failed")
    /\ active' = [active EXCEPT ![r] = Blank]

(* The loop of acquireGlobalCollectorLock goes on, or gives up.            *)
NextAttempt(r, from) ==
    /\ attempt' = [attempt EXCEPT ![r] = @ + 1]
    /\ Goto(r, from, IF attempt[r] + 1 < Attempts THEN "creating" ELSE "failed")
    /\ active' = [active EXCEPT ![r] = Blank]

-----------------------------------------------------------------------------
(* acquireGlobalCollectorLock.                                             *)

(* open(path, "wx") creates the empty file or finds that one exists.       *)
TryCreateLock(r) ==
    /\ \/ /\ lock = None
          /\ lock' = r
          /\ Goto(r, "creating", "writing")
       \/ /\ lock # None
          /\ UNCHANGED lock
          /\ Goto(r, "creating", "reading")
    /\ UNCHANGED <<content, aside, attempt, active, beatVars, alive, displaced, countVars>>

(* The metadata is written through the handle; a failing write removes     *)
(* whatever file is at the path by then.                                   *)
WriteLock(r) ==
    /\ \/ /\ Goto(r, "writing", "holding")
          /\ content' = [content EXCEPT ![r] = [run |-> r, expired |-> FALSE]]
          /\ UNCHANGED <<lock, displaced, faults>>
       \/ /\ faults < MaxFaults
          /\ faults' = faults + 1
          /\ Goto(r, "writing", "failed")
          /\ lock' = None
          /\ Displace({r})
          /\ UNCHANGED content
    /\ UNCHANGED <<aside, attempt, active, beatVars, alive, crashes, stalls>>

(* Mutant of ReadActive: the retries of an unreadable lock are not counted.*)
ReadActiveWaits(r) ==
    /\ pc[r] = "reading"
    /\ \/ lock = None /\ NextAttempt(r, "reading")
       \/ /\ Readable
          /\ Goto(r, "reading", "judging")
          /\ active' = [active EXCEPT ![r] = content[lock]]
          /\ UNCHANGED attempt
    /\ UNCHANGED <<fileVars, beatVars, alive, displaced, countVars>>

(* readLockMetadataWithRetry: gone means try again, unreadable four times  *)
(* means fail closed.                                                      *)
ReadActive(r) ==
    /\ pc[r] = "reading"
    /\ \/ lock = None /\ NextAttempt(r, "reading")
       \/ /\ lock # None
          /\ ~Readable
          /\ Goto(r, "reading", "failed")
          /\ UNCHANGED <<attempt, active>>
       \/ /\ Readable
          /\ Goto(r, "reading", "judging")
          /\ active' = [active EXCEPT ![r] = content[lock]]
          /\ UNCHANGED attempt
    /\ UNCHANGED <<fileVars, beatVars, alive, displaced, countVars>>

(* Mutant of Stale: "alive || !expired" read as "!expired".                *)
StaleByTime(m) == m # Blank /\ m.expired

Stale(m) == m # Blank /\ m.expired /\ m.run \notin alive

JudgeActive(r) ==
    /\ Goto(r, "judging", IF Stale(active[r]) THEN "recovering" ELSE "busy")
    /\ UNCHANGED <<fileVars, attempt, active, beatVars, alive, displaced, countVars>>

(* recoverStaleLock: rename first, by path ...                             *)
MoveStaleLock(r) ==
    /\ pc[r] = "recovering"
    /\ Displace({active[r].run})
    /\ IF lock = None
       THEN NextAttempt(r, "recovering") /\ UNCHANGED <<lock, aside>>
       ELSE /\ Goto(r, "recovering", "verifying")
            /\ aside' = [aside EXCEPT ![r] = lock]
            /\ lock' = None
            /\ UNCHANGED <<attempt, active>>
    /\ UNCHANGED <<content, beatVars, alive, countVars>>

(* ... then read what was moved: remove it, leave it at the private path   *)
(* when it cannot be read, or put it back.                                 *)
VerifyMoved(r) ==
    LET moved == content[aside[r]] IN
    /\ pc[r] = "verifying"
    /\ \/ /\ Stale(moved) /\ moved.run = active[r].run
          /\ NextAttempt(r, "verifying")
          /\ aside' = [aside EXCEPT ![r] = None]
       \/ /\ moved = Blank
          /\ Goto(r, "verifying", "failed")
          /\ aside' = [aside EXCEPT ![r] = None]
          /\ UNCHANGED <<attempt, active>>
       \/ /\ moved # Blank
          /\ ~(Stale(moved) /\ moved.run = active[r].run)
          /\ Goto(r, "verifying", "restoring")
          /\ UNCHANGED <<aside, attempt, active>>
    /\ UNCHANGED <<lock, content, beatVars, alive, displaced, countVars>>

(* restoreMovedLock, of a recovery or of a release: the rename replaces    *)
(* any file that has appeared at the path, and the caller throws.          *)
RestoreMovedLock(r) ==
    /\ Goto(r, "restoring", "failed")
    /\ Displace({})
    /\ lock' = aside[r]
    /\ aside' = [aside EXCEPT ![r] = None]
    /\ UNCHANGED <<content, attempt, active, beatVars, alive, countVars>>

-----------------------------------------------------------------------------
(* The heartbeat timer of runCentralAutomation.                            *)

Beat(r, from, to) == beat[r] = from /\ beat' = [beat EXCEPT ![r] = to]

(* requireOwnedLock; the first failing heartbeat is the last one.          *)
HeartbeatCheck(r) ==
    /\ pc[r] = "holding"
    /\ Beat(r, "idle", IF Readable /\ content[lock].run = r THEN "checked" ELSE "failed")
    /\ UNCHANGED <<fileVars, runVars, handle, alive, displaced, countVars>>

(* replaceOwnedLockMetadata opens by path, truncates, writes.              *)
HeartbeatOpen(r) ==
    /\ \/ lock # None /\ Beat(r, "checked", "opened") /\ handle' = [handle EXCEPT ![r] = lock]
       \/ lock = None /\ Beat(r, "checked", "failed") /\ UNCHANGED handle
    /\ UNCHANGED <<fileVars, runVars, alive, displaced, countVars>>

HeartbeatTruncate(r) ==
    /\ Beat(r, "opened", "truncated")
    /\ content' = [content EXCEPT ![handle[r]] = Blank]
    /\ UNCHANGED <<lock, aside, runVars, handle, alive, displaced, countVars>>

HeartbeatWrite(r) ==
    /\ \/ /\ Beat(r, "truncated", "idle")
          /\ content' = [content EXCEPT ![handle[r]] = [run |-> r, expired |-> FALSE]]
          /\ UNCHANGED faults
       \/ /\ faults < MaxFaults
          /\ faults' = faults + 1
          /\ Beat(r, "truncated", "failed")
          /\ UNCHANGED content
    /\ handle' = [handle EXCEPT ![r] = None]
    /\ UNCHANGED <<lock, aside, runVars, alive, displaced, crashes, stalls>>

-----------------------------------------------------------------------------
(* release: the timer is cleared, a heartbeat in flight is not waited for. *)

FinishRun(r) ==
    /\ Goto(r, "holding", "releasing")
    /\ UNCHANGED <<fileVars, attempt, active, beatVars, alive, displaced, countVars>>

RequireOwnedLock(r) ==
    /\ Goto(r, "releasing", IF Readable /\ content[lock].run = r THEN "moving" ELSE "failed")
    /\ UNCHANGED <<fileVars, attempt, active, beatVars, alive, displaced, countVars>>

MoveOwnedLock(r) ==
    /\ \/ lock # None /\ Goto(r, "moving", "removing") /\ aside' = [aside EXCEPT ![r] = lock]
       \/ lock = None /\ Goto(r, "moving", "failed") /\ UNCHANGED aside
    /\ lock' = None
    /\ Displace({r})
    /\ UNCHANGED <<content, attempt, active, beatVars, alive, countVars>>

(* What cannot be read is left at the private path.                        *)
RemoveOwnedLock(r) ==
    LET moved == content[aside[r]] IN
    /\ pc[r] = "removing"
    /\ Goto(r, "removing", IF moved = Blank THEN "failed"
                           ELSE IF moved.run = r THEN "released" ELSE "restoring")
    /\ aside' = IF moved.run \in {r, None} THEN [aside EXCEPT ![r] = None] ELSE aside
    /\ UNCHANGED <<lock, content, attempt, active, beatVars, alive, displaced, countVars>>

-----------------------------------------------------------------------------
(* Processes and the clock.                                                *)

InFlight(r) == beat[r] \in {"checked", "opened", "truncated"}

Exit(r) ==
    /\ r \in alive
    /\ pc[r] \in Ended
    /\ ~InFlight(r)
    /\ alive' = alive \ {r}
    /\ UNCHANGED <<fileVars, runVars, beatVars, displaced, countVars>>

Crash(r) ==
    /\ crashes < MaxCrashes
    /\ r \in alive
    /\ crashes' = crashes + 1
    /\ alive' = alive \ {r}
    /\ pc' = [pc EXCEPT ![r] = "failed"]
    /\ aside' = [aside EXCEPT ![r] = None]
    /\ beat' = [beat EXCEPT ![r] = "idle"]
    /\ handle' = [handle EXCEPT ![r] = None]
    /\ UNCHANGED <<lock, content, attempt, active, displaced, stalls, faults>>

(* Mutant of Expired: every file expires, whoever wrote it.                *)
ExpiredAny(m, q) == [m EXCEPT !.expired = TRUE]

(* The deadline of run q passes, for its files and for whoever read them:  *)
(* at any time once q is gone, within MaxStalls while q should renew it.   *)
Expired(m, q) == IF m.run = q THEN [m EXCEPT !.expired = TRUE] ELSE m

Expire(q) ==
    /\ \E r \in Run : [run |-> q, expired |-> FALSE] \in {content[r], active[r]}
    /\ content' = [f \in Run |-> Expired(content[f], q)]
    /\ active' = [r \in Run |-> Expired(active[r], q)]
    /\ IF q \in alive THEN stalls < MaxStalls /\ stalls' = stalls + 1 ELSE UNCHANGED stalls
    /\ UNCHANGED <<lock, aside, pc, attempt, beatVars, alive, displaced, crashes, faults>>

-----------------------------------------------------------------------------
MainStep(r) ==
    \/ TryCreateLock(r) \/ WriteLock(r) \/ ReadActive(r) \/ JudgeActive(r)
    \/ MoveStaleLock(r) \/ VerifyMoved(r) \/ RestoreMovedLock(r)
    \/ FinishRun(r) \/ RequireOwnedLock(r) \/ MoveOwnedLock(r) \/ RemoveOwnedLock(r)

HeartbeatStep(r) == HeartbeatOpen(r) \/ HeartbeatTruncate(r) \/ HeartbeatWrite(r)

Next ==
    \/ \E r \in Run : MainStep(r) \/ HeartbeatCheck(r) \/ HeartbeatStep(r)
    \/ \E r \in Run : Exit(r) \/ Crash(r) \/ Expire(r)

Spec == Init /\ [][Next]_vars

(* Processes run, and the clock passes the deadline of a dead one.         *)
FairSpec ==
    /\ Spec
    /\ \A r \in Run : /\ WF_vars(MainStep(r)) /\ WF_vars(HeartbeatStep(r))
                      /\ WF_vars(Exit(r)) /\ WF_vars(r \notin alive /\ Expire(r))

-----------------------------------------------------------------------------
(* Properties.                                                             *)

Holding(r) == pc[r] = "holding" /\ r \in alive

(* "One central coordinator takes the global lock. One runner executes one *)
(* cycle of the collector." (docs/vps_deployment_automation.md:99-100)     *)
SingleHolder == \A q, r \in Run : Holding(q) /\ Holding(r) => q = r

(* However many runs contend, crash, stall and fail to write: a run that   *)
(* holds the lock and whose file no other run has moved or replaced holds  *)
(* it alone among those.  Who judged a dead run's lock never moves a living*)
(* holder's file by that judgement, nobody creates a file over another one,*)
(* and a release takes away no file but its own.                           *)
ExclusionKept ==
    \A q, r \in Run : Holding(q) /\ Holding(r) /\ q # r => {q, r} \cap displaced # {}

(* A heartbeat that nobody awaits writes into another run's file only      *)
(* behind its own run's release, or when that run was displaced: the check *)
(* and the open by path are two steps, and the path may change in between. *)
LateHeartbeats ==
    \A r \in Run : handle[r] \notin {None, r} =>
        pc[r] \in {"removing", "restoring"} \cup Ended \/ r \in displaced

(* The lock that the automation's runs and rollbacks count on; a run is out*)
(* of it from the step at which another one displaces it.                  *)
Global == INSTANCE GlobalLock
          WITH Client <- Run, holders <- {r \in Run : Holding(r) /\ r \notin displaced}
ImplementsLock == Global!Spec

(* A stale lock that a dead run left does not stop the runs that find it:  *)
(* one of them gets to hold the lock, unless it dies or its write fails.   *)
RecoveryLeadsToHolder ==
    \A f \in Leftover :
        /\ lock = f /\ content[f].expired
        /\ \E r \in alive : pc[r] = "creating" /\ attempt[r] = 0
        ~> (\E r \in Run : Holding(r)) \/ crashes + faults > 0

(* A run that has started ends, whatever it meets: the attempts are bounded*)
(* and a lock that cannot be read is not waited for.                       *)
RunsEnd == \A r \in Run : pc[r] = "creating" ~> pc[r] \in Ended
=============================================================================
