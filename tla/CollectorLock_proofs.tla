------------------------- MODULE CollectorLock_proofs -------------------------
(***************************************************************************)
(* Proofs about the collector lock, for any number of runs, living or dead,*)
(* crashes, stalls and failing writes: its types, the exclusion among the  *)
(* runs that no other run has displaced, the heartbeats that outlive their *)
(* run, and the abstract lock that the protocol implements.                *)
(***************************************************************************)
EXTENDS CollectorLock, TLAPS

(* A run before it has created its file, and from the creation to the      *)
(* rename of its release.                                                  *)
Early == {"creating", "reading", "judging", "recovering", "verifying"}
Owning == {"writing", "holding", "releasing", "moving"}

AttemptInv == \A r \in Run : pc[r] \in Early => attempt[r] < Attempts

(* A process that is gone takes no step.                                   *)
DeadInv ==
    /\ Leftover \cap alive = {}
    /\ \A r \in Run \ alive : pc[r] \in Ended /\ ~InFlight(r)

(* Who recovers has judged a run that does not live, and none comes back.  *)
JudgedInv == \A r \in Run : pc[r] = "recovering" => active[r].run \notin alive

(* The file of an owner that no other run has displaced is at the path.    *)
OwnerInv == \A r \in Run : pc[r] \in Owning /\ r \notin displaced => lock = r

(* A heartbeat is one of a run that has held the lock.                     *)
BeatInv ==
    \A r \in Run : beat[r] # "idle" =>
        pc[r] \in {"holding", "releasing", "moving", "removing", "restoring"} \cup Ended

IInv ==
    /\ TypeOK /\ AttemptInv /\ DeadInv
    /\ JudgedInv /\ OwnerInv /\ BeatInv /\ LateHeartbeats

-----------------------------------------------------------------------------
(* The metadata of a file: blank, or of a run.                             *)
LEMMA MetadataFacts ==
    /\ Blank \in Metadata /\ Blank.run = None
    /\ \A r \in Run, e \in BOOLEAN :
          /\ [run |-> r, expired |-> e] \in Metadata
          /\ [run |-> r, expired |-> e].run = r
          /\ [run |-> r, expired |-> e].expired = e
    /\ \A m \in Metadata : /\ m.run \in Run \cup {None} /\ m.expired \in BOOLEAN
                           /\ m = Blank <=> m.run = None
<1>1. Blank \in Metadata /\ Blank.run = None
  BY DEF Metadata, Blank
<1>2. ASSUME NEW r \in Run, NEW e \in BOOLEAN
      PROVE  /\ [run |-> r, expired |-> e] \in Metadata
             /\ [run |-> r, expired |-> e].run = r
             /\ [run |-> r, expired |-> e].expired = e
  BY <1>2 DEF Metadata
<1>3. ASSUME NEW m \in Metadata
      PROVE  /\ m.run \in Run \cup {None} /\ m.expired \in BOOLEAN
             /\ m = Blank <=> m.run = None
  <2>1. CASE m = Blank
    BY <2>1 DEF Blank
  <2>2. CASE m \in [run: Run, expired: BOOLEAN]
    BY <2>2, LockAssumption DEF Blank
  <2>3. QED
    BY <2>1, <2>2 DEF Metadata
<1>4. QED
  BY <1>1, <1>2, <1>3

(* The passing of a deadline keeps whose file it is.                       *)
LEMMA ExpiredFacts ==
    \A m \in Metadata, q \in Run :
        /\ Expired(m, q) \in Metadata
        /\ Expired(m, q).run = m.run
        /\ Expired(m, q).expired <=> m.expired \/ m.run = q
<1>1. ASSUME NEW m \in Metadata, NEW q \in Run
      PROVE  /\ Expired(m, q) \in Metadata
             /\ Expired(m, q).run = m.run
             /\ Expired(m, q).expired <=> m.expired \/ m.run = q
  <2>1. CASE m.run = q
    BY <2>1, LockAssumption DEF Metadata, Blank, Expired
  <2>2. CASE m.run # q
    BY <2>2 DEF Expired, Metadata, Blank
  <2>3. QED
    BY <2>1, <2>2
<1>2. QED
  BY <1>1

(* Types, for any number of runs.                                          *)
LEMMA TypeStep ==
    ASSUME TypeOK, AttemptInv, [Next]_vars
    PROVE  TypeOK'
PROOF
<1> USE DEF vars, fileVars, runVars, beatVars, countVars, TypeOK, Places, Ended
<1>blank. Blank \in Metadata
  BY MetadataFacts
<1>written. \A r \in Run : [run |-> r, expired |-> FALSE] \in Metadata
  BY MetadataFacts
<1>next. \A r \in Run : pc[r] \in {"reading", "recovering", "verifying"} =>
          attempt[r] + 1 \in 0..Attempts
  BY LockAssumption DEF AttemptInv, Early
<1> USE LockAssumption
<1>1. ASSUME NEW r \in Run, TryCreateLock(r)
     PROVE  TypeOK'
  BY <1>1 DEF TryCreateLock, Goto
<1>2. ASSUME NEW r \in Run, WriteLock(r)
     PROVE  TypeOK'
  BY <1>2, <1>written DEF WriteLock, Goto, Displace
<1>3. ASSUME NEW r \in Run, ReadActive(r)
     PROVE  TypeOK'
  BY <1>3, <1>blank, <1>next DEF ReadActive, NextAttempt, Readable, Goto
<1>4. ASSUME NEW r \in Run, JudgeActive(r)
     PROVE  TypeOK'
  BY <1>4 DEF JudgeActive, Goto
<1>5. ASSUME NEW r \in Run, MoveStaleLock(r)
     PROVE  TypeOK'
  BY <1>5, <1>blank, <1>next DEF MoveStaleLock, NextAttempt, Goto, Displace
<1>6. ASSUME NEW r \in Run, VerifyMoved(r)
     PROVE  TypeOK'
  BY <1>6, <1>blank, <1>next DEF VerifyMoved, NextAttempt, Goto
<1>7. ASSUME NEW r \in Run, RestoreMovedLock(r)
     PROVE  TypeOK'
  BY <1>7 DEF RestoreMovedLock, Goto, Displace
<1>8. ASSUME NEW r \in Run, HeartbeatCheck(r)
     PROVE  TypeOK'
  BY <1>8 DEF HeartbeatCheck, Beat, Readable
<1>9. ASSUME NEW r \in Run, HeartbeatOpen(r)
     PROVE  TypeOK'
  BY <1>9 DEF HeartbeatOpen, Beat
<1>10. ASSUME NEW r \in Run, HeartbeatTruncate(r)
     PROVE  TypeOK'
  BY <1>10, <1>written, <1>blank, <1>next DEF HeartbeatTruncate, Beat
<1>11. ASSUME NEW r \in Run, HeartbeatWrite(r)
     PROVE  TypeOK'
  BY <1>11, <1>written DEF HeartbeatWrite, Beat
<1>12. ASSUME NEW r \in Run, FinishRun(r)
     PROVE  TypeOK'
  BY <1>12 DEF FinishRun, Goto
<1>13. ASSUME NEW r \in Run, RequireOwnedLock(r)
     PROVE  TypeOK'
  BY <1>13 DEF RequireOwnedLock, Readable, Goto
<1>14. ASSUME NEW r \in Run, MoveOwnedLock(r)
     PROVE  TypeOK'
  BY <1>14 DEF MoveOwnedLock, Goto, Displace
<1>15. ASSUME NEW r \in Run, RemoveOwnedLock(r)
     PROVE  TypeOK'
  BY <1>15 DEF RemoveOwnedLock, Goto
<1>16. ASSUME NEW r \in Run, Exit(r)
     PROVE  TypeOK'
  BY <1>16 DEF Exit, InFlight
<1>17. ASSUME NEW r \in Run, Crash(r)
     PROVE  TypeOK'
  BY <1>17 DEF Crash
<1>18. ASSUME NEW r \in Run, Expire(r)
     PROVE  TypeOK'
  <2>1. \A m \in Metadata : Expired(m, r) \in Metadata
    BY ExpiredFacts
  <2>2. content' \in [Run -> Metadata] /\ active' \in [Run -> Metadata]
    BY <1>18, <2>1 DEF Expire
  <2>3. QED
    BY <1>18, <2>2 DEF Expire
<1>19. CASE UNCHANGED vars
  BY <1>19
<1>20. QED
  BY <1>1, <1>2, <1>3, <1>4, <1>5, <1>6, <1>7, <1>8, <1>9, <1>10, <1>11, <1>12, <1>13, <1>14,
     <1>15, <1>16, <1>17, <1>18, <1>19 DEF Next, MainStep, HeartbeatStep

(* A run that still tries has an attempt left.                             *)
LEMMA AttemptStep ==
    ASSUME TypeOK, AttemptInv, [Next]_vars
    PROVE  AttemptInv'
PROOF
<1> USE DEF vars, fileVars, runVars, beatVars, countVars, TypeOK, AttemptInv, Early
<1> USE LockAssumption
<1>1. ASSUME NEW r \in Run, TryCreateLock(r)
     PROVE  AttemptInv'
  BY <1>1 DEF TryCreateLock, Goto
<1>2. ASSUME NEW r \in Run, WriteLock(r)
     PROVE  AttemptInv'
  BY <1>2 DEF WriteLock, Goto, Displace
<1>3. ASSUME NEW r \in Run, ReadActive(r)
     PROVE  AttemptInv'
  BY <1>3 DEF ReadActive, NextAttempt, Readable, Goto
<1>4. ASSUME NEW r \in Run, JudgeActive(r)
     PROVE  AttemptInv'
  BY <1>4 DEF JudgeActive, Goto
<1>5. ASSUME NEW r \in Run, MoveStaleLock(r)
     PROVE  AttemptInv'
  BY <1>5 DEF MoveStaleLock, NextAttempt, Goto, Displace
<1>6. ASSUME NEW r \in Run, VerifyMoved(r)
     PROVE  AttemptInv'
  BY <1>6 DEF VerifyMoved, NextAttempt, Goto
<1>7. ASSUME NEW r \in Run, RestoreMovedLock(r)
     PROVE  AttemptInv'
  BY <1>7 DEF RestoreMovedLock, Goto, Displace
<1>8. ASSUME NEW r \in Run, HeartbeatCheck(r)
     PROVE  AttemptInv'
  BY <1>8 DEF HeartbeatCheck, Beat, Readable
<1>9. ASSUME NEW r \in Run, HeartbeatOpen(r)
     PROVE  AttemptInv'
  BY <1>9 DEF HeartbeatOpen, Beat
<1>10. ASSUME NEW r \in Run, HeartbeatTruncate(r)
     PROVE  AttemptInv'
  BY <1>10 DEF HeartbeatTruncate, Beat
<1>11. ASSUME NEW r \in Run, HeartbeatWrite(r)
     PROVE  AttemptInv'
  BY <1>11 DEF HeartbeatWrite, Beat
<1>12. ASSUME NEW r \in Run, FinishRun(r)
     PROVE  AttemptInv'
  BY <1>12 DEF FinishRun, Goto
<1>13. ASSUME NEW r \in Run, RequireOwnedLock(r)
     PROVE  AttemptInv'
  BY <1>13 DEF RequireOwnedLock, Readable, Goto
<1>14. ASSUME NEW r \in Run, MoveOwnedLock(r)
     PROVE  AttemptInv'
  BY <1>14 DEF MoveOwnedLock, Goto, Displace
<1>15. ASSUME NEW r \in Run, RemoveOwnedLock(r)
     PROVE  AttemptInv'
  BY <1>15 DEF RemoveOwnedLock, Goto
<1>16. ASSUME NEW r \in Run, Exit(r)
     PROVE  AttemptInv'
  BY <1>16 DEF Exit, InFlight
<1>17. ASSUME NEW r \in Run, Crash(r)
     PROVE  AttemptInv'
  BY <1>17 DEF Crash
<1>18. ASSUME NEW r \in Run, Expire(r)
     PROVE  AttemptInv'
  BY <1>18 DEF Expire
<1>19. CASE UNCHANGED vars
  BY <1>19
<1>20. QED
  BY <1>1, <1>2, <1>3, <1>4, <1>5, <1>6, <1>7, <1>8, <1>9, <1>10, <1>11, <1>12, <1>13, <1>14,
     <1>15, <1>16, <1>17, <1>18, <1>19 DEF Next, MainStep, HeartbeatStep

(* A process that is gone takes no step.                                   *)
LEMMA DeadStep ==
    ASSUME TypeOK, DeadInv, [Next]_vars
    PROVE  DeadInv'
PROOF
<1> USE DEF vars, fileVars, runVars, beatVars, countVars, TypeOK, DeadInv, Ended, InFlight
<1>1. ASSUME NEW r \in Run, TryCreateLock(r)
     PROVE  DeadInv'
  BY <1>1 DEF TryCreateLock, Goto
<1>2. ASSUME NEW r \in Run, WriteLock(r)
     PROVE  DeadInv'
  BY <1>2 DEF WriteLock, Goto, Displace
<1>3. ASSUME NEW r \in Run, ReadActive(r)
     PROVE  DeadInv'
  BY <1>3 DEF ReadActive, NextAttempt, Readable, Goto
<1>4. ASSUME NEW r \in Run, JudgeActive(r)
     PROVE  DeadInv'
  BY <1>4 DEF JudgeActive, Goto
<1>5. ASSUME NEW r \in Run, MoveStaleLock(r)
     PROVE  DeadInv'
  BY <1>5 DEF MoveStaleLock, NextAttempt, Goto, Displace
<1>6. ASSUME NEW r \in Run, VerifyMoved(r)
     PROVE  DeadInv'
  BY <1>6 DEF VerifyMoved, NextAttempt, Goto
<1>7. ASSUME NEW r \in Run, RestoreMovedLock(r)
     PROVE  DeadInv'
  BY <1>7 DEF RestoreMovedLock, Goto, Displace
<1>8. ASSUME NEW r \in Run, HeartbeatCheck(r)
     PROVE  DeadInv'
  BY <1>8 DEF HeartbeatCheck, Beat, Readable
<1>9. ASSUME NEW r \in Run, HeartbeatOpen(r)
     PROVE  DeadInv'
  BY <1>9 DEF HeartbeatOpen, Beat
<1>10. ASSUME NEW r \in Run, HeartbeatTruncate(r)
     PROVE  DeadInv'
  BY <1>10 DEF HeartbeatTruncate, Beat
<1>11. ASSUME NEW r \in Run, HeartbeatWrite(r)
     PROVE  DeadInv'
  BY <1>11 DEF HeartbeatWrite, Beat
<1>12. ASSUME NEW r \in Run, FinishRun(r)
     PROVE  DeadInv'
  BY <1>12 DEF FinishRun, Goto
<1>13. ASSUME NEW r \in Run, RequireOwnedLock(r)
     PROVE  DeadInv'
  BY <1>13 DEF RequireOwnedLock, Readable, Goto
<1>14. ASSUME NEW r \in Run, MoveOwnedLock(r)
     PROVE  DeadInv'
  BY <1>14 DEF MoveOwnedLock, Goto, Displace
<1>15. ASSUME NEW r \in Run, RemoveOwnedLock(r)
     PROVE  DeadInv'
  BY <1>15 DEF RemoveOwnedLock, Goto
<1>16. ASSUME NEW r \in Run, Exit(r)
     PROVE  DeadInv'
  BY <1>16 DEF Exit, InFlight
<1>17. ASSUME NEW r \in Run, Crash(r)
     PROVE  DeadInv'
  BY <1>17 DEF Crash
<1>18. ASSUME NEW r \in Run, Expire(r)
     PROVE  DeadInv'
  BY <1>18 DEF Expire
<1>19. CASE UNCHANGED vars
  BY <1>19
<1>20. QED
  BY <1>1, <1>2, <1>3, <1>4, <1>5, <1>6, <1>7, <1>8, <1>9, <1>10, <1>11, <1>12, <1>13, <1>14,
     <1>15, <1>16, <1>17, <1>18, <1>19 DEF Next, MainStep, HeartbeatStep

(* A judgement that a run is gone stays right.                             *)
LEMMA JudgedStep ==
    ASSUME TypeOK, JudgedInv, [Next]_vars
    PROVE  JudgedInv'
PROOF
<1> USE DEF vars, fileVars, runVars, beatVars, countVars, JudgedInv
<1>types. /\ lock \in Run \cup {None}
          /\ pc \in [Run -> Places]
          /\ alive \subseteq Run
          /\ displaced \subseteq Run
          /\ active \in [Run -> Metadata]
          /\ beat \in [Run -> {"idle", "checked", "opened", "truncated", "failed"}]
          /\ handle \in [Run -> Run \cup {None}]
  BY DEF TypeOK
<1> USE <1>types, LockAssumption
<1>1. ASSUME NEW r \in Run, TryCreateLock(r)
     PROVE  JudgedInv'
  BY <1>1 DEF TryCreateLock, Goto
<1>2. ASSUME NEW r \in Run, WriteLock(r)
     PROVE  JudgedInv'
  BY <1>2 DEF WriteLock, Goto, Displace
<1>3. ASSUME NEW r \in Run, ReadActive(r)
     PROVE  JudgedInv'
  BY <1>3 DEF ReadActive, NextAttempt, Readable, Goto
<1>4. ASSUME NEW r \in Run, JudgeActive(r)
     PROVE  JudgedInv'
  BY <1>4 DEF JudgeActive, Goto, Stale
<1>5. ASSUME NEW r \in Run, MoveStaleLock(r)
     PROVE  JudgedInv'
  BY <1>5 DEF MoveStaleLock, NextAttempt, Goto, Displace
<1>6. ASSUME NEW r \in Run, VerifyMoved(r)
     PROVE  JudgedInv'
  BY <1>6 DEF VerifyMoved, NextAttempt, Goto
<1>7. ASSUME NEW r \in Run, RestoreMovedLock(r)
     PROVE  JudgedInv'
  BY <1>7 DEF RestoreMovedLock, Goto, Displace
<1>8. ASSUME NEW r \in Run, HeartbeatCheck(r)
     PROVE  JudgedInv'
  BY <1>8 DEF HeartbeatCheck, Beat, Readable
<1>9. ASSUME NEW r \in Run, HeartbeatOpen(r)
     PROVE  JudgedInv'
  BY <1>9 DEF HeartbeatOpen, Beat
<1>10. ASSUME NEW r \in Run, HeartbeatTruncate(r)
     PROVE  JudgedInv'
  BY <1>10 DEF HeartbeatTruncate, Beat
<1>11. ASSUME NEW r \in Run, HeartbeatWrite(r)
     PROVE  JudgedInv'
  BY <1>11 DEF HeartbeatWrite, Beat
<1>12. ASSUME NEW r \in Run, FinishRun(r)
     PROVE  JudgedInv'
  BY <1>12 DEF FinishRun, Goto
<1>13. ASSUME NEW r \in Run, RequireOwnedLock(r)
     PROVE  JudgedInv'
  BY <1>13 DEF RequireOwnedLock, Readable, Goto
<1>14. ASSUME NEW r \in Run, MoveOwnedLock(r)
     PROVE  JudgedInv'
  BY <1>14 DEF MoveOwnedLock, Goto, Displace
<1>15. ASSUME NEW r \in Run, RemoveOwnedLock(r)
     PROVE  JudgedInv'
  BY <1>15 DEF RemoveOwnedLock, Goto
<1>16. ASSUME NEW r \in Run, Exit(r)
     PROVE  JudgedInv'
  BY <1>16 DEF Exit, InFlight
<1>17. ASSUME NEW r \in Run, Crash(r)
     PROVE  JudgedInv'
  BY <1>17 DEF Crash
<1>18. ASSUME NEW r \in Run, Expire(r)
     PROVE  JudgedInv'
  <2>1. \A q \in Run : active'[q].run = active[q].run
    BY <1>18, ExpiredFacts DEF Expire
  <2>2. QED
    BY <1>18, <2>1 DEF Expire
<1>19. CASE UNCHANGED vars
  BY <1>19
<1>20. QED
  BY <1>1, <1>2, <1>3, <1>4, <1>5, <1>6, <1>7, <1>8, <1>9, <1>10, <1>11, <1>12, <1>13, <1>14,
     <1>15, <1>16, <1>17, <1>18, <1>19 DEF Next, MainStep, HeartbeatStep

(* Who takes the file of an owner away displaces it.                       *)
LEMMA OwnerStep ==
    ASSUME TypeOK, DeadInv, JudgedInv, OwnerInv, [Next]_vars
    PROVE  OwnerInv'
PROOF
<1> USE DEF vars, fileVars, runVars, beatVars, countVars, OwnerInv, Owning
<1>types. /\ lock \in Run \cup {None}
          /\ pc \in [Run -> Places]
          /\ alive \subseteq Run
          /\ displaced \subseteq Run
          /\ active \in [Run -> Metadata]
          /\ beat \in [Run -> {"idle", "checked", "opened", "truncated", "failed"}]
          /\ handle \in [Run -> Run \cup {None}]
  BY DEF TypeOK
<1> USE <1>types, LockAssumption
<1>live. \A q \in Run : pc[q] \in Owning => q \in alive
  BY DEF DeadInv, Ended
<1>1. ASSUME NEW r \in Run, TryCreateLock(r)
     PROVE  OwnerInv'
  BY <1>1 DEF TryCreateLock, Goto
<1>2. ASSUME NEW r \in Run, WriteLock(r)
     PROVE  OwnerInv'
  BY <1>2 DEF WriteLock, Goto, Displace
<1>3. ASSUME NEW r \in Run, ReadActive(r)
     PROVE  OwnerInv'
  BY <1>3 DEF ReadActive, NextAttempt, Readable, Goto
<1>4. ASSUME NEW r \in Run, JudgeActive(r)
     PROVE  OwnerInv'
  BY <1>4 DEF JudgeActive, Goto
<1>5. ASSUME NEW r \in Run, MoveStaleLock(r)
     PROVE  OwnerInv'
  <2>1. /\ pc[r] = "recovering" /\ alive' = alive
        /\ \A q \in Run : pc'[q] \in Owning => pc[q] \in Owning
    BY <1>5 DEF MoveStaleLock, NextAttempt, Goto
  <2>2. Displace({active[r].run}) /\ (lock = None => lock' = None)
    BY <1>5 DEF MoveStaleLock
  <2>3. ASSUME NEW q \in Run, pc'[q] \in Owning, q \notin displaced'
        PROVE  FALSE
    <3>1. lock = q /\ q \in alive
      BY <1>live, <2>1, <2>2, <2>3 DEF Displace
    <3>2. active[r].run # q
      BY <2>1, <3>1 DEF JudgedInv
    <3>3. QED
      BY <2>2, <2>3, <3>1, <3>2 DEF Displace
  <2>4. QED
    BY <2>3
<1>6. ASSUME NEW r \in Run, VerifyMoved(r)
     PROVE  OwnerInv'
  BY <1>6 DEF VerifyMoved, NextAttempt, Goto
<1>7. ASSUME NEW r \in Run, RestoreMovedLock(r)
     PROVE  OwnerInv'
  BY <1>7 DEF RestoreMovedLock, Goto, Displace
<1>8. ASSUME NEW r \in Run, HeartbeatCheck(r)
     PROVE  OwnerInv'
  BY <1>8 DEF HeartbeatCheck, Beat, Readable
<1>9. ASSUME NEW r \in Run, HeartbeatOpen(r)
     PROVE  OwnerInv'
  BY <1>9 DEF HeartbeatOpen, Beat
<1>10. ASSUME NEW r \in Run, HeartbeatTruncate(r)
     PROVE  OwnerInv'
  BY <1>10 DEF HeartbeatTruncate, Beat
<1>11. ASSUME NEW r \in Run, HeartbeatWrite(r)
     PROVE  OwnerInv'
  BY <1>11 DEF HeartbeatWrite, Beat
<1>12. ASSUME NEW r \in Run, FinishRun(r)
     PROVE  OwnerInv'
  BY <1>12 DEF FinishRun, Goto
<1>13. ASSUME NEW r \in Run, RequireOwnedLock(r)
     PROVE  OwnerInv'
  BY <1>13 DEF RequireOwnedLock, Readable, Goto
<1>14. ASSUME NEW r \in Run, MoveOwnedLock(r)
     PROVE  OwnerInv'
  BY <1>14 DEF MoveOwnedLock, Goto, Displace
<1>15. ASSUME NEW r \in Run, RemoveOwnedLock(r)
     PROVE  OwnerInv'
  BY <1>15 DEF RemoveOwnedLock, Goto
<1>16. ASSUME NEW r \in Run, Exit(r)
     PROVE  OwnerInv'
  BY <1>16 DEF Exit, InFlight
<1>17. ASSUME NEW r \in Run, Crash(r)
     PROVE  OwnerInv'
  BY <1>17 DEF Crash
<1>18. ASSUME NEW r \in Run, Expire(r)
     PROVE  OwnerInv'
  BY <1>18 DEF Expire
<1>19. CASE UNCHANGED vars
  BY <1>19
<1>20. QED
  BY <1>1, <1>2, <1>3, <1>4, <1>5, <1>6, <1>7, <1>8, <1>9, <1>10, <1>11, <1>12, <1>13, <1>14,
     <1>15, <1>16, <1>17, <1>18, <1>19 DEF Next, MainStep, HeartbeatStep

(* A heartbeat starts while its run holds the lock.                        *)
LEMMA BeatStep ==
    ASSUME TypeOK, BeatInv, [Next]_vars
    PROVE  BeatInv'
PROOF
<1> USE DEF vars, fileVars, runVars, beatVars, countVars, BeatInv, Ended
<1>types. /\ lock \in Run \cup {None}
          /\ pc \in [Run -> Places]
          /\ alive \subseteq Run
          /\ displaced \subseteq Run
          /\ active \in [Run -> Metadata]
          /\ beat \in [Run -> {"idle", "checked", "opened", "truncated", "failed"}]
          /\ handle \in [Run -> Run \cup {None}]
  BY DEF TypeOK
<1> USE <1>types, LockAssumption
<1>1. ASSUME NEW r \in Run, TryCreateLock(r)
     PROVE  BeatInv'
  BY <1>1 DEF TryCreateLock, Goto
<1>2. ASSUME NEW r \in Run, WriteLock(r)
     PROVE  BeatInv'
  BY <1>2 DEF WriteLock, Goto, Displace
<1>3. ASSUME NEW r \in Run, ReadActive(r)
     PROVE  BeatInv'
  BY <1>3 DEF ReadActive, NextAttempt, Readable, Goto
<1>4. ASSUME NEW r \in Run, JudgeActive(r)
     PROVE  BeatInv'
  BY <1>4 DEF JudgeActive, Goto
<1>5. ASSUME NEW r \in Run, MoveStaleLock(r)
     PROVE  BeatInv'
  BY <1>5 DEF MoveStaleLock, NextAttempt, Goto, Displace
<1>6. ASSUME NEW r \in Run, VerifyMoved(r)
     PROVE  BeatInv'
  BY <1>6 DEF VerifyMoved, NextAttempt, Goto
<1>7. ASSUME NEW r \in Run, RestoreMovedLock(r)
     PROVE  BeatInv'
  BY <1>7 DEF RestoreMovedLock, Goto, Displace
<1>8. ASSUME NEW r \in Run, HeartbeatCheck(r)
     PROVE  BeatInv'
  BY <1>8 DEF HeartbeatCheck, Beat, Readable
<1>9. ASSUME NEW r \in Run, HeartbeatOpen(r)
     PROVE  BeatInv'
  BY <1>9 DEF HeartbeatOpen, Beat
<1>10. ASSUME NEW r \in Run, HeartbeatTruncate(r)
     PROVE  BeatInv'
  BY <1>10 DEF HeartbeatTruncate, Beat
<1>11. ASSUME NEW r \in Run, HeartbeatWrite(r)
     PROVE  BeatInv'
  BY <1>11 DEF HeartbeatWrite, Beat
<1>12. ASSUME NEW r \in Run, FinishRun(r)
     PROVE  BeatInv'
  BY <1>12 DEF FinishRun, Goto
<1>13. ASSUME NEW r \in Run, RequireOwnedLock(r)
     PROVE  BeatInv'
  BY <1>13 DEF RequireOwnedLock, Readable, Goto
<1>14. ASSUME NEW r \in Run, MoveOwnedLock(r)
     PROVE  BeatInv'
  BY <1>14 DEF MoveOwnedLock, Goto, Displace
<1>15. ASSUME NEW r \in Run, RemoveOwnedLock(r)
     PROVE  BeatInv'
  BY <1>15 DEF RemoveOwnedLock, Goto
<1>16. ASSUME NEW r \in Run, Exit(r)
     PROVE  BeatInv'
  BY <1>16 DEF Exit, InFlight
<1>17. ASSUME NEW r \in Run, Crash(r)
     PROVE  BeatInv'
  BY <1>17 DEF Crash
<1>18. ASSUME NEW r \in Run, Expire(r)
     PROVE  BeatInv'
  BY <1>18 DEF Expire
<1>19. CASE UNCHANGED vars
  BY <1>19
<1>20. QED
  BY <1>1, <1>2, <1>3, <1>4, <1>5, <1>6, <1>7, <1>8, <1>9, <1>10, <1>11, <1>12, <1>13, <1>14,
     <1>15, <1>16, <1>17, <1>18, <1>19 DEF Next, MainStep, HeartbeatStep

(* A heartbeat opens its own run's file while that run owns the lock.      *)
LEMMA LateStep ==
    ASSUME TypeOK, OwnerInv, BeatInv, LateHeartbeats, [Next]_vars
    PROVE  LateHeartbeats'
PROOF
<1> USE DEF vars, fileVars, runVars, beatVars, countVars, LateHeartbeats, Ended
<1>types. /\ lock \in Run \cup {None}
          /\ pc \in [Run -> Places]
          /\ alive \subseteq Run
          /\ displaced \subseteq Run
          /\ active \in [Run -> Metadata]
          /\ beat \in [Run -> {"idle", "checked", "opened", "truncated", "failed"}]
          /\ handle \in [Run -> Run \cup {None}]
  BY DEF TypeOK
<1> USE <1>types, LockAssumption
<1>1. ASSUME NEW r \in Run, TryCreateLock(r)
     PROVE  LateHeartbeats'
  BY <1>1 DEF TryCreateLock, Goto
<1>2. ASSUME NEW r \in Run, WriteLock(r)
     PROVE  LateHeartbeats'
  BY <1>2 DEF WriteLock, Goto, Displace
<1>3. ASSUME NEW r \in Run, ReadActive(r)
     PROVE  LateHeartbeats'
  BY <1>3 DEF ReadActive, NextAttempt, Readable, Goto
<1>4. ASSUME NEW r \in Run, JudgeActive(r)
     PROVE  LateHeartbeats'
  BY <1>4 DEF JudgeActive, Goto
<1>5. ASSUME NEW r \in Run, MoveStaleLock(r)
     PROVE  LateHeartbeats'
  BY <1>5 DEF MoveStaleLock, NextAttempt, Goto, Displace
<1>6. ASSUME NEW r \in Run, VerifyMoved(r)
     PROVE  LateHeartbeats'
  BY <1>6 DEF VerifyMoved, NextAttempt, Goto
<1>7. ASSUME NEW r \in Run, RestoreMovedLock(r)
     PROVE  LateHeartbeats'
  BY <1>7 DEF RestoreMovedLock, Goto, Displace
<1>8. ASSUME NEW r \in Run, HeartbeatCheck(r)
     PROVE  LateHeartbeats'
  BY <1>8 DEF HeartbeatCheck, Beat, Readable
<1>9. ASSUME NEW r \in Run, HeartbeatOpen(r)
     PROVE  LateHeartbeats'
  <2>1. beat[r] = "checked"
    BY <1>9 DEF HeartbeatOpen, Beat
  <2>2. pc[r] \in Owning \/ pc[r] \in {"removing", "restoring"} \cup Ended
    BY <2>1 DEF BeatInv, Owning
  <2>3. CASE pc[r] \in Owning /\ r \notin displaced
    <3>1. lock = r
      BY <2>3 DEF OwnerInv
    <3>2. QED
      BY <1>9, <3>1 DEF HeartbeatOpen, Beat
  <2>4. CASE r \in displaced \/ pc[r] \in {"removing", "restoring"} \cup Ended
    BY <1>9, <2>4 DEF HeartbeatOpen, Beat
  <2>5. QED
    BY <2>2, <2>3, <2>4
<1>10. ASSUME NEW r \in Run, HeartbeatTruncate(r)
     PROVE  LateHeartbeats'
  BY <1>10 DEF HeartbeatTruncate, Beat
<1>11. ASSUME NEW r \in Run, HeartbeatWrite(r)
     PROVE  LateHeartbeats'
  BY <1>11 DEF HeartbeatWrite, Beat
<1>12. ASSUME NEW r \in Run, FinishRun(r)
     PROVE  LateHeartbeats'
  BY <1>12 DEF FinishRun, Goto
<1>13. ASSUME NEW r \in Run, RequireOwnedLock(r)
     PROVE  LateHeartbeats'
  BY <1>13 DEF RequireOwnedLock, Readable, Goto
<1>14. ASSUME NEW r \in Run, MoveOwnedLock(r)
     PROVE  LateHeartbeats'
  BY <1>14 DEF MoveOwnedLock, Goto, Displace
<1>15. ASSUME NEW r \in Run, RemoveOwnedLock(r)
     PROVE  LateHeartbeats'
  BY <1>15 DEF RemoveOwnedLock, Goto
<1>16. ASSUME NEW r \in Run, Exit(r)
     PROVE  LateHeartbeats'
  BY <1>16 DEF Exit, InFlight
<1>17. ASSUME NEW r \in Run, Crash(r)
     PROVE  LateHeartbeats'
  BY <1>17 DEF Crash
<1>18. ASSUME NEW r \in Run, Expire(r)
     PROVE  LateHeartbeats'
  BY <1>18 DEF Expire
<1>19. CASE UNCHANGED vars
  BY <1>19
<1>20. QED
  BY <1>1, <1>2, <1>3, <1>4, <1>5, <1>6, <1>7, <1>8, <1>9, <1>10, <1>11, <1>12, <1>13, <1>14,
     <1>15, <1>16, <1>17, <1>18, <1>19 DEF Next, MainStep, HeartbeatStep

-----------------------------------------------------------------------------
(* The initial states, with or without the lock of a dead run.             *)
LEMMA InitInv == Init => IInv
PROOF
<1> SUFFICES ASSUME Init
             PROVE  IInv
  OBVIOUS
<1> USE LockAssumption DEF Init
<1>1. /\ alive = Run \ Leftover /\ displaced = {}
      /\ \A r \in Run :
            /\ pc[r] = IF r \in Leftover THEN "failed" ELSE "creating"
            /\ attempt[r] = 0 /\ beat[r] = "idle" /\ handle[r] = None
  OBVIOUS
<1>2. TypeOK
  BY MetadataFacts DEF TypeOK, Places, Ended
<1>3. AttemptInv /\ DeadInv
  BY <1>1 DEF AttemptInv, DeadInv, Early, Ended, InFlight
<1>4. JudgedInv /\ OwnerInv /\ BeatInv /\ LateHeartbeats
  BY <1>1 DEF JudgedInv, OwnerInv, Owning, BeatInv, LateHeartbeats
<1>5. QED
  BY <1>2, <1>3, <1>4 DEF IInv

(* Every variable keeps its type.                                          *)
THEOREM TypeCorrect == Spec => []TypeOK
PROOF
<1>1. Init => TypeOK /\ AttemptInv
  BY InitInv DEF IInv
<1>2. TypeOK /\ AttemptInv /\ [Next]_vars => (TypeOK /\ AttemptInv)'
  BY TypeStep, AttemptStep
<1>3. QED
  BY <1>1, <1>2, PTL DEF Spec

(* The invariant of the protocol.                                          *)
LEMMA Invariance == Spec => []IInv
PROOF
<1>1. Init => IInv
  BY InitInv
<1>2. IInv /\ [Next]_vars => IInv'
  BY TypeStep, AttemptStep, DeadStep, JudgedStep, OwnerStep, BeatStep, LateStep DEF IInv
<1>3. QED
  BY <1>1, <1>2, PTL DEF Spec

(* However many runs contend, crash, stall and fail to write: at most one  *)
(* run that no other run has displaced holds the lock.  Judging dead runs, *)
(* recovering their files, creating and releasing let nobody in beside it. *)
THEOREM MutualExclusion == Spec => []ExclusionKept
PROOF
<1>1. IInv => ExclusionKept
  BY DEF IInv, OwnerInv, Owning, ExclusionKept, Holding
<1>2. QED
  BY <1>1, Invariance, PTL

(* A heartbeat that nobody awaits (release clears its timer only) has      *)
(* another run's file open only behind its own run's release, or once its  *)
(* run was displaced.                                                      *)
THEOREM HeartbeatsAtHome == Spec => []LateHeartbeats
PROOF
<1>1. IInv => LateHeartbeats
  BY DEF IInv
<1>2. QED
  BY <1>1, Invariance, PTL

-----------------------------------------------------------------------------
(* The abstract lock: its holders are the living runs that go by holding   *)
(* the file and that no other run has displaced.                           *)
Counted(r) == Holding(r) /\ r \notin displaced

(* A step changes what one run goes by: its own place, or that of the run  *)
(* whose file it takes away.                                               *)
LEMMA CountedStep ==
    ASSUME TypeOK, [Next]_vars
    PROVE  \/ \A q \in Run : Counted(q)' <=> Counted(q)
           \/ \E p \in Run : \A q \in Run \ {p} : Counted(q)' <=> Counted(q)
PROOF
<1> DEFINE Kept == \A q \in Run : Counted(q)' <=> Counted(q)
           One(p) == \A q \in Run \ {p} : Counted(q)' <=> Counted(q)
<1>types. /\ lock \in Run \cup {None} /\ pc \in [Run -> Places]
          /\ alive \subseteq Run /\ displaced \subseteq Run
  BY DEF TypeOK
<1> USE <1>types, LockAssumption DEF Counted, Holding
<1>1. ASSUME NEW r \in Run, \/ TryCreateLock(r) \/ ReadActive(r) \/ JudgeActive(r)
                            \/ VerifyMoved(r) \/ FinishRun(r) \/ RequireOwnedLock(r)
                            \/ RemoveOwnedLock(r)
      PROVE  One(r)
  <2>1. alive' = alive /\ displaced' = displaced /\ \A q \in Run \ {r} : pc'[q] = pc[q]
    BY <1>1 DEF TryCreateLock, ReadActive, JudgeActive, VerifyMoved, FinishRun, RequireOwnedLock,
       RemoveOwnedLock, NextAttempt, Goto
  <2>2. QED
    BY <2>1
<1>2. ASSUME NEW r \in Run, WriteLock(r)
      PROVE  Kept \/ \E p \in Run : One(p)
  <2>1. CASE pc'[r] = "holding"
    <3>1. displaced' = displaced /\ alive' = alive /\ \A q \in Run \ {r} : pc'[q] = pc[q]
      BY <1>2, <2>1 DEF WriteLock, Goto, Displace
    <3>2. QED
      BY <3>1
  <2>2. CASE pc'[r] # "holding"
    <3>1. /\ Displace({r}) /\ alive' = alive /\ pc[r] = "writing"
          /\ \A q \in Run \ {r} : pc'[q] = pc[q]
      BY <1>2, <2>2 DEF WriteLock, Goto, Displace
    <3>2. CASE lock = None
      BY <2>2, <3>1, <3>2 DEF Displace
    <3>3. CASE lock \in Run
      <4>1. One(lock)
        BY <2>2, <3>1, <3>3 DEF Displace
      <4>2. QED
        BY <3>3, <4>1
    <3>4. QED
      BY <3>2, <3>3
  <2>3. QED
    BY <2>1, <2>2
<1>3. ASSUME NEW r \in Run, MoveStaleLock(r) \/ RestoreMovedLock(r) \/ MoveOwnedLock(r)
      PROVE  Kept \/ \E p \in Run : One(p)
  <2>1. /\ \E own : Displace(own)
        /\ alive' = alive /\ pc[r] # "holding" /\ pc'[r] # "holding"
        /\ \A q \in Run \ {r} : pc'[q] = pc[q]
    BY <1>3 DEF MoveStaleLock, RestoreMovedLock, MoveOwnedLock, NextAttempt, Goto
  <2>2. CASE lock = None
    BY <2>1, <2>2 DEF Displace
  <2>3. CASE lock \in Run
    <3>1. One(lock)
      BY <2>1, <2>3 DEF Displace
    <3>2. QED
      BY <2>3, <3>1
  <2>4. QED
    BY <2>2, <2>3
<1>4. ASSUME NEW r \in Run, HeartbeatCheck(r) \/ HeartbeatStep(r) \/ Expire(r)
      PROVE  Kept
  <2>1. alive' = alive /\ displaced' = displaced /\ pc' = pc
    BY <1>4 DEF HeartbeatCheck, HeartbeatStep, HeartbeatOpen, HeartbeatTruncate, HeartbeatWrite,
       Expire, runVars
  <2>2. QED
    BY <2>1
<1>5. ASSUME NEW r \in Run, Exit(r) \/ Crash(r)
      PROVE  One(r)
  <2>1. /\ displaced' = displaced
        /\ \A q \in Run \ {r} : pc'[q] = pc[q] /\ (q \in alive' <=> q \in alive)
    BY <1>5 DEF Exit, Crash, runVars
  <2>2. QED
    BY <2>1
<1>6. CASE UNCHANGED vars
  BY <1>6 DEF vars, runVars
<1>7. QED
  BY <1>1, <1>2, <1>3, <1>4, <1>5, <1>6 DEF Next, MainStep

(* The protocol of the lock file implements the lock that the automation's *)
(* runs and rollbacks count on, for any number of runs: nobody comes to    *)
(* hold it beside a holder that no other run has displaced.                *)
THEOREM LockImplements == Spec => ImplementsLock
PROOF
<1>1. Init => Global!Init
  BY DEF Init, Global!Init, Holding
<1>2. ASSUME TypeOK, ExclusionKept', [Next]_vars
      PROVE  [Global!Next]_{r \in Run : Holding(r) /\ r \notin displaced}
  <2>1. CASE \A q \in Run : Counted(q)' <=> Counted(q)
    BY <2>1 DEF Counted
  <2>2. ASSUME NEW r \in Run, \A q \in Run \ {r} : Counted(q)' <=> Counted(q)
        PROVE  [Global!Next]_{q \in Run : Holding(q) /\ q \notin displaced}
    <3>1. CASE Counted(r) <=> Counted(r)'
      BY <2>2, <3>1 DEF Counted
    <3>2. CASE Counted(r)' /\ ~Counted(r)
      <4>1. \A q \in Run : Counted(q)' <=> q = r
        BY <1>2, <3>2 DEF ExclusionKept, Counted
      <4>2. \A q \in Run : ~Counted(q)
        BY <2>2, <3>2, <4>1
      <4>3. QED
        BY <4>1, <4>2 DEF Global!Next, Global!Take, Counted
    <3>3. CASE Counted(r) /\ ~Counted(r)'
      BY <2>2, <3>3 DEF Global!Next, Global!Leave, Counted
    <3>4. QED
      BY <3>1, <3>2, <3>3
  <2>3. QED
    BY <1>2, <2>1, <2>2, CountedStep
<1>3. QED
  BY <1>1, <1>2, TypeCorrect, MutualExclusion, PTL DEF Spec, ImplementsLock, Global!Spec
=============================================================================
