------------------------ MODULE SystemLifecycle_proofs ------------------------
(***************************************************************************)
(* Proofs about systemLifecycle.ts and followUpBasket.ts: the types, that  *)
(* the inbox is never ahead of the store it names, and that the lifecycle  *)
(* audit tells once of what the system has added, for any number of        *)
(* tokens, checkpoints, operations, owner's acts, crashes and failures.    *)
(***************************************************************************)
EXTENDS SystemLifecycle, FiniteSetTheorems, TLAPS

(* Whether the target store has what an operation puts there, or the owner *)
(* has taken it away again.                                                *)
Settled(t) == Enabled(t) \/ t \in demoted
Reached(o) == IF journal[o].target = "FOLLOW_UP" THEN InBasket(journal[o].token) ELSE Settled(journal[o].token)

(* What a cycle has read of the stores is still there: entries stay, and   *)
(* only the owner takes a row away.                                        *)
ReadInv ==
    /\ \A t \in Token : basket[t] # Absent => InBasket(t)
    /\ \A t \in main : Settled(t)

(* The operation in hand has come to a stage behind the target store only  *)
(* with its target reached, or to the end of a recovery that closes it.    *)
Past ==
    \/ doing.stage \in {"FOLLOW_UP_SYNCED", "NEW_INBOX_APPLIED", "AUDIT_APPLIED"}
    \/ doing.stage = "TARGET_STORE_APPLIED" /\ doing.written
    \/ doing.stage = "COMMITTED" /\ place = "main"
HandInv ==
    doing.op # NoOp =>
        /\ doing.stage # "PLAN_CREATED"
        /\ place \in {"recovering", "followUp", "main"}
        /\ place = "main" => journal[doing.op].target = "MAIN_RADAR"
        /\ Past => Reached(doing.op)

(* The types, in parts.                                                    *)
StoreTypes ==
    /\ inbox \in [Token -> Target \cup {"NEW", Absent}]
    /\ followUp \in [Token -> Entry \cup {Absent}]
    /\ age \in [Token -> Age]
    /\ row \in [Token -> Row \cup {Absent}]
    /\ demoted \subseteq Token
RecordTypes ==
    /\ journal \in [Op -> Operation \cup {Absent}]
    /\ audit \in [Op -> {"none", "APPLIED", "DUPLICATE_NOOP"}]
RunTypes ==
    /\ lock \in BOOLEAN /\ duplicate \in BOOLEAN
    /\ place \in {"idle", "collecting", "locking"} \cup Locked
    /\ todo \subseteq IF place = "recovering" THEN Op ELSE Token
    /\ doing \in [op: Op \cup {NoOp}, stage: Stage, written: BOOLEAN]
    /\ doing.op # NoOp => journal[doing.op] # Absent
ReadTypes ==
    /\ universe \subseteq Token /\ main \subseteq Token
    /\ due \subseteq Token /\ fresh \subseteq Token
    /\ basket \in [Token -> Entry \cup {Absent}]
    /\ owed \subseteq SUBSET Token
CountTypes == acts \in 0..MaxOwnerActs /\ faults \in 0..MaxFaults /\ left \subseteq Store
Types == StoreTypes /\ RecordTypes /\ RunTypes /\ ReadTypes /\ CountTypes

(* What is to be recovered is in the journal.                              *)
TodoInv == place = "recovering" => \A o \in todo : journal[o] # Absent

IInv == Types /\ TodoInv /\ ReadInv /\ HandInv /\ InboxFollows

-----------------------------------------------------------------------------
(* The operators of FollowUpBasket on an entry.                            *)
LEMMA AgeLemma ==
    /\ 0 \in Age
    /\ \A a \in Age, s \in Lifecycle : FutureCheckpoint(s, a) \in Age
PROOF
  BY CheckpointsAssumption DEF Age, FutureCheckpoint

LEMMA EntryLemma ==
    ASSUME NEW e \in Entry, NEW a \in Age, NEW est \in BOOLEAN, NEW p \in BOOLEAN, NEW s \in BOOLEAN
    PROVE  /\ Synced(e, a, est) \in Entry
           /\ Rechecked(e, a, est, p, s) \in Entry
           /\ [e EXCEPT !.secure = s] \in Entry
PROOF
<1>1. e.status \in Lifecycle /\ e.done \in Age /\ e.since \in BOOLEAN /\ e.passed \in BOOLEAN
  BY DEF Entry
<1>2. Synced(e, a, est) \in Entry
  <2>1. Unestablished(e, a) \in Lifecycle
    BY DEF Unestablished, Lifecycle
  <2>2. \A st \in Lifecycle : [e EXCEPT !.status = st, !.next = FutureCheckpoint(st, a)] \in Entry
    BY AgeLemma DEF Entry
  <2>3. "ESTABLISHED" \in Lifecycle
    BY DEF Lifecycle
  <2>4. QED
    BY <2>1, <2>2, <2>3 DEF Synced
<1>3. Rechecked(e, a, est, p, s) \in Entry
  <2>1. \A st \in Lifecycle, c \in BOOLEAN :
           [e EXCEPT !.status = st, !.done = a, !.next = FutureCheckpoint(st, a), !.passed = p, !.secure = s,
                     !.since = c] \in Entry
    BY AgeLemma DEF Entry
  <2>2. {"ESTABLISHED", "CANDIDATE", "ARCHIVED", "MATURING"} \subseteq Lifecycle
    BY DEF Lifecycle
  <2>3. \A st \in Lifecycle : (e.since \/ st = "CANDIDATE") \in BOOLEAN
    BY <1>1
  <2>4. QED
    BY <2>1, <2>2, <2>3 DEF Rechecked
<1>4. [e EXCEPT !.secure = s] \in Entry
  BY DEF Entry
<1>5. QED
  BY <1>2, <1>3, <1>4

LEMMA IngestedLemma ==
    ASSUME NEW who \in {"system", "owner"}, NEW est \in BOOLEAN, NEW p \in BOOLEAN
    PROVE  Ingested(who, est, p) \in Entry
PROOF
<1>1. 0 \in Age /\ 1 \in Age
  BY CheckpointsAssumption DEF Age
<1>2. QED
  BY <1>1 DEF Ingested, Entry, Lifecycle

(* A synchronization of the whole basket keeps who is in it.               *)
SyncedBasket(u) == [t \in Token |-> IF InBasket(t) THEN Synced(followUp[t], age[t], t \in u) ELSE Absent]

LEMMA SyncLemma ==
    ASSUME StoreTypes, NEW u
    PROVE  /\ SyncedBasket(u) \in [Token -> Entry \cup {Absent}]
           /\ \A t \in Token : InBasket(t) => SyncedBasket(u)[t] # Absent
PROOF
<1>1. \A t \in Token : InBasket(t) => followUp[t] \in Entry /\ age[t] \in Age
  BY DEF StoreTypes, InBasket
<1>2. \A t \in Token : (t \in u) \in BOOLEAN
  OBVIOUS
<1>3. \A t \in Token : InBasket(t) => Synced(followUp[t], age[t], t \in u) \in Entry
  BY <1>1, <1>2, EntryLemma
<1>4. QED
  BY <1>3, LifecycleAssumption DEF SyncedBasket

(* A planned operation is the one in hand.                                 *)
LEMMA PlanLemma ==
    ASSUME RecordTypes, NEW t \in Token, NEW g \in Target, Plan(t, g)
    PROVE  \E o \in Op :
              /\ doing' = [op |-> o, stage |-> "TARGET_STORE_APPLIED", written |-> FALSE]
              /\ journal' = [journal EXCEPT ![o] = journal'[o]]
              /\ journal'[o] \in Operation /\ journal'[o] # Absent
              /\ journal'[o].token = t /\ journal'[o].target = g
PROOF
<1>1. PICK o \in Op :
         /\ journal' = [journal EXCEPT ![o] = [token |-> t, target |-> g, stage |-> "PLAN_CREATED"]]
         /\ doing' = [op |-> o, stage |-> "TARGET_STORE_APPLIED", written |-> FALSE]
  BY DEF Plan, Spare
<1>2. journal'[o] = [token |-> t, target |-> g, stage |-> "PLAN_CREATED"]
  BY <1>1 DEF RecordTypes
<1>3. journal'[o] \in Operation
  BY <1>2 DEF Operation, Stage, Stages
<1>4. journal'[o].token = t /\ journal'[o].target = g
  BY <1>2
<1>5. Absent \notin Operation
  BY LifecycleAssumption
<1>6. journal' = [journal EXCEPT ![o] = journal'[o]]
  BY <1>1, <1>2
<1>7. QED
  BY <1>1, <1>3, <1>4, <1>5, <1>6


(* A recheck keeps who is in the basket, and its entries' type.            *)
LEMMA RecheckLemma ==
    ASSUME StoreTypes, Recheck
    PROVE  /\ followUp' \in [Token -> Entry \cup {Absent}]
           /\ \A t \in Token : InBasket(t) => followUp'[t] # Absent
PROOF
<1>1. \A t \in Token : InBasket(t) => followUp[t] \in Entry /\ age[t] \in Age
  BY DEF StoreTypes, InBasket
<1>2. PICK checked \in SUBSET due, passing \in SUBSET due, secure \in SUBSET due :
         followUp' = [t \in Token |->
             IF ~InBasket(t) THEN Absent
             ELSE LET e == Synced(followUp[t], age[t], t \in universe)
                  IN  IF t \in checked
                      THEN Rechecked(e, age[t], t \in universe, t \in passing, t \in secure)
                      ELSE e]
  BY DEF Recheck
<1>3. \A t \in Token : (t \in universe) \in BOOLEAN /\ (t \in passing) \in BOOLEAN /\ (t \in secure) \in BOOLEAN
  OBVIOUS
<1>4. \A t \in Token : InBasket(t) => Synced(followUp[t], age[t], t \in universe) \in Entry
  BY <1>1, <1>3, EntryLemma
<1>5. \A t \in Token : InBasket(t) =>
         Rechecked(Synced(followUp[t], age[t], t \in universe), age[t], t \in universe, t \in passing,
                   t \in secure) \in Entry
  BY <1>1, <1>3, <1>4, EntryLemma
<1>6. QED
  BY <1>2, <1>4, <1>5, LifecycleAssumption


(* The observation puts its token into the basket.                         *)
LEMMA ApplyLemma ==
    ASSUME Types, ApplyFollowUp
    PROVE  /\ followUp' \in [Token -> Entry \cup {Absent}]
           /\ \A t \in Token : InBasket(t) => followUp'[t] # Absent
           /\ followUp'[Current.token] # Absent
PROOF
<1>1. Current.token \in Token
  BY DEF ApplyFollowUp, Writes, Current, Operation, Types, RunTypes, RecordTypes
<1>2. (Current.token \in universe) \in BOOLEAN
  OBVIOUS
<1>3. Ingested("system", Current.token \in universe, TRUE) \in Entry
  BY <1>2, IngestedLemma
<1>4. PICK e \in Entry :
         followUp' = IF InBasket(Current.token) THEN followUp ELSE [followUp EXCEPT ![Current.token] = e]
  BY <1>3 DEF ApplyFollowUp
<1>5. QED
  BY <1>1, <1>4, LifecycleAssumption DEF Types, StoreTypes, InBasket


(* The stores keep their types.                                            *)
LEMMA StoreStep ==
    ASSUME Types, [Next]_vars
    PROVE  StoreTypes'
PROOF
<1> USE DEF storeVars, recordVars, lockVars, readVars, recheckVars, countVars, runVars
<1>types. StoreTypes /\ RecordTypes /\ RunTypes
  BY DEF Types
<1>hand. doing.op # NoOp => Current \in Operation
  BY <1>types DEF RunTypes, RecordTypes, Current
<1>sync. \A u : SyncedBasket(u) \in [Token -> Entry \cup {Absent}]
  BY <1>types, SyncLemma
<1>1. ASSUME Recheck
     PROVE  StoreTypes'
  BY <1>1, <1>types, RecheckLemma DEF Recheck, StoreTypes
<1>2. ASSUME SortInbox
     PROVE  StoreTypes'
  <2>1. inbox' \in [Token -> Target \cup {"NEW", Absent}]
    BY <1>2, <1>types DEF SortInbox, StoreTypes, Target
  <2>2. QED
    BY <1>2, <1>types, <2>1 DEF SortInbox, StoreTypes
<1>3. ASSUME ApplyFollowUp
     PROVE  StoreTypes'
  <2>1. Current.token \in Token
    BY <1>3, <1>hand DEF ApplyFollowUp, Writes, Operation
  <2>2. age' \in [Token -> Age]
    BY <1>3, <1>types, <2>1, AgeLemma DEF ApplyFollowUp, StoreTypes
  <2>3. QED
    BY <1>3, <1>types, <2>2, ApplyLemma DEF ApplyFollowUp, StoreTypes
<1>4. ASSUME ApplyMain
     PROVE  StoreTypes'
  <2>1. [by |-> "system", enabled |-> TRUE] \in Row
    BY DEF Row
  <2>2. row' \in [Token -> Row \cup {Absent}]
    BY <1>4, <1>types, <2>1 DEF ApplyMain, StoreTypes
  <2>3. QED
    BY <1>4, <1>types, <2>2 DEF ApplyMain, StoreTypes
<1>5. ASSUME SyncFollowUp
     PROVE  StoreTypes'
  <2>1. followUp' = SyncedBasket(universe)
    BY <1>5 DEF SyncFollowUp, SyncedBasket
  <2>2. QED
    BY <1>5, <1>types, <1>sync, <2>1 DEF SyncFollowUp, StoreTypes
<1>6. ASSUME SetInbox
     PROVE  StoreTypes'
  <2>1. Current.target \in Target
    BY <1>6, <1>hand DEF SetInbox, Writes, Operation
  <2>2. inbox' \in [Token -> Target \cup {"NEW", Absent}]
    BY <1>6, <1>types, <2>1 DEF SetInbox, StoreTypes
  <2>3. QED
    BY <1>6, <1>types, <2>2 DEF SetInbox, StoreTypes
<1>7. ASSUME OwnerSyncs
     PROVE  StoreTypes'
  <2>1. followUp' = followUp \/ \E u : followUp' = SyncedBasket(u)
    BY <1>7 DEF OwnerSyncs, SyncedBasket
  <2>2. followUp' \in [Token -> Entry \cup {Absent}]
    BY <1>types, <1>sync, <2>1 DEF StoreTypes
  <2>3. QED
    BY <1>7, <1>types, <2>2 DEF OwnerSyncs, StoreTypes
<1>8. ASSUME OwnerBootstraps
     PROVE  StoreTypes'
  BY <1>8, <1>types DEF OwnerBootstraps, OwnerActs, StoreTypes
<1>9. ASSUME NEW t \in Token, OwnerIngests(t)
     PROVE  StoreTypes'
  <2>1. 0 \in Age /\ \A passes \in BOOLEAN : Ingested("owner", FALSE, passes) \in Entry
    BY AgeLemma, IngestedLemma
  <2>2. followUp' \in [Token -> Entry \cup {Absent}] /\ age' \in [Token -> Age]
    BY <1>9, <1>types, <2>1 DEF OwnerIngests, StoreTypes
  <2>3. QED
    BY <1>9, <1>types, <2>2 DEF OwnerIngests, OwnerActs, StoreTypes
<1>10. ASSUME NEW t \in Token, OwnerVerifies(t)
     PROVE  StoreTypes'
  <2>1. followUp[t] \in Entry
    BY <1>10, <1>types DEF OwnerVerifies, StoreTypes, InBasket
  <2>2. \A verified \in BOOLEAN : [followUp[t] EXCEPT !.secure = verified] \in Entry
    BY <2>1 DEF Entry
  <2>3. followUp' \in [Token -> Entry \cup {Absent}]
    BY <1>10, <1>types, <2>2 DEF OwnerVerifies, StoreTypes
  <2>4. QED
    BY <1>10, <1>types, <2>3 DEF OwnerVerifies, OwnerActs, StoreTypes
<1>11. ASSUME NEW t \in Token, OwnerAdds(t)
     PROVE  StoreTypes'
  <2>1. [by |-> "owner", enabled |-> TRUE] \in Row
    BY DEF Row
  <2>2. QED
    BY <1>11, <1>types, <2>1 DEF OwnerAdds, OwnerActs, StoreTypes
<1>12. ASSUME NEW t \in Token, OwnerDemotes(t)
     PROVE  StoreTypes'
  <2>1. row[t] \in Row
    BY <1>12, <1>types DEF OwnerDemotes, StoreTypes
  <2>2. [row[t] EXCEPT !.enabled = FALSE] \in Row
    BY <2>1 DEF Row
  <2>3. row' \in [Token -> Row \cup {Absent}]
    BY <1>12, <1>types, <2>2 DEF OwnerDemotes, StoreTypes
  <2>4. QED
    BY <1>12, <1>types, <2>3 DEF OwnerDemotes, OwnerActs, StoreTypes
<1>13. ASSUME NEW t \in Token, OwnerEnables(t)
     PROVE  StoreTypes'
  <2>1. row[t] \in Row
    BY <1>13, <1>types DEF OwnerEnables, StoreTypes
  <2>2. [row[t] EXCEPT !.enabled = TRUE] \in Row
    BY <2>1 DEF Row
  <2>3. row' \in [Token -> Row \cup {Absent}]
    BY <1>13, <1>types, <2>2 DEF OwnerEnables, StoreTypes
  <2>4. QED
    BY <1>13, <1>types, <2>3 DEF OwnerEnables, OwnerActs, StoreTypes
<1>14. ASSUME NEW t \in Token, Elapse(t)
     PROVE  StoreTypes'
  <2>1. age[t] \in 0..Checkpoints /\ age[t] < Checkpoints
    BY <1>14, <1>types DEF Elapse, StoreTypes, Age
  <2>2. age[t] + 1 \in Age
    BY <2>1, CheckpointsAssumption DEF Age
  <2>3. QED
    BY <1>14, <1>types, <2>2 DEF Elapse, StoreTypes
<1>15. QED
  BY <1>1, <1>2, <1>3, <1>4, <1>5, <1>6, <1>7, <1>8, <1>9, <1>10, <1>11, <1>12, <1>13, <1>14,
     <1>types
  DEF Next, Cycle, Collect, Recover, Promote, Operate, Owner, BeginCycle, TakeLock, RecoverNext,
     RecoveryEnds, ReadStores, PlanFollowUp, FollowUpEnds, PlanMain, EndCycle, AppendAudit,
     AdvanceJournal, Fail, FindsLocked, Throws, Crash, OwnerLeavesLock, Ends, OwnerActs, vars, StoreTypes

(* So does the journal with its audit.                                     *)
LEMMA RecordStep ==
    ASSUME Types, [Next]_vars
    PROVE  RecordTypes'
PROOF
<1> USE DEF storeVars, recordVars, lockVars, readVars, recheckVars, countVars, runVars
<1>types. RecordTypes /\ RunTypes
  BY DEF Types
<1>tokens. todo \subseteq Token \/ place = "recovering"
  BY <1>types DEF RunTypes
<1>1. ASSUME PlanFollowUp
     PROVE  RecordTypes'
  <2>1. CASE UNCHANGED journal
    BY <1>1, <1>types, <2>1 DEF PlanFollowUp, RecordTypes
  <2>2. CASE \E t \in Token : Plan(t, "FOLLOW_UP")
    BY <1>1, <1>types, <2>2, PlanLemma DEF PlanFollowUp, RecordTypes, Target
  <2>3. QED
    BY <1>1, <1>tokens, <2>1, <2>2 DEF PlanFollowUp
<1>2. ASSUME PlanMain
     PROVE  RecordTypes'
  <2>1. PICK t \in Token : Plan(t, "MAIN_RADAR")
    BY <1>2, <1>tokens DEF PlanMain
  <2>2. QED
    BY <1>2, <1>types, <2>1, PlanLemma DEF PlanMain, RecordTypes, Target
<1>3. ASSUME AppendAudit
     PROVE  RecordTypes'
  BY <1>3, <1>types DEF AppendAudit, RecordTypes
<1>4. ASSUME AdvanceJournal
     PROVE  RecordTypes'
  <2>1. journal[doing.op] \in Operation /\ doing.stage \in Stage
    BY <1>4, <1>types DEF AdvanceJournal, RunTypes, RecordTypes
  <2>2. [journal[doing.op] EXCEPT !.stage = doing.stage] \in Operation
    BY <2>1 DEF Operation
  <2>3. journal' \in [Op -> Operation \cup {Absent}]
    BY <1>4, <1>types, <2>2 DEF AdvanceJournal, RecordTypes
  <2>4. QED
    BY <1>4, <1>types, <2>3 DEF AdvanceJournal, RecordTypes
<1>5. QED
  BY <1>1, <1>2, <1>3, <1>4, <1>types
  DEF Next, Cycle, Collect, Recover, Promote, Operate, Owner, BeginCycle, Recheck, TakeLock,
     RecoverNext, RecoveryEnds, ReadStores, SortInbox, FollowUpEnds, EndCycle, ApplyFollowUp,
     ApplyMain, SyncFollowUp, SetInbox, Fail, FindsLocked, Throws, Crash, OwnerLeavesLock, OwnerSyncs, OwnerBootstraps,
     OwnerIngests, OwnerVerifies, OwnerAdds, OwnerDemotes, OwnerEnables, Elapse, Ends, OwnerActs,
     vars, RecordTypes

(* The cycle and the operation in hand keep theirs.                        *)
LEMMA RunStep ==
    ASSUME Types, TodoInv, HandInv, [Next]_vars
    PROVE  RunTypes'
PROOF
<1> USE DEF storeVars, recordVars, lockVars, readVars, recheckVars, countVars, runVars
<1>types. RecordTypes /\ RunTypes /\ ReadTypes
  BY DEF Types
<1>absent. Absent \notin Operation
  BY LifecycleAssumption
<1>hand. doing.op # NoOp => Current \in Operation
  BY <1>types DEF RunTypes, RecordTypes, Current
<1>none. Nothing \in [op: Op \cup {NoOp}, stage: Stage, written: BOOLEAN] /\ Nothing.op = NoOp
  BY DEF Nothing, Stage, Stages
<1>stage. Stage = {"PLAN_CREATED", "TARGET_STORE_APPLIED", "FOLLOW_UP_SYNCED", "NEW_INBOX_APPLIED",
                   "AUDIT_APPLIED", "COMMITTED"}
  BY DEF Stage, Stages
<1>tokens. place # "recovering" => todo \subseteq Token
  BY <1>types DEF RunTypes
<1>op. NoOp \notin Op
  BY DEF Op, NoOp
<1>1. ASSUME BeginCycle
     PROVE  RunTypes'
  BY <1>1, <1>types, <1>none DEF BeginCycle, RunTypes, ReadTypes
<1>2. ASSUME Recheck
     PROVE  RunTypes'
  BY <1>2, <1>types, <1>none DEF Recheck, RunTypes, ReadTypes
<1>3. ASSUME TakeLock
     PROVE  RunTypes'
  BY <1>3, <1>types, <1>none DEF TakeLock, Ends, RunTypes, ReadTypes, Locked
<1>4. ASSUME RecoverNext
     PROVE  RunTypes'
  <2>1. PICK o \in todo : todo' = todo \ {o} /\ doing' = Recovery(o)
    BY <1>4 DEF RecoverNext
  <2>2. o \in Op
    BY <1>4, <1>types, <2>1 DEF RecoverNext, RunTypes
  <2>3. Recovery(o) \in [op: Op \cup {NoOp}, stage: Stage, written: BOOLEAN]
    BY <1>none, <1>stage, <2>2 DEF Recovery
  <2>4. doing'.op # NoOp => journal'[doing'.op] # Absent
    BY <1>4, <1>none, <2>1 DEF RecoverNext, Recovery, TodoInv
  <2>5. QED
    BY <1>4, <1>types, <2>1, <2>3, <2>4 DEF RecoverNext, RunTypes
<1>5. ASSUME RecoveryEnds
     PROVE  RunTypes'
  BY <1>5, <1>types, <1>none DEF RecoveryEnds, Ends, RunTypes, ReadTypes, Locked
<1>6. ASSUME ReadStores
     PROVE  RunTypes'
  BY <1>6, <1>types, <1>none DEF ReadStores, Ends, RunTypes, ReadTypes, Locked
<1>7. ASSUME SortInbox
     PROVE  RunTypes'
  BY <1>7, <1>types, <1>none DEF SortInbox, Ends, RunTypes, ReadTypes, Locked
<1>8. ASSUME PlanFollowUp
     PROVE  RunTypes'
  <2>1. CASE UNCHANGED <<journal, doing>>
    BY <1>8, <2>1, <1>types DEF PlanFollowUp, RunTypes
  <2>2. CASE \E t \in Token : Plan(t, "FOLLOW_UP")
    <3>1. PICK o \in Op : /\ journal'[o] # Absent
                        /\ doing' = [op |-> o, stage |-> "TARGET_STORE_APPLIED", written |-> FALSE]
      BY <2>2, <1>types, <1>absent, PlanLemma DEF Target
    <3>2. doing' \in [op: Op \cup {NoOp}, stage: Stage, written: BOOLEAN] /\ doing'.op = o
      BY <1>stage, <3>1
    <3>3. QED
      BY <1>8, <1>types, <3>1, <3>2 DEF PlanFollowUp, RunTypes
  <2>3. QED
    BY <1>8, <1>tokens, <2>1, <2>2 DEF PlanFollowUp
<1>9. ASSUME FollowUpEnds
     PROVE  RunTypes'
  BY <1>9, <1>types, <1>none DEF FollowUpEnds, Ends, RunTypes, ReadTypes, Locked
<1>10. ASSUME PlanMain
     PROVE  RunTypes'
  <2>1. PICK t \in Token : Plan(t, "MAIN_RADAR")
    BY <1>10, <1>tokens DEF PlanMain
  <2>2. PICK o \in Op : /\ journal'[o] # Absent
                      /\ doing' = [op |-> o, stage |-> "TARGET_STORE_APPLIED", written |-> FALSE]
    BY <2>1, <1>types, <1>absent, PlanLemma DEF Target
  <2>3. doing' \in [op: Op \cup {NoOp}, stage: Stage, written: BOOLEAN] /\ doing'.op = o
    BY <1>stage, <2>2
  <2>4. QED
    BY <1>10, <1>types, <2>2, <2>3 DEF PlanMain, RunTypes
<1>11. ASSUME EndCycle
     PROVE  RunTypes'
  BY <1>11, <1>types, <1>none DEF EndCycle, Ends, RunTypes, ReadTypes
<1>12. ASSUME ApplyFollowUp
     PROVE  RunTypes'
  BY <1>12, <1>types DEF ApplyFollowUp, Written, RunTypes
<1>13. ASSUME ApplyMain
     PROVE  RunTypes'
  BY <1>13, <1>types, <1>none DEF ApplyMain, Ends, Written, RunTypes
<1>14. ASSUME SyncFollowUp
     PROVE  RunTypes'
  BY <1>14, <1>types DEF SyncFollowUp, Written, RunTypes
<1>15. ASSUME SetInbox
     PROVE  RunTypes'
  BY <1>15, <1>types DEF SetInbox, Written, RunTypes
<1>16. ASSUME AppendAudit
     PROVE  RunTypes'
  BY <1>16, <1>types DEF AppendAudit, Written, RunTypes
<1>17. ASSUME AdvanceJournal
     PROVE  RunTypes'
  <2>1. journal[doing.op] \in Operation /\ doing.stage \in Stage \ {"PLAN_CREATED"} /\ doing.op \in Op
    BY <1>17, <1>types DEF AdvanceJournal, RunTypes, RecordTypes, HandInv
  <2>2. journal'[doing.op] # Absent
    <3>1. [journal[doing.op] EXCEPT !.stage = doing.stage] \in Operation
      BY <2>1 DEF Operation
    <3>2. QED
      BY <1>17, <1>types, <1>absent, <2>1, <3>1 DEF AdvanceJournal, RecordTypes
  <2>3. doing.stage # "COMMITTED" => Following(Current.target, doing.stage) \in Stage
    BY <1>stage, <2>1 DEF Following, Current, Operation, Target
  <2>4. doing' \in [op: Op \cup {NoOp}, stage: Stage, written: BOOLEAN] /\ doing'.op \in {doing.op, NoOp}
    BY <1>17, <1>types, <1>none, <2>3 DEF AdvanceJournal, RunTypes
  <2>5. QED
    BY <1>17, <1>types, <2>2, <2>4 DEF AdvanceJournal, RunTypes
<1>18. ASSUME Throws
     PROVE  RunTypes'
  BY <1>18, <1>types, <1>none DEF Throws, Ends, RunTypes, ReadTypes, Locked
<1>19. ASSUME Crash
     PROVE  RunTypes'
  BY <1>19, <1>types, <1>none DEF Crash, Ends, RunTypes, ReadTypes
<1>20. ASSUME OwnerLeavesLock
     PROVE  RunTypes'
  BY <1>20, <1>types DEF OwnerLeavesLock, RunTypes
<1>21. QED
  BY <1>1, <1>2, <1>3, <1>4, <1>5, <1>6, <1>7, <1>8, <1>9, <1>10, <1>11, <1>12, <1>13, <1>14,
     <1>15, <1>16,
     <1>17, <1>18, <1>19, <1>20, <1>types
  DEF Next, Cycle, Fail, FindsLocked, Collect, Recover, Promote, Operate, Owner, OwnerSyncs, OwnerBootstraps,
     OwnerIngests, OwnerVerifies, OwnerAdds, OwnerDemotes, OwnerEnables, Elapse, Ends, OwnerActs,
     vars, RunTypes

(* What has been read, and is to be rechecked, keeps its type.             *)
LEMMA ReadStep ==
    ASSUME Types, [Next]_vars
    PROVE  ReadTypes'
PROOF
<1> USE DEF storeVars, recordVars, lockVars, readVars, recheckVars, countVars, runVars
<1>types. StoreTypes /\ RunTypes /\ RecordTypes /\ ReadTypes
  BY DEF Types
<1>enabled. EnabledTokens \subseteq Token
  BY DEF EnabledTokens
<1>none. [t \in Token |-> Absent] \in [Token -> Entry \cup {Absent}]
  OBVIOUS
<1>stores. StoreTypes'
  BY StoreStep
<1>hand. doing.op # NoOp => Current \in Operation
  BY <1>types DEF RunTypes, RecordTypes, Current
<1>1. ASSUME BeginCycle
     PROVE  ReadTypes'
  BY <1>1, <1>types, <1>enabled, <1>none DEF BeginCycle, ReadTypes, StoreTypes
<1>2. ASSUME Recheck
     PROVE  ReadTypes'
  BY <1>2, <1>types, <1>enabled, <1>none DEF Recheck, ReadTypes, StoreTypes
<1>3. ASSUME TakeLock
     PROVE  ReadTypes'
  BY <1>3, <1>types, <1>enabled, <1>none DEF TakeLock, Ends, ReadTypes, StoreTypes
<1>4. ASSUME RecoverNext
     PROVE  ReadTypes'
  BY <1>4, <1>types, <1>enabled, <1>none DEF RecoverNext, ReadTypes, StoreTypes
<1>5. ASSUME ReadStores
     PROVE  ReadTypes'
  BY <1>5, <1>types, <1>enabled, <1>none DEF ReadStores, ReadTypes, StoreTypes
<1>6. ASSUME EndCycle
     PROVE  ReadTypes'
  BY <1>6, <1>types, <1>enabled, <1>none DEF EndCycle, Ends, ReadTypes, StoreTypes
<1>7. ASSUME ApplyFollowUp
     PROVE  ReadTypes'
  BY <1>7, <1>types, <1>stores DEF ApplyFollowUp, ReadTypes, StoreTypes
<1>8. ASSUME ApplyMain
     PROVE  ReadTypes'
  BY <1>8, <1>types, <1>enabled, <1>none DEF ApplyMain, Ends, ReadTypes, StoreTypes
<1>9. ASSUME SyncFollowUp
     PROVE  ReadTypes'
  BY <1>9, <1>types, <1>stores DEF SyncFollowUp, ReadTypes, StoreTypes
<1>10. ASSUME AdvanceJournal
     PROVE  ReadTypes'
  <2>1. doing.op # NoOp => Current.token \in Token
    BY <1>hand DEF Operation
  <2>2. QED
    BY <1>10, <1>types, <1>enabled, <2>1 DEF AdvanceJournal, ReadTypes
<1>11. ASSUME Throws
     PROVE  ReadTypes'
  BY <1>11, <1>types, <1>enabled, <1>none DEF Throws, Ends, ReadTypes, StoreTypes
<1>12. ASSUME Crash
     PROVE  ReadTypes'
  BY <1>12, <1>types, <1>enabled, <1>none DEF Crash, Ends, ReadTypes, StoreTypes
<1>13. ASSUME OwnerSyncs
     PROVE  ReadTypes'
  BY <1>13, <1>types DEF OwnerSyncs, ReadTypes
<1>14. ASSUME NEW t \in Token, OwnerAdds(t)
     PROVE  ReadTypes'
  BY <1>14, <1>types, <1>enabled DEF OwnerAdds, OwnerActs, ReadTypes
<1>15. QED
  BY <1>1, <1>2, <1>3, <1>4, <1>5, <1>6, <1>7, <1>8, <1>9, <1>10, <1>11, <1>12, <1>13, <1>14,
     <1>types
  DEF Next, Cycle, Fail, FindsLocked, Collect, Recover, Promote, Operate, Owner, RecoveryEnds, SortInbox,
     PlanFollowUp, FollowUpEnds, PlanMain, SetInbox, AppendAudit, OwnerLeavesLock, OwnerBootstraps,
     OwnerIngests, OwnerVerifies, OwnerDemotes, OwnerEnables, Elapse, Ends, OwnerActs, vars,
     ReadTypes

(* The counters stay in their bounds.                                      *)
LEMMA CountStep ==
    ASSUME Types, HandInv, [Next]_vars
    PROVE  CountTypes'
PROOF
<1> USE DEF storeVars, recordVars, lockVars, readVars, recheckVars, countVars, runVars
<1>types. /\ acts \in 0..MaxOwnerActs /\ faults \in 0..MaxFaults /\ left \subseteq Store
          /\ MaxOwnerActs \in Nat /\ MaxFaults \in Nat
  BY LifecycleAssumption DEF Types, CountTypes
<1>saves. \A store \in Store :
             Saves(store) \/ LeavesLock(store) => faults' \in 0..MaxFaults /\ left' \subseteq Store
  BY <1>types DEF Saves, LeavesLock
<1>stores. {"inbox", "followUp", "universe", "journal", "audit"} \subseteq Store
  BY DEF Store
<1>hand. doing.op # NoOp => Current \in Operation /\ doing.stage \in Stage
  BY DEF Types, RunTypes, RecordTypes, Current
<1>inHand. InHand \subseteq Store
  <2>1. doing.op # NoOp => StoreOf(doing.stage, Current.target) \in Store
    BY <1>hand DEF HandInv, StoreOf, Store, Stage, Stages
  <2>2. Wanted \subseteq Store
    BY <1>stores, <2>1 DEF Wanted
  <2> QED
    BY <2>1, <2>2 DEF InHand, Moves
<1>1. ASSUME Recheck
     PROVE  CountTypes'
  BY <1>1, <1>types DEF Recheck, CountTypes
<1>2. ASSUME Fail \/ Crash
     PROVE  CountTypes'
  <2>1. /\ acts' = acts /\ faults < MaxFaults /\ faults' = faults + 1
        /\ left' = left \/ \E store \in InHand : left' = left \cup {store}
    BY <1>2 DEF Fail, Throws, Crash
  <2>2. left' \subseteq Store
    BY <1>types, <1>inHand, <2>1
  <2> QED
    BY <1>types, <2>1, <2>2 DEF CountTypes
<1>3. ASSUME OwnerLeavesLock \/ OwnerSyncs
     PROVE  CountTypes'
  BY <1>3, <1>types, <1>saves, <1>stores DEF OwnerLeavesLock, OwnerSyncs, CountTypes
<1>4. ASSUME SortInbox \/ SetInbox \/ AppendAudit \/ AdvanceJournal
     PROVE  CountTypes'
  BY <1>4, <1>types, <1>saves, <1>stores DEF SortInbox, SetInbox, AppendAudit, AdvanceJournal,
     CountTypes
<1>5. ASSUME PlanFollowUp \/ PlanMain
     PROVE  CountTypes'
  BY <1>5, <1>types, <1>saves, <1>stores DEF PlanFollowUp, PlanMain, Plan, CountTypes
<1>6. ASSUME OwnerBootstraps
     PROVE  CountTypes'
  BY <1>6, <1>types DEF OwnerBootstraps, OwnerActs, CountTypes
<1>7. ASSUME NEW t \in Token, OwnerIngests(t) \/ OwnerVerifies(t) \/ OwnerAdds(t)
                              \/ OwnerDemotes(t) \/ OwnerEnables(t)
     PROVE  CountTypes'
  <2>1. OwnerActs
    BY <1>7 DEF OwnerIngests, OwnerVerifies, OwnerAdds, OwnerDemotes, OwnerEnables
  <2> QED
    BY <1>types, <2>1 DEF OwnerActs, CountTypes
<1>8. QED
  BY <1>1, <1>2, <1>3, <1>4, <1>5, <1>6, <1>7, <1>types
  DEF Next, Cycle, Collect, Recover, Promote, Operate, Owner, BeginCycle, TakeLock, RecoverNext,
     RecoveryEnds, ReadStores, FollowUpEnds, EndCycle, ApplyFollowUp, ApplyMain, SyncFollowUp,
     FindsLocked, Throws, Elapse, Ends, vars, CountTypes

(* Entries stay in the basket, and only the owner takes a row away.        *)
LEMMA KeepStep ==
    ASSUME Types, [Next]_vars
    PROVE  \A t \in Token : (InBasket(t) => InBasket(t)') /\ (Settled(t) => Settled(t)')
PROOF
<1> USE DEF storeVars, recordVars, lockVars, readVars, recheckVars, countVars, runVars
<1>types. StoreTypes /\ RunTypes /\ RecordTypes /\ ReadTypes
  BY DEF Types
<1> USE LifecycleAssumption DEF InBasket, Enabled, Settled
<1>1. ASSUME Recheck
     PROVE  \A t \in Token : (InBasket(t) => InBasket(t)') /\ (Settled(t) => Settled(t)')
  BY <1>1, <1>types, RecheckLemma DEF Recheck
<1>2. ASSUME ApplyFollowUp
     PROVE  \A t \in Token : (InBasket(t) => InBasket(t)') /\ (Settled(t) => Settled(t)')
  BY <1>2, ApplyLemma DEF ApplyFollowUp
<1>3. ASSUME ApplyMain
     PROVE  \A t \in Token : (InBasket(t) => InBasket(t)') /\ (Settled(t) => Settled(t)')
  BY <1>3, <1>types DEF ApplyMain, StoreTypes
<1>4. ASSUME SyncFollowUp
     PROVE  \A t \in Token : (InBasket(t) => InBasket(t)') /\ (Settled(t) => Settled(t)')
  <2>1. followUp' = SyncedBasket(universe)
    BY <1>4 DEF SyncFollowUp, SyncedBasket
  <2>2. QED
    BY <1>4, <1>types, <2>1, SyncLemma DEF SyncFollowUp
<1>5. ASSUME OwnerSyncs
     PROVE  \A t \in Token : (InBasket(t) => InBasket(t)') /\ (Settled(t) => Settled(t)')
  <2>1. followUp' = followUp \/ \E u : followUp' = SyncedBasket(u)
    BY <1>5 DEF OwnerSyncs, SyncedBasket
  <2>2. QED
    BY <1>5, <1>types, <2>1, SyncLemma DEF OwnerSyncs
<1>6. ASSUME NEW t \in Token, OwnerIngests(t)
     PROVE  \A u \in Token : (InBasket(u) => InBasket(u)') /\ (Settled(u) => Settled(u)')
  BY <1>6, <1>types DEF OwnerIngests, OwnerActs, StoreTypes
<1>7. ASSUME NEW t \in Token, OwnerVerifies(t)
     PROVE  \A u \in Token : (InBasket(u) => InBasket(u)') /\ (Settled(u) => Settled(u)')
  <2>1. followUp[t] \in Entry
    BY <1>7, <1>types DEF OwnerVerifies, StoreTypes
  <2>2. \A verified \in BOOLEAN : [followUp[t] EXCEPT !.secure = verified] \in Entry
    BY <2>1 DEF Entry
  <2>3. QED
    BY <1>7, <1>types, <2>2 DEF OwnerVerifies, OwnerActs, StoreTypes
<1>8. ASSUME NEW t \in Token, OwnerAdds(t)
     PROVE  \A u \in Token : (InBasket(u) => InBasket(u)') /\ (Settled(u) => Settled(u)')
  BY <1>8, <1>types DEF OwnerAdds, OwnerActs, StoreTypes
<1>9. ASSUME NEW t \in Token, OwnerDemotes(t)
     PROVE  \A u \in Token : (InBasket(u) => InBasket(u)') /\ (Settled(u) => Settled(u)')
  BY <1>9, <1>types DEF OwnerDemotes, OwnerActs, StoreTypes
<1>10. ASSUME NEW t \in Token, OwnerEnables(t)
     PROVE  \A u \in Token : (InBasket(u) => InBasket(u)') /\ (Settled(u) => Settled(u)')
  BY <1>10, <1>types DEF OwnerEnables, OwnerActs, StoreTypes
<1>11. QED
  BY <1>1, <1>2, <1>3, <1>4, <1>5, <1>6, <1>7, <1>8, <1>9, <1>10, <1>types
  DEF Next, Cycle, Collect, Recover, Promote, Operate, Owner, BeginCycle, TakeLock, RecoverNext,
     RecoveryEnds, ReadStores, SortInbox, PlanFollowUp, FollowUpEnds, PlanMain, EndCycle,
     SetInbox, AppendAudit, AdvanceJournal, Fail, FindsLocked, Throws, Crash, OwnerLeavesLock, OwnerBootstraps, Elapse,
     Ends, OwnerActs, vars, InBasket, Enabled, Settled

(* What has been read stays in the stores.                                 *)
LEMMA ReadInvStep ==
    ASSUME Types, ReadInv, HandInv, [Next]_vars
    PROVE  ReadInv'
PROOF
<1> USE DEF storeVars, recordVars, lockVars, readVars, recheckVars, countVars, runVars
<1>types. StoreTypes /\ RunTypes /\ RecordTypes /\ ReadTypes
  BY DEF Types
<1>keep. \A t \in Token : (InBasket(t) => InBasket(t)') /\ (Settled(t) => Settled(t)')
  BY KeepStep
<1> USE DEF ReadInv
<1>1. ASSUME TakeLock
     PROVE  ReadInv'
  BY <1>1, <1>types, <1>keep DEF TakeLock, Ends, Settled, ReadTypes
<1>2. ASSUME ReadStores
     PROVE  ReadInv'
  BY <1>2, <1>types, <1>keep DEF ReadStores, Ends, EnabledTokens, InBasket, Settled, ReadTypes
<1>3. ASSUME EndCycle
     PROVE  ReadInv'
  BY <1>3, <1>types, <1>keep DEF EndCycle, Ends, Settled, ReadTypes
<1>4. ASSUME ApplyFollowUp
     PROVE  ReadInv'
  BY <1>4, <1>types, <1>keep DEF ApplyFollowUp, InBasket, Settled, ReadTypes
<1>5. ASSUME ApplyMain
     PROVE  ReadInv'
  BY <1>5, <1>types, <1>keep DEF ApplyMain, Ends, Settled, ReadTypes
<1>6. ASSUME SyncFollowUp
     PROVE  ReadInv'
  BY <1>6, <1>types, <1>keep DEF SyncFollowUp, InBasket, Settled, ReadTypes
<1>7. ASSUME AdvanceJournal
     PROVE  ReadInv'
  <2>1. doing.stage = "COMMITTED" /\ place = "main" => Settled(Current.token)
    BY <1>7 DEF AdvanceJournal, HandInv, Past, Reached, Current
  <2>2. QED
    BY <1>7, <1>types, <1>keep, <2>1 DEF AdvanceJournal, RunTypes, RecordTypes, Current, Operation, ReadTypes
<1>8. ASSUME Throws
     PROVE  ReadInv'
  BY <1>8, <1>types, <1>keep DEF Throws, Ends, Settled, ReadTypes
<1>9. ASSUME Crash
     PROVE  ReadInv'
  BY <1>9, <1>types, <1>keep DEF Crash, Ends, Settled, ReadTypes
<1>10. QED
  BY <1>1, <1>2, <1>3, <1>4, <1>5, <1>6, <1>7, <1>8, <1>9, <1>types, <1>keep
  DEF Next, Cycle, Fail, FindsLocked, Collect, Recover, Promote, Operate, Owner, BeginCycle, Recheck, RecoverNext,
     RecoveryEnds, SortInbox, PlanFollowUp, FollowUpEnds, PlanMain, SetInbox, AppendAudit,
     OwnerLeavesLock, OwnerSyncs, OwnerBootstraps, OwnerIngests, OwnerVerifies, OwnerAdds,
     OwnerDemotes, OwnerEnables, Elapse, Ends, OwnerActs, vars, ReadTypes

(* What is to be recovered stays in the journal.                           *)
LEMMA TodoStep ==
    ASSUME Types, TodoInv, HandInv, [Next]_vars
    PROVE  TodoInv'
PROOF
<1> USE DEF storeVars, recordVars, lockVars, readVars, recheckVars, countVars, runVars
<1>types. RunTypes /\ RecordTypes
  BY DEF Types
<1> USE DEF TodoInv
<1>1. ASSUME BeginCycle
     PROVE  TodoInv'
  BY <1>1, <1>types DEF BeginCycle, RunTypes
<1>2. ASSUME Recheck
     PROVE  TodoInv'
  BY <1>2, <1>types DEF Recheck, RunTypes
<1>3. ASSUME TakeLock
     PROVE  TodoInv'
  BY <1>3, <1>types DEF TakeLock, Ends, Open, RunTypes
<1>4. ASSUME RecoverNext
     PROVE  TodoInv'
  BY <1>4, <1>types DEF RecoverNext, RunTypes
<1>5. ASSUME RecoveryEnds
     PROVE  TodoInv'
  BY <1>5, <1>types DEF RecoveryEnds, RunTypes
<1>6. ASSUME ReadStores
     PROVE  TodoInv'
  BY <1>6, <1>types DEF ReadStores, RunTypes
<1>7. ASSUME SortInbox
     PROVE  TodoInv'
  BY <1>7, <1>types DEF SortInbox, RunTypes
<1>8. ASSUME PlanFollowUp
     PROVE  TodoInv'
  BY <1>8 DEF PlanFollowUp
<1>9. ASSUME FollowUpEnds
     PROVE  TodoInv'
  BY <1>9, <1>types DEF FollowUpEnds, RunTypes
<1>10. ASSUME PlanMain
     PROVE  TodoInv'
  BY <1>10 DEF PlanMain
<1>11. ASSUME EndCycle
     PROVE  TodoInv'
  BY <1>11, <1>types DEF EndCycle, Ends, RunTypes
<1>12. ASSUME ApplyMain
     PROVE  TodoInv'
  BY <1>12, <1>types DEF ApplyMain, Ends, RunTypes
<1>13. ASSUME AdvanceJournal
     PROVE  TodoInv'
  <2>1. doing.op \in Op /\ journal[doing.op] \in Operation
    BY <1>13, <1>types DEF AdvanceJournal, RunTypes, RecordTypes
  <2>2. [journal[doing.op] EXCEPT !.stage = doing.stage] # Absent
    BY <2>1, <1>types, LifecycleAssumption DEF RunTypes, Operation
  <2>3. \A o \in Op : journal[o] # Absent => journal'[o] # Absent
    BY <1>13, <1>types, <2>1, <2>2 DEF AdvanceJournal, RecordTypes
  <2>4. QED
    BY <1>13, <1>types, <2>3 DEF AdvanceJournal, RunTypes
<1>14. ASSUME Throws
     PROVE  TodoInv'
  BY <1>14, <1>types DEF Throws, Ends, RunTypes
<1>15. ASSUME Crash
     PROVE  TodoInv'
  BY <1>15, <1>types DEF Crash, Ends, RunTypes
<1>16. QED
  BY <1>1, <1>2, <1>3, <1>4, <1>5, <1>6, <1>7, <1>8, <1>9, <1>10, <1>11, <1>12, <1>13, <1>14,
     <1>15
  DEF Next, Cycle, Fail, FindsLocked, Collect, Recover, Promote, Operate, Owner, ApplyFollowUp, SyncFollowUp,
     SetInbox, AppendAudit, OwnerLeavesLock, OwnerSyncs, OwnerBootstraps, OwnerIngests, OwnerVerifies,
     OwnerAdds, OwnerDemotes, OwnerEnables, Elapse, Ends, OwnerActs, vars

(* A stage behind the target store is reached with the target.             *)
LEMMA HandStep ==
    ASSUME Types, ReadInv, HandInv, [Next]_vars
    PROVE  HandInv'
PROOF
<1> USE DEF storeVars, recordVars, lockVars, readVars, recheckVars, countVars, runVars
<1>types. StoreTypes /\ RunTypes /\ RecordTypes /\ ReadTypes
  BY DEF Types
<1>keep. \A t \in Token : (InBasket(t) => InBasket(t)') /\ (Settled(t) => Settled(t)')
  BY KeepStep
<1>reached. \A o \in Op : journal[o] # Absent /\ journal'[o] = journal[o] /\ Reached(o) => Reached(o)'
  BY <1>types, <1>keep DEF Reached, Settled, RecordTypes, Operation, Target
<1>still. UNCHANGED <<doing, place, journal>> => HandInv'
  BY <1>types, <1>reached DEF HandInv, Past, RunTypes
<1> USE DEF HandInv
<1>1. ASSUME BeginCycle
     PROVE  HandInv'
  BY <1>1, <1>types, <1>reached DEF BeginCycle, RunTypes
<1>2. ASSUME Recheck
     PROVE  HandInv'
  BY <1>2, <1>types, <1>reached DEF Recheck, RunTypes
<1>3. ASSUME TakeLock
     PROVE  HandInv'
  BY <1>3, <1>types, <1>reached DEF TakeLock, Ends, Nothing, RunTypes
<1>4. ASSUME RecoverNext
     PROVE  HandInv'
  <2>1. PICK o \in todo : doing' = Recovery(o)
    BY <1>4 DEF RecoverNext
  <2>2. o \in Op
    BY <1>4, <1>types, <2>1 DEF RecoverNext, RunTypes
  <2>3. Present(o) => Reached(o)'
    BY <1>4, <1>reached, <1>types, <1>keep, <2>2 DEF Present, Reached, Settled, RecoverNext, InBasket, Enabled
  <2>4. QED
    BY <1>4, <2>1, <2>3 DEF RecoverNext, Recovery, Nothing, Past
<1>5. ASSUME RecoveryEnds
     PROVE  HandInv'
  BY <1>5, <1>types, <1>reached DEF RecoveryEnds, Nothing, RunTypes
<1>6. ASSUME ReadStores
     PROVE  HandInv'
  BY <1>6, <1>types, <1>reached DEF ReadStores, RunTypes
<1>7. ASSUME SortInbox
     PROVE  HandInv'
  BY <1>7, <1>types, <1>reached DEF SortInbox, RunTypes
<1>8. ASSUME PlanFollowUp
     PROVE  HandInv'
  <2>1. CASE UNCHANGED <<journal, doing>>
    BY <1>8, <2>1 DEF PlanFollowUp, Nothing
  <2>2. CASE \E t \in Token : Plan(t, "FOLLOW_UP")
    <3>1. PICK o \in Op : doing' = [op |-> o, stage |-> "TARGET_STORE_APPLIED", written |-> FALSE]
      BY <2>2, <1>types, PlanLemma DEF Target
    <3>2. QED
      BY <1>8, <3>1 DEF PlanFollowUp, Past
  <2>3. QED
    BY <1>8, <1>types, <2>1, <2>2 DEF PlanFollowUp, RunTypes
<1>9. ASSUME FollowUpEnds
     PROVE  HandInv'
  BY <1>9, <1>types, <1>reached DEF FollowUpEnds, Nothing, RunTypes
<1>10. ASSUME PlanMain
     PROVE  HandInv'
  <2>1. PICK t \in Token : Plan(t, "MAIN_RADAR")
    BY <1>10, <1>types DEF PlanMain, RunTypes
  <2>2. PICK o \in Op : /\ journal'[o].target = "MAIN_RADAR"
                      /\ doing' = [op |-> o, stage |-> "TARGET_STORE_APPLIED", written |-> FALSE]
    BY <2>1, <1>types, PlanLemma DEF Target
  <2>3. QED
    BY <1>10, <2>2 DEF PlanMain, Past
<1>11. ASSUME EndCycle
     PROVE  HandInv'
  BY <1>11, <1>types, <1>reached DEF EndCycle, Ends, Nothing, RunTypes
<1>12. ASSUME ApplyFollowUp
     PROVE  HandInv'
  <2>1. doing'.op = doing.op /\ doing'.stage = doing.stage /\ UNCHANGED <<journal, place>>
    BY <1>12, <1>types DEF ApplyFollowUp, Written, RunTypes
  <2>2. Reached(doing.op)'
    BY <1>12, <2>1, ApplyLemma DEF ApplyFollowUp, Reached, InBasket, Current
  <2>3. QED
    BY <1>12, <2>1, <2>2 DEF ApplyFollowUp, Writes
<1>13. ASSUME ApplyMain
     PROVE  HandInv'
  <2>1. CASE Ends
    BY <2>1 DEF Ends, Nothing
  <2>2. CASE ~Ends
    <3>1. doing'.op = doing.op /\ doing'.stage = doing.stage /\ UNCHANGED <<journal, place, demoted>>
      BY <1>13, <2>2, <1>types DEF ApplyMain, Written, RunTypes
    <3>2. Current.token \in Token
      BY <1>13, <1>types DEF ApplyMain, Writes, RunTypes, RecordTypes, Operation, Current
    <3>3. row'[Current.token] # Absent /\ row'[Current.token].enabled
      <4>1. [by |-> "system", enabled |-> TRUE] # Absent
        <5>1. [by |-> "system", enabled |-> TRUE] \in Row
          BY DEF Row
        <5>2. QED
          BY <5>1, LifecycleAssumption
      <4>2. CASE row' = [row EXCEPT ![Current.token] = [by |-> "system", enabled |-> TRUE]]
        BY <1>types, <3>2, <4>1, <4>2 DEF StoreTypes
      <4>3. CASE Enabled(Current.token) /\ UNCHANGED row
        BY <4>3 DEF Enabled
      <4>4. QED
        BY <1>13, <2>2, <4>2, <4>3 DEF ApplyMain
    <3>4. QED
      BY <1>13, <3>1, <3>3 DEF ApplyMain, Writes, Reached, Settled, Enabled, Current
  <2>3. QED
    BY <2>1, <2>2
<1>14. ASSUME SyncFollowUp
     PROVE  HandInv'
  <2>1. doing'.op = doing.op /\ doing'.stage = doing.stage /\ UNCHANGED <<journal, place>>
    BY <1>14, <1>types DEF SyncFollowUp, Written, RunTypes
  <2>2. doing.op \in Op /\ journal[doing.op] # Absent /\ Past
    BY <1>14, <1>types DEF SyncFollowUp, Writes, RunTypes, Past
  <2>3. QED
    BY <1>14, <1>reached, <2>1, <2>2
<1>15. ASSUME SetInbox
     PROVE  HandInv'
  <2>1. doing'.op = doing.op /\ doing'.stage = doing.stage /\ UNCHANGED <<journal, place>>
    BY <1>15, <1>types DEF SetInbox, Written, RunTypes
  <2>2. doing.op \in Op /\ journal[doing.op] # Absent /\ Past
    BY <1>15, <1>types DEF SetInbox, Writes, RunTypes, Past
  <2>3. QED
    BY <1>15, <1>reached, <2>1, <2>2
<1>16. ASSUME AppendAudit
     PROVE  HandInv'
  <2>1. doing'.op = doing.op /\ doing'.stage = doing.stage /\ UNCHANGED <<journal, place>>
    BY <1>16, <1>types DEF AppendAudit, Written, RunTypes
  <2>2. doing.op \in Op /\ journal[doing.op] # Absent /\ Past
    BY <1>16, <1>types DEF AppendAudit, Writes, RunTypes, Past
  <2>3. QED
    BY <1>16, <1>reached, <2>1, <2>2
<1>17. ASSUME AdvanceJournal
     PROVE  HandInv'
  <2>1. doing.op \in Op /\ journal[doing.op] \in Operation /\ doing.op # NoOp
    BY <1>17, <1>types DEF AdvanceJournal, RunTypes, RecordTypes
  <2>2. CASE doing.stage = "COMMITTED"
    BY <1>17, <2>2 DEF AdvanceJournal, Nothing
  <2>3. CASE doing.stage # "COMMITTED"
    <3>1. Reached(doing.op)
      BY <1>17, <1>types, <2>1, <2>3 DEF AdvanceJournal, Past, RunTypes, Stage, Stages
    <3>2. /\ journal'[doing.op].target = journal[doing.op].target
          /\ journal'[doing.op].token = journal[doing.op].token
      <4>1. \/ journal' = journal
            \/ journal' = [journal EXCEPT ![doing.op].stage = doing.stage]
        BY <1>17 DEF AdvanceJournal
      <4> QED
        BY <1>types, <2>1, <4>1 DEF RecordTypes, Operation
    <3>3. doing' = [doing EXCEPT !.stage = Following(Current.target, doing.stage),
                              !.written = Following(Current.target, doing.stage) = "COMMITTED"]
          /\ UNCHANGED place
      BY <1>17, <2>3 DEF AdvanceJournal
    <3>4. Following(Current.target, doing.stage) # "PLAN_CREATED"
      BY <1>17, <1>types, <2>1, <2>3 DEF AdvanceJournal, RunTypes, Following, Current, Operation, Target,
         Stage, Stages
    <3>5. doing'.op = doing.op /\ doing'.stage # "PLAN_CREATED"
      BY <1>types, <3>3, <3>4 DEF RunTypes
    <3>6. Reached(doing.op)'
      BY <1>17, <3>1, <3>2, <3>5 DEF AdvanceJournal, Reached, Settled, InBasket, Enabled
    <3>7. QED
      BY <1>17, <2>1, <3>2, <3>3, <3>5, <3>6
  <2>4. QED
    BY <2>2, <2>3
<1>18. ASSUME Throws
     PROVE  HandInv'
  BY <1>18, <1>types, <1>reached DEF Throws, Ends, Nothing, RunTypes
<1>19. ASSUME Crash
     PROVE  HandInv'
  BY <1>19, <1>types, <1>reached DEF Crash, Ends, Nothing, RunTypes
<1>20. QED
  BY <1>1, <1>2, <1>3, <1>4, <1>5, <1>6, <1>7, <1>8, <1>9, <1>10, <1>11, <1>12, <1>13, <1>14,
     <1>15, <1>16,
     <1>17, <1>18, <1>19, <1>still
  DEF Next, Cycle, Fail, FindsLocked, Collect, Recover, Promote, Operate, Owner, OwnerLeavesLock, OwnerSyncs,
     OwnerBootstraps, OwnerIngests, OwnerVerifies, OwnerAdds, OwnerDemotes, OwnerEnables, Elapse,
     Ends, OwnerActs, vars

(* The inbox is not ahead of the stores.                                   *)
LEMMA InboxStep ==
    ASSUME Types, ReadInv, HandInv, InboxFollows, [Next]_vars
    PROVE  InboxFollows'
PROOF
<1> USE DEF storeVars, recordVars, lockVars, readVars, recheckVars, countVars, runVars
<1>types. StoreTypes /\ RunTypes /\ RecordTypes /\ ReadTypes
  BY DEF Types
<1>keep. \A t \in Token : (InBasket(t) => InBasket(t)') /\ (Settled(t) => Settled(t)')
  BY KeepStep
<1> USE DEF InboxFollows, Settled
<1>1. ASSUME SortInbox
     PROVE  InboxFollows'
  BY <1>1, <1>types, <1>keep DEF SortInbox, ReadInv, StoreTypes
<1>2. ASSUME SetInbox
     PROVE  InboxFollows'
  <2>1. Reached(doing.op) /\ Current \in Operation
    BY <1>2, <1>types DEF SetInbox, Writes, HandInv, Past, RunTypes, RecordTypes, Current
  <2>2. QED
    BY <1>2, <1>types, <1>keep, <2>1 DEF SetInbox, Reached, StoreTypes, Current
<1>3. ASSUME OwnerBootstraps
     PROVE  InboxFollows'
  BY <1>3, <1>types, <1>keep DEF OwnerBootstraps, OwnerActs, StoreTypes
<1>4. QED
  BY <1>1, <1>2, <1>3, <1>types, <1>keep
  DEF Next, Cycle, Collect, Recover, Promote, Operate, Owner, BeginCycle, Recheck, TakeLock,
     RecoverNext, RecoveryEnds, ReadStores, PlanFollowUp, FollowUpEnds, PlanMain, EndCycle,
     ApplyFollowUp, ApplyMain, SyncFollowUp, AppendAudit, AdvanceJournal, Fail, FindsLocked, Throws, Crash, OwnerLeavesLock,
     OwnerSyncs, OwnerIngests, OwnerVerifies, OwnerAdds, OwnerDemotes, OwnerEnables, Elapse,
     Ends, OwnerActs, vars, InboxFollows


-----------------------------------------------------------------------------
(* The invariant behind the theorems, inductive.                           *)
LEMMA Invariance == Spec => []IInv
PROOF
<1>1. ASSUME Init PROVE IInv
  <2>1. 0 \in 0..MaxOwnerActs /\ 0 \in 0..MaxFaults /\ 0 \in Age
    BY LifecycleAssumption, AgeLemma
  <2>2. [by |-> "owner", enabled |-> FALSE] \in Row
    BY DEF Row
  <2>3. StoreTypes /\ RecordTypes /\ ReadTypes /\ CountTypes
    BY <1>1, <2>1, <2>2 DEF Init, StoreTypes, RecordTypes, ReadTypes, CountTypes
  <2>4. Nothing \in [op: Op \cup {NoOp}, stage: Stage, written: BOOLEAN] /\ Nothing.op = NoOp
    BY DEF Nothing, Stage, Stages
  <2>5. RunTypes
    BY <1>1, <2>4 DEF Init, RunTypes
  <2>6. TodoInv /\ ReadInv /\ HandInv /\ InboxFollows
    BY <1>1, <2>4, LifecycleAssumption DEF Init, TodoInv, ReadInv, HandInv, InboxFollows, Target
  <2>7. QED
    BY <2>3, <2>5, <2>6 DEF IInv, Types
<1>2. ASSUME IInv, [Next]_vars PROVE IInv'
  BY <1>2, StoreStep, RecordStep, RunStep, ReadStep, CountStep, TodoStep, ReadInvStep, HandStep,
     InboxStep
     DEF IInv, Types
<1>3. QED
  BY <1>1, <1>2, PTL DEF Spec

(* Every store, journal entry and reading has its type: the operators of   *)
(* followUpBasket.ts return entries for every age and observation.         *)
THEOREM TypeCorrect == Spec => []TypeOK
PROOF
<1>1. IInv => TypeOK
  BY DEF IInv, Types, StoreTypes, RecordTypes, RunTypes, ReadTypes, CountTypes, TypeOK
<1>2. QED
  BY <1>1, Invariance, PTL

(* The new inbox says FOLLOW_UP or MAIN_RADAR only of what is there,       *)
(* wherever a cycle of systemLifecycle.ts dies, and whatever the recovery  *)
(* of its journal and the owner do after it.                               *)
THEOREM InboxNeverAhead == Spec => []InboxFollows
PROOF
<1>1. IInv => InboxFollows
  BY DEF IInv
<1>2. QED
  BY <1>1, Invariance, PTL

(* No step, but the owner's, takes a row or an entry away that a cycle has *)
(* read: its view of the stores, which it does not read again for every    *)
(* token, stays true until it ends.                                        *)
THEOREM ReadingsHold == Spec => []ReadInv
PROOF
<1>1. IInv => ReadInv
  BY DEF IInv
<1>2. QED
  BY <1>1, Invariance, PTL

-----------------------------------------------------------------------------
(* The audit.  An operation is live while it is open or told as applied.   *)
Applied(o) == audit[o] = "APPLIED"
Live(o) == Open(o) \/ Applied(o)

(* An operation in hand is open, has no audit before it is told, and is    *)
(* not to be taken up again.                                               *)
OperationInv ==
    /\ \A o \in Op : audit[o] # "none" => journal[o] # Absent
    /\ place = "recovering" => \A o \in todo : Open(o)
    /\ doing.op # NoOp =>
           /\ Open(doing.op)
           /\ doing.stage = "AUDIT_APPLIED" /\ doing.written => audit[doing.op] # "none"
           /\ doing.stage = "TARGET_STORE_APPLIED" /\ ~doing.written =>
                  ~duplicate /\ audit[doing.op] = "none" /\ place # "recovering"
           /\ doing.stage = "COMMITTED" /\ place # "recovering" => audit[doing.op] # "none"
           /\ place = "recovering" => doing.op \notin todo
           /\ place = "followUp" => journal[doing.op].target = "FOLLOW_UP"
           /\ place = "main" => journal[doing.op].token \notin todo

(* What is told as applied has reached its store, and so has an operation  *)
(* that is open behind its plan.                                           *)
AppliedInv ==
    \A o \in Op : Applied(o) \/ (Open(o) /\ journal[o].stage # "PLAN_CREATED") => Reached(o)

(* A row of the system's is enabled, unless the owner came between.        *)
SystemRowInv == \A t \in Token \ demoted : AddedBySystem(t, "MAIN_RADAR") => Enabled(t)

(* Once the recovery has ended, an operation that is open and not in hand  *)
(* has lost its row to the owner.                                          *)
Lost(o) == journal[o].target = "MAIN_RADAR" /\ journal[o].token \in demoted
RecoverInv ==
    /\ place = "recovering" => \A o \in Op : Open(o) /\ o # doing.op => o \in todo \/ Lost(o)
    /\ place \in {"reading", "sorting", "followUp", "main"} =>
           \A o \in Op : Open(o) /\ o # doing.op => Lost(o)

(* The cycle knows of every promotion that is told as applied.             *)
KnownInv ==
    \A o \in Op : Applied(o) =>
        /\ place \in {"sorting", "followUp"} /\ journal[o].target = "FOLLOW_UP" => basket[journal[o].token] # Absent
        /\ place \in {"sorting", "followUp"} /\ journal[o].target = "MAIN_RADAR" =>
               journal[o].token \in main \cup demoted
        /\ place = "main" /\ journal[o].target = "MAIN_RADAR" => journal[o].token \notin todo \ demoted
BasketInv ==
    doing.op # NoOp /\ place = "followUp" /\ Past => basket[journal[doing.op].token] # Absent

(* A promotion has one live operation, unless the owner came between.      *)
Same(o, p) == journal[o].token = journal[p].token /\ journal[o].target = journal[p].target
UniqueInv ==
    \A o, p \in Op : Live(o) /\ Live(p) /\ Same(o, p) /\ journal[o].token \notin demoted => o = p

(* What the system has added is told, or an open operation is to tell it.  *)
Pending(o) ==
    /\ Open(o) /\ audit[o] = "none"
    /\ doing.op = o => /\ ~duplicate /\ doing.stage # "COMMITTED"
                       /\ doing.stage = "TARGET_STORE_APPLIED" => doing.written
WitnessInv ==
    \A t \in Token \ demoted, target \in Target :
        AddedBySystem(t, target) => \E o \in Op : Tells(o, t, target) /\ (Applied(o) \/ Pending(o))

(* The last stage is the highest.                                          *)
LEMMA RankLemma ==
    ASSUME NEW s \in Stage \ {"COMMITTED"}
    PROVE  Rank("COMMITTED") > Rank(s)
PROOF
<1>1. DOMAIN Stages = 1..6
  BY DEF Stages
<1>2. \A i \in 1..6 : Stages[i] = "COMMITTED" <=> i = 6
  BY DEF Stages
<1>3. Rank("COMMITTED") = 6
  BY <1>1, <1>2 DEF Rank
<1>4. Rank(s) \in 1..6 /\ Stages[Rank(s)] = s
  BY <1>1 DEF Rank, Stage
<1>5. QED
  BY <1>2, <1>3, <1>4

(* A plan takes an entry of the journal that is unused.                    *)
LEMMA PlanShape ==
    ASSUME RecordTypes, NEW t \in Token, NEW g \in Target, Plan(t, g)
    PROVE  \E o \in Op :
              /\ journal[o] = Absent
              /\ doing'.op = o /\ doing'.stage = "TARGET_STORE_APPLIED" /\ ~doing'.written
              /\ journal'[o].token = t /\ journal'[o].target = g /\ journal'[o].stage = "PLAN_CREATED" /\ Open(o)'
              /\ \A p \in Op \ {o} : journal'[p] = journal[p]
PROOF
<1>1. PICK o \in Spare :
         /\ journal' = [journal EXCEPT ![o] = [token |-> t, target |-> g, stage |-> "PLAN_CREATED"]]
         /\ doing' = [op |-> o, stage |-> "TARGET_STORE_APPLIED", written |-> FALSE]
  BY DEF Plan
<1>2. o \in Op /\ journal[o] = Absent
  BY DEF Spare
<1>3. journal'[o] = [token |-> t, target |-> g, stage |-> "PLAN_CREATED"]
  BY <1>1, <1>2 DEF RecordTypes
<1>4. journal'[o] # Absent
  <2>1. journal'[o] \in Operation
    BY <1>3 DEF Operation, Stage, Stages
  <2>2. QED
    BY <2>1, LifecycleAssumption
<1>5. Open(o)'
  BY <1>3, <1>4 DEF Open
<1>6. \A p \in Op \ {o} : journal'[p] = journal[p]
  BY <1>1 DEF RecordTypes
<1>7. QED
  BY <1>1, <1>2, <1>3, <1>5, <1>6

(* The stage that the operation in hand has come to is written, and the    *)
(* next one is taken in hand; the last one closes it.                      *)
LEMMA AdvanceShape ==
    ASSUME Types, HandInv, OperationInv, AdvanceJournal
    PROVE  \E o \in Op :
              /\ doing.op = o /\ o # NoOp /\ journal[o] \in Operation /\ Open(o) /\ doing.written
              /\ \A p \in Op \ {o} : journal'[p] = journal[p]
              /\ journal'[o] # Absent
              /\ journal'[o].token = journal[o].token /\ journal'[o].target = journal[o].target
              /\ journal'[o].stage \in {journal[o].stage, doing.stage}
              /\ doing.stage = "COMMITTED" => ~Open(o)' /\ doing' = Nothing
              /\ doing.stage # "COMMITTED" =>
                     /\ Open(o)' /\ doing'.op = o
                     /\ doing'.stage \in {"FOLLOW_UP_SYNCED", "NEW_INBOX_APPLIED", "AUDIT_APPLIED", "COMMITTED"}
                     /\ doing'.stage = "COMMITTED" <=> doing.stage = "AUDIT_APPLIED"
                     /\ doing'.written <=> doing'.stage = "COMMITTED"
PROOF
<1>types. RunTypes /\ RecordTypes
  BY DEF Types
<1>0. PICK o \in Op : o = doing.op
  BY <1>types DEF AdvanceJournal, RunTypes
<1> DEFINE moved == [journal[o] EXCEPT !.stage = doing.stage]
<1>1. o # NoOp /\ journal[o] \in Operation /\ journal[o] # Absent /\ Open(o) /\ doing.written
  BY <1>types, <1>0 DEF AdvanceJournal, RunTypes, RecordTypes, OperationInv
<1>2. \/ journal' = journal /\ Rank(doing.stage) <= Rank(journal[o].stage)
      \/ journal' = [journal EXCEPT ![o] = moved]
  BY <1>0 DEF AdvanceJournal, Current
<1>3. doing.stage \in Stage
  BY <1>types DEF RunTypes
<1>4. /\ moved # Absent /\ moved.stage = doing.stage
      /\ moved.token = journal[o].token /\ moved.target = journal[o].target
  <2>1. moved \in Operation
    BY <1>1, <1>3 DEF Operation
  <2>2. QED
    BY <1>1, <2>1, LifecycleAssumption DEF Operation
<1> HIDE DEF moved
<1>5. /\ \A p \in Op \ {o} : journal'[p] = journal[p]
      /\ journal'[o] = moved \/ (journal'[o] = journal[o] /\ Rank(doing.stage) <= Rank(journal[o].stage))
  BY <1>types, <1>2 DEF RecordTypes
<1>6. /\ journal'[o] # Absent
      /\ journal'[o].token = journal[o].token /\ journal'[o].target = journal[o].target
      /\ journal'[o].stage \in {journal[o].stage, doing.stage}
  BY <1>1, <1>4, <1>5
<1>7. CASE doing.stage = "COMMITTED"
  <2>1. journal[o].stage \in Stage \ {"COMMITTED"}
    BY <1>1 DEF Open, Operation
  <2>2. Rank("COMMITTED") > Rank(journal[o].stage)
    BY <2>1, RankLemma
  <2>3. \A s \in Stage : Rank(s) \in Nat
    <3>1. DOMAIN Stages = 1..6
      BY DEF Stages
    <3>2. QED
      BY <3>1 DEF Rank, Stage
  <2>4. ~(Rank(doing.stage) <= Rank(journal[o].stage))
    BY <1>3, <1>7, <2>1, <2>2, <2>3
  <2>5. journal'[o].stage = "COMMITTED"
    BY <1>4, <1>5, <1>7, <2>4
  <2>6. ~Open(o)'
    BY <2>5 DEF Open
  <2>7. doing' = Nothing
    BY <1>7 DEF AdvanceJournal
  <2>8. QED
    BY <1>0, <1>1, <1>5, <1>6, <1>7, <2>6, <2>7
<1>8. CASE doing.stage # "COMMITTED"
  <2> DEFINE next == Following(journal[o].target, doing.stage)
  <2>1. Open(o)'
    BY <1>1, <1>6, <1>8 DEF Open
  <2>2. doing' = [doing EXCEPT !.stage = next, !.written = next = "COMMITTED"]
    BY <1>0, <1>8 DEF AdvanceJournal, Current
  <2>3. journal[o].target \in Target
    BY <1>1 DEF Operation
  <2>4. doing.stage \in {"TARGET_STORE_APPLIED", "FOLLOW_UP_SYNCED", "NEW_INBOX_APPLIED", "AUDIT_APPLIED"}
    BY <1>0, <1>1, <1>3, <1>8 DEF HandInv, Stage, Stages
  <2>5. /\ next \in {"FOLLOW_UP_SYNCED", "NEW_INBOX_APPLIED", "AUDIT_APPLIED", "COMMITTED"}
        /\ next = "COMMITTED" <=> doing.stage = "AUDIT_APPLIED"
    BY <2>3, <2>4 DEF Following, Target
  <2> HIDE DEF next
  <2>6. doing'.op = o /\ doing'.stage = next /\ doing'.written = (next = "COMMITTED")
    BY <1>0, <1>types, <2>2 DEF RunTypes
  <2>7. QED
    BY <1>0, <1>1, <1>5, <1>6, <1>8, <2>1, <2>5, <2>6
<1>9. QED
  BY <1>7, <1>8

(* What an operation is of never changes, and none is opened again.        *)
LEMMA JournalStep ==
    ASSUME Types, HandInv, OperationInv, [Next]_vars
    PROVE  \A o \in Op : journal[o] # Absent =>
              /\ journal'[o] # Absent
              /\ journal'[o].token = journal[o].token /\ journal'[o].target = journal[o].target
              /\ Open(o)' => Open(o)
PROOF
<1> USE DEF storeVars, recordVars, lockVars, readVars, recheckVars, countVars, runVars
<1>types. RunTypes /\ RecordTypes
  BY DEF Types
<1> DEFINE Kept == \A o \in Op : journal[o] # Absent =>
                      /\ journal'[o] # Absent
                      /\ journal'[o].token = journal[o].token /\ journal'[o].target = journal[o].target
                      /\ Open(o)' => Open(o)
<1>1. ASSUME journal' = journal
      PROVE  Kept
  BY <1>1 DEF Open
<1>2. ASSUME PlanFollowUp
      PROVE  Kept
  <2>1. journal' = journal \/ \E t \in Token : Plan(t, "FOLLOW_UP")
    BY <1>2, <1>types DEF PlanFollowUp, RunTypes
  <2>2. CASE \E t \in Token : Plan(t, "FOLLOW_UP")
    BY <2>2, <1>types, PlanShape DEF Target, Open
  <2>3. QED
    BY <1>1, <2>1, <2>2
<1>3. ASSUME PlanMain
      PROVE  Kept
  <2>1. \E t \in Token : Plan(t, "MAIN_RADAR")
    BY <1>3, <1>types DEF PlanMain, RunTypes
  <2>2. QED
    BY <2>1, <1>types, PlanShape DEF Target, Open
<1>4. ASSUME AdvanceJournal
      PROVE  Kept
  BY <1>4, AdvanceShape DEF Open
<1>5. journal' = journal \/ PlanFollowUp \/ PlanMain \/ AdvanceJournal
  BY DEF Next, Cycle, Collect, Recover, Promote, Operate, Owner, BeginCycle, Recheck, TakeLock,
     RecoverNext, RecoveryEnds, ReadStores, SortInbox, FollowUpEnds, EndCycle, ApplyFollowUp, ApplyMain,
     SyncFollowUp, SetInbox, AppendAudit, Fail, FindsLocked, Throws, Crash, OwnerLeavesLock, OwnerSyncs, OwnerBootstraps,
     OwnerIngests, OwnerVerifies, OwnerAdds, OwnerDemotes, OwnerEnables, Elapse, Ends, OwnerActs, vars
<1>6. QED
  BY <1>1, <1>2, <1>3, <1>4, <1>5

(* The audit tells of the operation in hand only.                          *)
LEMMA AuditStep ==
    ASSUME Types, [Next]_vars
    PROVE  \A o \in Op : audit'[o] = audit[o] \/ (AppendAudit /\ doing.op = o)
PROOF
<1> USE DEF storeVars, recordVars, lockVars, readVars, recheckVars, countVars, runVars
<1>types. RunTypes /\ RecordTypes
  BY DEF Types
<1>1. ASSUME AppendAudit
      PROVE  \A o \in Op : audit'[o] = audit[o] \/ doing.op = o
  BY <1>1, <1>types DEF AppendAudit, RecordTypes
<1>2. audit' = audit \/ AppendAudit
  BY DEF Next, Cycle, Collect, Recover, Promote, Operate, Owner, BeginCycle, Recheck, TakeLock,
     RecoverNext, RecoveryEnds, ReadStores, SortInbox, PlanFollowUp, FollowUpEnds, PlanMain, EndCycle,
     ApplyFollowUp, ApplyMain, SyncFollowUp, SetInbox, AdvanceJournal, Fail, FindsLocked, Throws, Crash, OwnerLeavesLock, OwnerSyncs,
     OwnerBootstraps, OwnerIngests, OwnerVerifies, OwnerAdds, OwnerDemotes, OwnerEnables, Elapse,
     Ends, OwnerActs, vars
<1>3. QED
  BY <1>1, <1>2

(* What a target store has reached stays reached.                          *)
LEMMA ReachedStep ==
    ASSUME Types, HandInv, OperationInv, [Next]_vars
    PROVE  \A o \in Op : journal[o] # Absent /\ Reached(o) => Reached(o)'
PROOF
<1>1. RecordTypes
  BY DEF Types
<1>2. ASSUME NEW o \in Op, journal[o] # Absent, Reached(o)
      PROVE  Reached(o)'
  <2>1. journal[o].token \in Token /\ journal'[o].token = journal[o].token /\ journal'[o].target = journal[o].target
    BY <1>1, <1>2, JournalStep DEF RecordTypes, Operation
  <2> DEFINE t == journal[o].token
  <2>2. (InBasket(t) => InBasket(t)') /\ (Settled(t) => Settled(t)')
    BY <2>1, KeepStep
  <2>3. CASE journal[o].target = "FOLLOW_UP"
    <3>1. followUp[t] # Absent
      BY <1>2, <2>3 DEF Reached, InBasket
    <3>2. followUp'[journal'[o].token] # Absent
      <4>1. \A u \in Token : followUp[u] # Absent => followUp'[u] # Absent
        BY KeepStep DEF InBasket
      <4>2. QED
        BY <2>1, <3>1, <4>1
    <3>3. QED
      BY <2>1, <2>3, <3>2 DEF Reached, InBasket
  <2>4. CASE journal[o].target # "FOLLOW_UP"
    <3>1. \A u \in Token : (Enabled(u) \/ u \in demoted) => ((row'[u] # Absent /\ row'[u].enabled) \/ u \in demoted')
      BY KeepStep DEF Settled, Enabled
    <3>2. Enabled(t) \/ t \in demoted
      BY <1>2, <2>4 DEF Reached, Settled
    <3>3. QED
      BY <2>1, <2>4, <3>1, <3>2 DEF Reached, Settled, Enabled
  <2>5. QED
    BY <2>3, <2>4
<1>3. QED
  BY <1>2

(* An operation that is told as applied, or is open behind its plan, has   *)
(* reached its store.                                                      *)
LEMMA AppliedStep ==
    ASSUME Types, HandInv, OperationInv, AppliedInv, [Next]_vars
    PROVE  AppliedInv'
PROOF
<1> USE DEF storeVars, recordVars, lockVars, readVars, recheckVars, countVars, runVars
<1>types. RunTypes /\ RecordTypes
  BY DEF Types
<1>1. ASSUME NEW o \in Op, Applied(o)'
      PROVE  Reached(o)'
  <2>1. CASE audit'[o] = audit[o]
    BY <1>1, <2>1, ReachedStep DEF Applied, AppliedInv, OperationInv
  <2>2. CASE AppendAudit /\ doing.op = o
    <3>1. o # NoOp /\ journal[o] # Absent /\ Past
      BY <2>2, <1>types DEF AppendAudit, Writes, RunTypes, Past
    <3>2. Reached(o)
      BY <2>2, <3>1 DEF HandInv
    <3>3. QED
      BY <3>1, <3>2, ReachedStep
  <2>3. QED
    BY <2>1, <2>2, AuditStep
<1>2. ASSUME NEW o \in Op, Open(o)', journal'[o].stage # "PLAN_CREATED"
      PROVE  Reached(o)'
  <2>1. CASE journal'[o] = journal[o]
    BY <1>2, <2>1, ReachedStep DEF Open, AppliedInv
  <2>2. CASE PlanFollowUp \/ PlanMain
    <3>1. journal' = journal \/ \E t \in Token, g \in Target : Plan(t, g)
      BY <2>2, <1>types DEF PlanFollowUp, PlanMain, RunTypes, Target
    <3>2. CASE \E t \in Token, g \in Target : Plan(t, g)
      BY <1>2, <2>1, <3>2, <1>types, PlanShape
    <3>3. QED
      BY <2>1, <3>1, <3>2
  <2>3. CASE AdvanceJournal
    <3>1. PICK p \in Op :
             /\ doing.op = p /\ p # NoOp /\ journal[p] # Absent /\ Open(p) /\ doing.written
             /\ \A q \in Op \ {p} : journal'[q] = journal[q]
             /\ journal'[p].stage \in {journal[p].stage, doing.stage}
             /\ doing.stage = "COMMITTED" => ~Open(p)'
      BY <2>3, AdvanceShape DEF Open
    <3>2. CASE o # p
      BY <2>1, <3>1, <3>2
    <3>3. CASE o = p
      <4>1. doing.stage # "COMMITTED"
        BY <1>2, <3>1, <3>3
      <4>2. Reached(o)
        BY <3>1, <3>3, <4>1, <1>types DEF HandInv, Past, RunTypes, Stage, Stages
      <4>3. QED
        BY <3>1, <3>3, <4>2, ReachedStep
    <3>4. QED
      BY <3>2, <3>3
  <2>4. journal' = journal \/ PlanFollowUp \/ PlanMain \/ AdvanceJournal
    BY DEF Next, Cycle, Collect, Recover, Promote, Operate, Owner, BeginCycle, Recheck, TakeLock,
       RecoverNext, RecoveryEnds, ReadStores, SortInbox, FollowUpEnds, EndCycle, ApplyFollowUp, ApplyMain,
       SyncFollowUp, SetInbox, AppendAudit, Fail, FindsLocked, Throws, Crash, OwnerLeavesLock, OwnerSyncs, OwnerBootstraps,
       OwnerIngests, OwnerVerifies, OwnerAdds, OwnerDemotes, OwnerEnables, Elapse, Ends, OwnerActs, vars
  <2>5. QED
    BY <2>1, <2>2, <2>3, <2>4
<1>3. QED
  BY <1>1, <1>2 DEF AppliedInv

(* An operation in hand stays what the invariant says.                     *)
LEMMA OperationStep ==
    ASSUME Types, TodoInv, HandInv, OperationInv, [Next]_vars
    PROVE  OperationInv'
PROOF
<1> USE DEF storeVars, recordVars, lockVars, readVars, recheckVars, countVars, runVars
<1>types. StoreTypes /\ RunTypes /\ RecordTypes /\ ReadTypes
  BY DEF Types
<1>open. \A o \in Op : journal' = journal => (Open(o)' <=> Open(o))
  BY DEF Open
<1>idle. place \notin {"recovering", "followUp", "main"} => doing.op = NoOp
  BY DEF HandInv
<1>still. UNCHANGED <<recordVars, runVars>> => OperationInv'
  BY DEF OperationInv, Open
<1> USE DEF OperationInv, Open, Nothing
<1>1. ASSUME BeginCycle
     PROVE  OperationInv'
  BY <1>1, <1>types, <1>open DEF BeginCycle
<1>2. ASSUME Recheck
     PROVE  OperationInv'
  BY <1>2, <1>types, <1>open DEF Recheck
<1>3. ASSUME TakeLock
     PROVE  OperationInv'
  BY <1>3, <1>types, <1>open, <1>idle DEF TakeLock, Ends
<1>4. ASSUME RecoverNext
     PROVE  OperationInv'
  <2>1. PICK o \in todo : todo' = todo \ {o} /\ doing' = Recovery(o)
    BY <1>4 DEF RecoverNext
  <2>2. o \in Op /\ Open(o) /\ o # NoOp
    BY <1>4, <1>types DEF RecoverNext, RunTypes, Op, NoOp
  <2>3. doing' = Nothing \/ (doing'.op = o /\ doing'.written /\ doing'.stage \in {"TARGET_STORE_APPLIED", "COMMITTED"})
    BY <2>1 DEF Recovery
  <2>4. doing'.op = o => Open(doing.op)'
    BY <1>4, <2>2 DEF RecoverNext, Open
  <2>5. QED
    BY <1>4, <2>1, <2>2, <2>3, <2>4, <1>open DEF RecoverNext, Nothing
<1>5. ASSUME RecoveryEnds
     PROVE  OperationInv'
  BY <1>5, <1>types, <1>open DEF RecoveryEnds
<1>6. ASSUME ReadStores
     PROVE  OperationInv'
  BY <1>6, <1>types, <1>open DEF ReadStores
<1>7. ASSUME SortInbox
     PROVE  OperationInv'
  BY <1>7, <1>types, <1>open, <1>idle DEF SortInbox
<1>8. ASSUME PlanFollowUp
     PROVE  OperationInv'
  <2>1. CASE UNCHANGED <<journal, doing>>
    BY <1>8, <1>types, <1>open, <2>1 DEF PlanFollowUp, Nothing, RunTypes
  <2>2. CASE \E t \in Token : Plan(t, "FOLLOW_UP")
    <3>1. PICK t \in Token : Plan(t, "FOLLOW_UP")
      BY <2>2
    <3>2. PICK o \in Op :
             /\ journal[o] = Absent
             /\ doing'.op = o /\ doing'.stage = "TARGET_STORE_APPLIED" /\ ~doing'.written
             /\ journal'[o].token = t /\ journal'[o].target = "FOLLOW_UP" /\ Open(o)'
             /\ \A p \in Op \ {o} : journal'[p] = journal[p]
      BY <3>1, <1>types, PlanShape DEF Target
    <3>3. audit[o] = "none" /\ journal'[o] # Absent
      BY <3>2, <1>types DEF RecordTypes, Open
    <3>4. Open(doing.op)'
      BY <3>2 DEF Open
    <3>5. QED
      BY <1>8, <3>2, <3>3, <3>4 DEF PlanFollowUp
  <2>3. QED
    BY <1>8, <1>types, <2>1, <2>2 DEF PlanFollowUp, RunTypes
<1>9. ASSUME FollowUpEnds
     PROVE  OperationInv'
  BY <1>9, <1>types, <1>open DEF FollowUpEnds
<1>10. ASSUME PlanMain
     PROVE  OperationInv'
  <2>1. PICK t \in todo : Plan(t, "MAIN_RADAR") /\ todo' = todo \ {t}
    BY <1>10 DEF PlanMain
  <2>2. t \in Token
    BY <1>10, <1>types DEF PlanMain, RunTypes
  <2>3. PICK o \in Op :
           /\ journal[o] = Absent
           /\ doing'.op = o /\ doing'.stage = "TARGET_STORE_APPLIED" /\ ~doing'.written
           /\ journal'[o].token = t /\ journal'[o].target = "MAIN_RADAR" /\ Open(o)'
           /\ \A p \in Op \ {o} : journal'[p] = journal[p]
    BY <2>1, <2>2, <1>types, PlanShape DEF Target
  <2>4. audit[o] = "none" /\ journal'[o] # Absent
    BY <2>3, <1>types DEF RecordTypes, Open
  <2>5. Open(doing.op)'
    BY <2>3 DEF Open
  <2>6. QED
    BY <1>10, <2>1, <2>3, <2>4, <2>5 DEF PlanMain
<1>11. ASSUME EndCycle
     PROVE  OperationInv'
  BY <1>11, <1>types, <1>open DEF EndCycle, Ends
<1>12. ASSUME ApplyFollowUp
     PROVE  OperationInv'
  <2>1. UNCHANGED <<journal, place, todo>> /\ doing'.op = doing.op /\ doing'.stage = doing.stage /\ doing'.written
    BY <1>12, <1>types DEF ApplyFollowUp, Writes, Written, RunTypes
  <2>2. doing.op \in Op /\ doing.op # NoOp /\ Open(doing.op) /\ Open(doing.op)'
    BY <1>12, <2>1, <1>types DEF ApplyFollowUp, Writes, RunTypes, Open
  <2>3. QED
    BY <1>12, <2>1, <2>2, <1>types, <1>open DEF ApplyFollowUp, Writes, RecordTypes
<1>13. ASSUME ApplyMain
     PROVE  OperationInv'
  <2>1. CASE Ends
    BY <1>13, <1>types, <2>1 DEF Ends, Nothing, ApplyMain
  <2>2. CASE ~Ends
    <3>1. UNCHANGED <<journal, audit, place, todo>> /\ doing'.op = doing.op /\ doing'.stage = doing.stage /\ doing'.written
      BY <1>13, <1>types, <2>2 DEF ApplyMain, Writes, Written, RunTypes
    <3>2. doing.op \in Op /\ doing.op # NoOp /\ Open(doing.op) /\ Open(doing.op)' /\ doing.stage = "TARGET_STORE_APPLIED"
      BY <1>13, <3>1, <1>types DEF ApplyMain, Writes, RunTypes, Open
    <3>3. QED
      BY <1>13, <3>1, <3>2, <1>types, <1>open DEF ApplyMain, Writes
  <2>3. QED
    BY <2>1, <2>2
<1>14. ASSUME SyncFollowUp
     PROVE  OperationInv'
  <2>1. UNCHANGED <<journal, place, todo>> /\ doing'.op = doing.op /\ doing'.stage = doing.stage /\ doing'.written
    BY <1>14, <1>types DEF SyncFollowUp, Writes, Written, RunTypes
  <2>2. doing.op \in Op /\ doing.op # NoOp /\ Open(doing.op) /\ Open(doing.op)'
    BY <1>14, <2>1, <1>types DEF SyncFollowUp, Writes, RunTypes, Open
  <2>3. QED
    BY <1>14, <2>1, <2>2, <1>types, <1>open DEF SyncFollowUp, Writes, RecordTypes
<1>15. ASSUME SetInbox
     PROVE  OperationInv'
  <2>1. UNCHANGED <<journal, place, todo>> /\ doing'.op = doing.op /\ doing'.stage = doing.stage /\ doing'.written
    BY <1>15, <1>types DEF SetInbox, Writes, Written, RunTypes
  <2>2. doing.op \in Op /\ doing.op # NoOp /\ Open(doing.op) /\ Open(doing.op)'
    BY <1>15, <2>1, <1>types DEF SetInbox, Writes, RunTypes, Open
  <2>3. QED
    BY <1>15, <2>1, <2>2, <1>types, <1>open DEF SetInbox, Writes, RecordTypes
<1>16. ASSUME AppendAudit
     PROVE  OperationInv'
  <2>1. UNCHANGED <<journal, place, todo>> /\ doing'.op = doing.op /\ doing'.stage = doing.stage /\ doing'.written
    BY <1>16, <1>types DEF AppendAudit, Writes, Written, RunTypes
  <2>2. doing.op \in Op /\ doing.op # NoOp /\ Open(doing.op) /\ Open(doing.op)'
    BY <1>16, <2>1, <1>types DEF AppendAudit, Writes, RunTypes, Open
  <2>3. QED
    BY <1>16, <2>1, <2>2, <1>types, <1>open DEF AppendAudit, Writes, RecordTypes
<1>17. ASSUME AdvanceJournal
     PROVE  OperationInv'
  <2>1. PICK o \in Op :
           /\ doing.op = o /\ o # NoOp /\ Open(o) /\ journal'[o] # Absent
           /\ \A p \in Op \ {o} : journal'[p] = journal[p]
           /\ journal'[o].token = journal[o].token /\ journal'[o].target = journal[o].target
           /\ doing.written
           /\ doing.stage = "COMMITTED" => doing' = Nothing
           /\ doing.stage # "COMMITTED" =>
                  /\ Open(o)' /\ doing'.op = o
                  /\ doing'.stage \in {"FOLLOW_UP_SYNCED", "NEW_INBOX_APPLIED", "AUDIT_APPLIED", "COMMITTED"}
                  /\ doing'.stage = "COMMITTED" <=> doing.stage = "AUDIT_APPLIED"
                  /\ doing'.written <=> doing'.stage = "COMMITTED"
    BY <1>17, AdvanceShape
  <2>2. UNCHANGED <<audit, place, todo, duplicate>>
    BY <1>17 DEF AdvanceJournal
  <2>3. place = "recovering" => \A p \in todo : Open(p)'
    BY <2>1, <1>types DEF Open, RunTypes
  <2>4. CASE doing.stage = "COMMITTED"
    BY <2>1, <2>2, <2>3, <2>4, <1>types DEF Nothing, RunTypes
  <2>5. CASE doing.stage # "COMMITTED"
    <3>1. Open(doing.op)'
      BY <2>1, <2>5 DEF Open
    <3>2. doing.stage = "AUDIT_APPLIED" => audit[o] # "none"
      BY <2>1
    <3>3. QED
      BY <2>1, <2>2, <2>3, <2>5, <3>1, <3>2
  <2>6. QED
    BY <2>4, <2>5
<1>18. ASSUME Throws
     PROVE  OperationInv'
  BY <1>18, <1>types, <1>open DEF Throws, Ends
<1>19. ASSUME Crash
     PROVE  OperationInv'
  BY <1>19, <1>types, <1>open DEF Crash, Ends
<1>20. QED
  BY <1>1, <1>2, <1>3, <1>4, <1>5, <1>6, <1>7, <1>8, <1>9, <1>10, <1>11, <1>12, <1>13, <1>14,
     <1>15, <1>16, <1>17, <1>18, <1>19, <1>still
  DEF Next, Cycle, Fail, FindsLocked, Collect, Recover, Promote, Operate, Owner, OwnerLeavesLock, OwnerSyncs, OwnerBootstraps,
     OwnerIngests, OwnerVerifies, OwnerAdds, OwnerDemotes, OwnerEnables, Elapse, Ends, OwnerActs,
     vars, storeVars, recordVars, readVars, recheckVars, countVars, runVars

(* The owner's acts are remembered.                                        *)
LEMMA DemotedStep ==
    ASSUME [Next]_vars
    PROVE  demoted \subseteq demoted'
PROOF
<1> USE DEF storeVars, recordVars, lockVars, readVars, recheckVars, countVars, runVars
<1>1. QED
  BY DEF Next, Cycle, Collect, Recover, Promote, Operate, Owner, BeginCycle, Recheck, TakeLock,
     RecoverNext, RecoveryEnds, ReadStores, SortInbox, PlanFollowUp, FollowUpEnds, PlanMain, EndCycle,
     ApplyFollowUp, ApplyMain, SyncFollowUp, SetInbox, AppendAudit, AdvanceJournal, Fail, FindsLocked, Throws, Crash,
     OwnerLeavesLock, OwnerSyncs, OwnerBootstraps, OwnerIngests, OwnerVerifies, OwnerAdds, OwnerDemotes,
     OwnerEnables, Elapse, Ends, OwnerActs, vars

(* No open operation is forgotten: it is in hand or to be recovered, or lost. *)
LEMMA RecoverStep ==
    ASSUME Types, TodoInv, HandInv, OperationInv, AppliedInv, RecoverInv, [Next]_vars
    PROVE  RecoverInv'
PROOF
<1> USE DEF storeVars, recordVars, lockVars, readVars, recheckVars, countVars, runVars
<1>types. StoreTypes /\ RunTypes /\ RecordTypes /\ ReadTypes
  BY DEF Types
<1>idle. place \notin {"recovering", "followUp", "main"} => doing.op = NoOp
  BY DEF HandInv
<1>open. journal' = journal => \A o \in Op : Open(o)' => Open(o)
  BY DEF Open
<1>lost. \A o \in Op : Open(o) /\ Lost(o) => Lost(o)'
  BY JournalStep, DemotedStep DEF Lost, Open
<1>still. UNCHANGED <<journal, runVars>> => RecoverInv'
  BY <1>open, <1>lost DEF RecoverInv
<1> USE DEF RecoverInv, Nothing
<1>1. ASSUME BeginCycle
     PROVE  RecoverInv'
  BY <1>1, <1>types, <1>idle, <1>open, <1>lost DEF BeginCycle
<1>2. ASSUME Recheck
     PROVE  RecoverInv'
  BY <1>2, <1>types, <1>idle, <1>open, <1>lost DEF Recheck
<1>3. ASSUME TakeLock
     PROVE  RecoverInv'
  BY <1>3, <1>types, <1>idle, <1>open, <1>lost DEF TakeLock, Ends
<1>4. ASSUME RecoverNext
     PROVE  RecoverInv'
  <2>1. PICK o \in todo : todo' = todo \ {o} /\ doing' = Recovery(o)
    BY <1>4 DEF RecoverNext
  <2>2. o \in Op /\ Open(o) /\ doing.op \notin Op
    BY <1>4, <1>types DEF RecoverNext, RunTypes, OperationInv, Op, NoOp, Nothing
  <2>3. doing'.op = o \/ (~Present(o) /\ journal[o].stage # "PLAN_CREATED")
    BY <2>1 DEF Recovery
  <2>4. ~Present(o) /\ journal[o].stage # "PLAN_CREATED" => Lost(o)
    <3>1. journal[o].target \in Target
      BY <2>2, <1>types DEF RecordTypes, Open, Operation
    <3>2. QED
      BY <2>2, <3>1 DEF Present, AppliedInv, Reached, Settled, Lost, Target
  <2>5. QED
    BY <1>4, <1>open, <1>lost, <2>1, <2>2, <2>3, <2>4 DEF RecoverNext
<1>5. ASSUME RecoveryEnds
     PROVE  RecoverInv'
  BY <1>5, <1>types, <1>idle, <1>open, <1>lost DEF RecoveryEnds
<1>6. ASSUME ReadStores
     PROVE  RecoverInv'
  BY <1>6, <1>types, <1>idle, <1>open, <1>lost DEF ReadStores
<1>7. ASSUME SortInbox
     PROVE  RecoverInv'
  BY <1>7, <1>types, <1>idle, <1>open, <1>lost DEF SortInbox
<1>8. ASSUME PlanFollowUp
     PROVE  RecoverInv'
  <2>1. (journal' = journal /\ doing' = doing) \/ \E t \in Token : Plan(t, "FOLLOW_UP")
    BY <1>8, <1>types DEF PlanFollowUp, RunTypes
  <2>2. CASE journal' = journal /\ doing' = doing
    BY <1>8, <1>open, <1>lost, <2>2 DEF PlanFollowUp
  <2>3. CASE \E t \in Token : Plan(t, "FOLLOW_UP")
    <3>1. PICK o \in Op :
             /\ doing'.op = o /\ \A p \in Op \ {o} : journal'[p] = journal[p]
      BY <2>3, <1>types, PlanShape DEF Target
    <3>2. \A p \in Op \ {o} : Open(p)' => Open(p)
      BY <3>1 DEF Open
    <3>3. doing.op \notin Op
      BY <1>8 DEF PlanFollowUp, Nothing, NoOp, Op
    <3>4. QED
      BY <1>8, <1>open, <1>lost, <3>1, <3>2, <3>3 DEF PlanFollowUp
  <2>4. QED
    BY <2>1, <2>2, <2>3
<1>9. ASSUME FollowUpEnds
     PROVE  RecoverInv'
  BY <1>9, <1>types, <1>idle, <1>open, <1>lost DEF FollowUpEnds
<1>10. ASSUME PlanMain
     PROVE  RecoverInv'
  <2>1. (journal' = journal /\ doing' = doing) \/ \E t \in Token : Plan(t, "MAIN_RADAR")
    BY <1>10, <1>types DEF PlanMain, RunTypes
  <2>2. CASE journal' = journal /\ doing' = doing
    BY <1>10, <1>open, <1>lost, <2>2 DEF PlanMain
  <2>3. CASE \E t \in Token : Plan(t, "MAIN_RADAR")
    <3>1. PICK o \in Op :
             /\ doing'.op = o /\ \A p \in Op \ {o} : journal'[p] = journal[p]
      BY <2>3, <1>types, PlanShape DEF Target
    <3>2. \A p \in Op \ {o} : Open(p)' => Open(p)
      BY <3>1 DEF Open
    <3>3. doing.op \notin Op
      BY <1>10 DEF PlanMain, Nothing, NoOp, Op
    <3>4. QED
      BY <1>10, <1>open, <1>lost, <3>1, <3>2, <3>3 DEF PlanMain
  <2>4. QED
    BY <2>1, <2>2, <2>3
<1>11. ASSUME EndCycle
     PROVE  RecoverInv'
  BY <1>11, <1>types, <1>idle, <1>open, <1>lost DEF EndCycle, Ends
<1>12. ASSUME ApplyFollowUp
     PROVE  RecoverInv'
  BY <1>12, <1>types, <1>idle, <1>open, <1>lost DEF ApplyFollowUp, Writes, Written, RunTypes
<1>13. ASSUME ApplyMain
     PROVE  RecoverInv'
  BY <1>13, <1>types, <1>idle, <1>open, <1>lost DEF ApplyMain, Writes, Written, Ends, RunTypes
<1>14. ASSUME SyncFollowUp
     PROVE  RecoverInv'
  BY <1>14, <1>types, <1>idle, <1>open, <1>lost DEF SyncFollowUp, Writes, Written, RunTypes
<1>15. ASSUME SetInbox
     PROVE  RecoverInv'
  BY <1>15, <1>types, <1>idle, <1>open, <1>lost DEF SetInbox, Writes, Written, RunTypes
<1>16. ASSUME AppendAudit
     PROVE  RecoverInv'
  BY <1>16, <1>types, <1>idle, <1>open, <1>lost DEF AppendAudit, Writes, Written, RunTypes
<1>17. ASSUME AdvanceJournal
     PROVE  RecoverInv'
  <2>1. PICK o \in Op :
           /\ doing.op = o
           /\ doing.stage = "COMMITTED" => ~Open(o)' /\ doing' = Nothing
           /\ doing.stage # "COMMITTED" => doing'.op = o
           /\ \A p \in Op \ {o} : journal'[p] = journal[p]
    BY <1>17, AdvanceShape
  <2>2. \A p \in Op \ {o} : Open(p)' => Open(p)
    BY <2>1 DEF Open
  <2>3. QED
    BY <1>17, <1>lost, <2>1, <2>2 DEF AdvanceJournal
<1>18. ASSUME Throws
     PROVE  RecoverInv'
  BY <1>18, <1>types, <1>idle, <1>open, <1>lost DEF Throws, Ends
<1>19. ASSUME Crash
     PROVE  RecoverInv'
  BY <1>19, <1>types, <1>idle, <1>open, <1>lost DEF Crash, Ends
<1>20. QED
  BY <1>1, <1>2, <1>3, <1>4, <1>5, <1>6, <1>7, <1>8, <1>9, <1>10, <1>11, <1>12, <1>13, <1>14,
     <1>15, <1>16, <1>17, <1>18, <1>19, <1>still
  DEF Next, Cycle, Fail, FindsLocked, Collect, Recover, Promote, Operate, Owner, OwnerLeavesLock, OwnerSyncs, OwnerBootstraps,
     OwnerIngests, OwnerVerifies, OwnerAdds, OwnerDemotes, OwnerEnables, Elapse, Ends, OwnerActs,
     vars, storeVars, recordVars, readVars, recheckVars, countVars, runVars

(* What the operation in hand has put into the basket is read again.       *)
LEMMA BasketStep ==
    ASSUME Types, ReadInv, HandInv, OperationInv, BasketInv, [Next]_vars
    PROVE  BasketInv'
PROOF
<1> USE DEF storeVars, recordVars, lockVars, readVars, recheckVars, countVars, runVars
<1>types. StoreTypes /\ RunTypes /\ RecordTypes /\ ReadTypes
  BY DEF Types
<1>idle. place \notin {"recovering", "followUp", "main"} => doing.op = NoOp
  BY DEF HandInv
<1>still. UNCHANGED <<journal, place, doing, basket>> => BasketInv'
  BY DEF BasketInv, Past
<1> USE DEF BasketInv, Past, Nothing
<1>1. ASSUME BeginCycle
     PROVE  BasketInv'
  BY <1>1, <1>types, <1>idle DEF BeginCycle
<1>2. ASSUME Recheck
     PROVE  BasketInv'
  BY <1>2, <1>types, <1>idle DEF Recheck
<1>3. ASSUME TakeLock
     PROVE  BasketInv'
  BY <1>3, <1>types, <1>idle DEF TakeLock, Ends
<1>4. ASSUME RecoverNext
     PROVE  BasketInv'
  BY <1>4, <1>types, <1>idle DEF RecoverNext
<1>5. ASSUME RecoveryEnds
     PROVE  BasketInv'
  BY <1>5, <1>types, <1>idle DEF RecoveryEnds
<1>6. ASSUME ReadStores
     PROVE  BasketInv'
  BY <1>6, <1>types, <1>idle DEF ReadStores
<1>7. ASSUME SortInbox
     PROVE  BasketInv'
  BY <1>7, <1>types, <1>idle DEF SortInbox
<1>8. ASSUME PlanFollowUp
     PROVE  BasketInv'
  <2>1. UNCHANGED <<journal, doing>> \/ \E o \in Op : doing' = [op |-> o, stage |-> "TARGET_STORE_APPLIED", written |-> FALSE]
    BY <1>8, <1>types DEF PlanFollowUp, Plan, Spare
  <2>2. QED
    BY <1>8, <2>1 DEF PlanFollowUp
<1>9. ASSUME FollowUpEnds
     PROVE  BasketInv'
  BY <1>9, <1>types, <1>idle DEF FollowUpEnds
<1>10. ASSUME PlanMain
     PROVE  BasketInv'
  BY <1>10, <1>types, <1>idle DEF PlanMain
<1>11. ASSUME EndCycle
     PROVE  BasketInv'
  BY <1>11, <1>types, <1>idle DEF EndCycle, Ends
<1>12. ASSUME ApplyFollowUp
     PROVE  BasketInv'
  <2>1. UNCHANGED <<journal, place>> /\ doing'.op = doing.op /\ basket' = followUp'
    BY <1>12, <1>types DEF ApplyFollowUp, Written, RunTypes
  <2>2. QED
    BY <1>12, <2>1, ApplyLemma DEF Current
<1>13. ASSUME ApplyMain
     PROVE  BasketInv'
  <2>1. place # "followUp"
    BY <1>13, <1>types DEF ApplyMain, Writes, OperationInv, Current
  <2>2. QED
    BY <1>13, <2>1 DEF ApplyMain, Ends
<1>14. ASSUME SyncFollowUp
     PROVE  BasketInv'
  <2>1. UNCHANGED <<journal, place>> /\ doing'.op = doing.op /\ basket' = followUp' /\ Past
    BY <1>14, <1>types DEF SyncFollowUp, Writes, Written, RunTypes
  <2>2. doing.op # NoOp => journal[doing.op].token \in Token
    BY <1>types DEF RunTypes, RecordTypes, Operation
  <2>3. \A t \in Token : followUp[t] # Absent => followUp'[t] # Absent
    BY KeepStep DEF InBasket
  <2>4. QED
    BY <2>1, <2>2, <2>3 DEF ReadInv, InBasket
<1>15. ASSUME SetInbox
     PROVE  BasketInv'
  BY <1>15, <1>types, <1>idle DEF SetInbox, Writes, Written, RunTypes
<1>16. ASSUME AppendAudit
     PROVE  BasketInv'
  BY <1>16, <1>types, <1>idle DEF AppendAudit, Writes, Written, RunTypes
<1>17. ASSUME AdvanceJournal
     PROVE  BasketInv'
  <2>1. PICK o \in Op :
           /\ doing.op = o /\ o # NoOp /\ doing.written /\ journal'[o].token = journal[o].token
           /\ doing.stage = "COMMITTED" => doing' = Nothing
           /\ doing.stage # "COMMITTED" => doing'.op = o
    BY <1>17, AdvanceShape
  <2>2. UNCHANGED <<place, basket>>
    BY <1>17 DEF AdvanceJournal
  <2>3. doing.stage # "COMMITTED" => Past
    BY <2>1, <1>types DEF HandInv, RunTypes, Stage, Stages
  <2>4. QED
    BY <2>1, <2>2, <2>3
<1>18. ASSUME Throws
     PROVE  BasketInv'
  BY <1>18, <1>types, <1>idle DEF Throws, Ends
<1>19. ASSUME Crash
     PROVE  BasketInv'
  BY <1>19, <1>types, <1>idle DEF Crash, Ends
<1>20. QED
  BY <1>1, <1>2, <1>3, <1>4, <1>5, <1>6, <1>7, <1>8, <1>9, <1>10, <1>11, <1>12, <1>13, <1>14,
     <1>15, <1>16, <1>17, <1>18, <1>19, <1>still
  DEF Next, Cycle, Fail, FindsLocked, Collect, Recover, Promote, Operate, Owner, OwnerLeavesLock, OwnerSyncs, OwnerBootstraps,
     OwnerIngests, OwnerVerifies, OwnerAdds, OwnerDemotes, OwnerEnables, Elapse, Ends, OwnerActs,
     vars, storeVars, recordVars, readVars, recheckVars, countVars, runVars

(* The cycle knows of what is told as applied.                             *)
LEMMA KnownStep ==
    ASSUME Types, ReadInv, HandInv, OperationInv, AppliedInv, KnownInv, BasketInv, [Next]_vars
    PROVE  KnownInv'
PROOF
<1> USE DEF storeVars, recordVars, lockVars, readVars, recheckVars, countVars, runVars
<1>types. StoreTypes /\ RunTypes /\ RecordTypes /\ ReadTypes
  BY DEF Types
<1>applied. \A o \in Op : Applied(o)' =>
               /\ journal[o] # Absent /\ journal[o].token \in Token
               /\ journal'[o].token = journal[o].token /\ journal'[o].target = journal[o].target
               /\ Applied(o) \/ (AppendAudit /\ doing.op = o)
  <2>1. ASSUME NEW o \in Op, Applied(o)'
        PROVE  journal[o] # Absent /\ (Applied(o) \/ (AppendAudit /\ doing.op = o))
    BY <2>1, <1>types, AuditStep DEF Applied, OperationInv, AppendAudit, Writes, RunTypes
  <2>2. \A o \in Op : journal[o] # Absent => journal[o].token \in Token
    BY <1>types DEF RecordTypes, Operation
  <2>3. QED
    BY <2>1, <2>2, JournalStep
<1>demoted. demoted \subseteq demoted'
  BY DemotedStep
<1>out. place' \notin {"sorting", "followUp", "main"} => KnownInv'
  BY DEF KnownInv
<1>keep. ASSUME place' = place, main \subseteq main', todo' \subseteq todo,
                \A t \in Token : basket[t] # Absent => basket'[t] # Absent,
                ~AppendAudit
         PROVE  KnownInv'
  BY <1>keep, <1>applied, <1>demoted DEF KnownInv
<1>1. ASSUME ReadStores
      PROVE  KnownInv'
  <2>1. \A o \in Op : Applied(o) => Reached(o)
    BY DEF AppliedInv
  <2>2. ~AppendAudit
    BY <1>1 DEF ReadStores, AppendAudit
  <2>3. QED
    BY <1>1, <1>types, <1>applied, <1>demoted, <2>1, <2>2
       DEF ReadStores, KnownInv, Reached, Settled, InBasket, EnabledTokens
<1>2. ASSUME SortInbox
      PROVE  KnownInv'
  <2>1. ~AppendAudit
    BY <1>2 DEF SortInbox, AppendAudit
  <2>2. QED
    BY <1>2, <1>applied, <1>demoted, <2>1 DEF SortInbox, KnownInv
<1>3. ASSUME FollowUpEnds
      PROVE  KnownInv'
  <2>1. ~AppendAudit
    BY <1>3 DEF FollowUpEnds, AppendAudit
  <2>2. todo' \cap main = {}
    BY <1>3 DEF FollowUpEnds
  <2>3. QED
    BY <1>3, <1>applied, <1>demoted, <2>1, <2>2 DEF FollowUpEnds, KnownInv
<1>4. ASSUME AppendAudit
      PROVE  KnownInv'
  <2>1. UNCHANGED <<place, todo, main, basket>>
    BY <1>4 DEF AppendAudit
  <2>2. doing.op # NoOp /\ Past
    BY <1>4 DEF AppendAudit, Writes, Past
  <2>3. QED
    BY <1>applied, <1>demoted, <2>1, <2>2 DEF KnownInv, BasketInv, OperationInv, HandInv
<1>5. ASSUME PlanFollowUp \/ PlanMain
      PROVE  KnownInv'
  <2>1. UNCHANGED <<place, main, basket>> /\ todo' \subseteq todo /\ audit' = audit
    BY <1>5 DEF PlanFollowUp, PlanMain
  <2>2. ~AppendAudit
    BY <1>5 DEF PlanFollowUp, PlanMain, AppendAudit, Writes, Nothing
  <2>3. QED
    BY <1>keep, <2>1, <2>2
<1>6. ASSUME ApplyFollowUp \/ SyncFollowUp
      PROVE  KnownInv'
  <2>1. UNCHANGED <<place, main, todo>> /\ basket' = followUp'
    BY <1>6 DEF ApplyFollowUp, SyncFollowUp
  <2>2. ~AppendAudit
    BY <1>6 DEF ApplyFollowUp, SyncFollowUp, AppendAudit, Writes
  <2>3. \A t \in Token : basket[t] # Absent => basket'[t] # Absent
    BY <2>1, KeepStep DEF ReadInv, InBasket
  <2>4. QED
    BY <1>keep, <2>1, <2>2, <2>3
<1>7. ASSUME AdvanceJournal
      PROVE  KnownInv'
  <2>1. UNCHANGED <<place, todo, basket>> /\ main \subseteq main'
    BY <1>7 DEF AdvanceJournal
  <2>2. ~AppendAudit
    BY <1>7 DEF AdvanceJournal, AppendAudit, Writes
  <2>3. QED
    BY <1>keep, <2>1, <2>2
<1>8. ASSUME UNCHANGED <<place, todo, main, basket>>, ~AppendAudit
      PROVE  KnownInv'
  BY <1>8, <1>keep
<1>9. \/ ReadStores \/ SortInbox \/ FollowUpEnds \/ AppendAudit \/ PlanFollowUp \/ PlanMain \/ ApplyFollowUp
      \/ SyncFollowUp \/ AdvanceJournal
      \/ UNCHANGED <<place, todo, main, basket>>
      \/ place' \notin {"sorting", "followUp", "main"}
  BY DEF Next, Cycle, Collect, Recover, Promote, Operate, Owner, BeginCycle, Recheck, TakeLock,
     RecoverNext, RecoveryEnds, EndCycle, ApplyMain, SetInbox, Fail, FindsLocked, Throws, Crash,
     OwnerLeavesLock, OwnerSyncs, OwnerBootstraps, OwnerIngests, OwnerVerifies, OwnerAdds, OwnerDemotes,
     OwnerEnables, Elapse, Ends, OwnerActs, vars
<1>10. QED
  BY <1>1, <1>2, <1>3, <1>4, <1>5, <1>6, <1>7, <1>8, <1>9, <1>out

(* A promotion has one live operation: the recovery closes what an earlier *)
(* cycle has left before the inbox is sorted, and the sorting finds what   *)
(* is told as applied in the stores.                                       *)
LEMMA UniqueStep ==
    ASSUME Types, HandInv, OperationInv, RecoverInv, KnownInv, UniqueInv, [Next]_vars
    PROVE  UniqueInv'
PROOF
<1> USE DEF storeVars, recordVars, lockVars, readVars, recheckVars, countVars, runVars
<1>types. RunTypes /\ RecordTypes
  BY DEF Types
<1>live. \A o \in Op : Live(o)' /\ journal[o] # Absent => Live(o)
  <2>1. \A o \in Op : AppendAudit /\ doing.op = o => Open(o)
    BY DEF AppendAudit, Writes, OperationInv
  <2>2. \A o \in Op : journal[o] # Absent /\ Open(o)' => Open(o)
    BY JournalStep
  <2>3. \A o \in Op : Applied(o)' => Live(o)
    BY <2>1, AuditStep DEF Live, Applied
  <2>4. QED
    BY <2>2, <2>3 DEF Live
<1>same. \A o, p \in Op : journal[o] # Absent /\ journal[p] # Absent /\ Same(o, p)' => Same(o, p)
  BY JournalStep DEF Same
<1>token. \A o \in Op : journal[o] # Absent => journal'[o].token = journal[o].token
  BY JournalStep
<1>demoted. demoted \subseteq demoted'
  BY DemotedStep
<1>old. ASSUME NEW o \in Op, NEW p \in Op, journal[o] # Absent, journal[p] # Absent,
               Live(o)', Live(p)', Same(o, p)', journal'[o].token \notin demoted'
        PROVE  o = p
  <2>1. Live(o) /\ Live(p) /\ Same(o, p) /\ journal[o].token \notin demoted
    BY <1>old, <1>live, <1>same, <1>token, <1>demoted
  <2>2. QED
    BY <2>1 DEF UniqueInv
<1>kept. ASSUME \A o \in Op : journal'[o] # Absent => journal[o] # Absent
         PROVE  UniqueInv'
  <2>1. \A o \in Op : Live(o)' => journal'[o] # Absent \/ audit'[o] = "APPLIED"
    BY DEF Live, Open, Applied
  <2>2. \A o \in Op : audit'[o] # "none" => journal[o] # Absent
    BY <1>types, AuditStep DEF OperationInv, AppendAudit, Writes, RunTypes
  <2>3. \A o \in Op : Live(o)' => journal[o] # Absent
    BY <1>kept, <2>1, <2>2
  <2>4. QED
    BY <1>old, <2>3 DEF UniqueInv
<1>plan. ASSUME NEW t \in Token, NEW g \in Target, Plan(t, g), audit' = audit,
                \A p \in Op : Live(p) /\ journal[p].token = t /\ journal[p].target = g => t \in demoted
         PROVE  UniqueInv'
  <2>1. PICK o \in Op :
           /\ journal[o] = Absent /\ journal'[o].token = t /\ journal'[o].target = g
           /\ \A p \in Op \ {o} : journal'[p] = journal[p]
    BY <1>plan, <1>types, PlanShape
  <2>2. \A p \in Op \ {o} : Live(p)' => Live(p) /\ journal[p] # Absent
    BY <1>plan, <2>1, <1>types DEF Live, Open, Applied, OperationInv
  <2>3. ASSUME NEW p \in Op \ {o}, Live(p)', journal'[p].token = t, journal'[p].target = g
        PROVE  t \in demoted'
    BY <1>plan, <1>demoted, <2>1, <2>2, <2>3
  <2>4. ASSUME NEW p \in Op, NEW q \in Op, Live(p)', Live(q)', Same(p, q)', journal'[p].token \notin demoted'
        PROVE  p = q
    <3>1. journal'[p].token = journal'[q].token /\ journal'[p].target = journal'[q].target
      BY <2>4 DEF Same
    <3>2. CASE p = o
      BY <2>1, <2>3, <2>4, <3>1, <3>2
    <3>3. CASE q = o
      BY <2>1, <2>3, <2>4, <3>1, <3>3
    <3>4. CASE p # o /\ q # o
      BY <1>old, <2>2, <2>4, <3>4
    <3>5. QED
      BY <3>2, <3>3, <3>4
  <2>5. QED
    BY <2>4 DEF UniqueInv
<1>1. ASSUME PlanFollowUp
      PROVE  UniqueInv'
  <2>1. audit' = audit /\ (journal' = journal \/ \E t \in todo : basket[t] = Absent /\ Plan(t, "FOLLOW_UP"))
    BY <1>1 DEF PlanFollowUp
  <2>2. CASE \E t \in todo : basket[t] = Absent /\ Plan(t, "FOLLOW_UP")
    <3>1. PICK t \in Token : basket[t] = Absent /\ Plan(t, "FOLLOW_UP")
      BY <1>1, <1>types, <2>2 DEF PlanFollowUp, RunTypes
    <3>2. doing.op = NoOp /\ place = "followUp"
      BY <1>1 DEF PlanFollowUp, Nothing
    <3>3. \A p \in Op : Live(p) /\ journal[p].token = t /\ journal[p].target = "FOLLOW_UP" => FALSE
      BY <3>1, <3>2 DEF Live, RecoverInv, KnownInv, Lost, NoOp, Op
    <3>4. QED
      BY <1>plan, <2>1, <3>1, <3>3 DEF Target
  <2>3. QED
    BY <1>kept, <2>1, <2>2
<1>2. ASSUME PlanMain
      PROVE  UniqueInv'
  <2>1. PICK t \in Token : t \in todo /\ Plan(t, "MAIN_RADAR")
    BY <1>2, <1>types DEF PlanMain, RunTypes
  <2>2. doing.op = NoOp /\ place = "main" /\ audit' = audit
    BY <1>2 DEF PlanMain, Nothing
  <2>3. \A p \in Op : Live(p) /\ journal[p].token = t /\ journal[p].target = "MAIN_RADAR" => t \in demoted
    BY <2>1, <2>2 DEF Live, RecoverInv, KnownInv, Lost, NoOp, Op
  <2>4. QED
    BY <1>plan, <2>1, <2>2, <2>3 DEF Target
<1>3. ASSUME AdvanceJournal
      PROVE  UniqueInv'
  BY <1>3, <1>kept, AdvanceShape DEF Open
<1>4. journal' = journal \/ PlanFollowUp \/ PlanMain \/ AdvanceJournal
  BY DEF Next, Cycle, Collect, Recover, Promote, Operate, Owner, BeginCycle, Recheck, TakeLock,
     RecoverNext, RecoveryEnds, ReadStores, SortInbox, FollowUpEnds, EndCycle, ApplyFollowUp, ApplyMain,
     SyncFollowUp, SetInbox, AppendAudit, Fail, FindsLocked, Throws, Crash, OwnerLeavesLock, OwnerSyncs, OwnerBootstraps,
     OwnerIngests, OwnerVerifies, OwnerAdds, OwnerDemotes, OwnerEnables, Elapse, Ends, OwnerActs, vars
<1>5. QED
  BY <1>kept, <1>1, <1>2, <1>3, <1>4

(* What a recheck, a synchronization or the owner does to a store adds     *)
(* nothing in the system's name: an entry keeps who has put it there.      *)
LEMMA AddedStep ==
    ASSUME Types, [Next]_vars
    PROVE  \A t \in Token, g \in Target : AddedBySystem(t, g)' =>
              \/ AddedBySystem(t, g)
              \/ /\ doing.op # NoOp /\ Current.token = t /\ Current.target = g
                 /\ doing.stage = "TARGET_STORE_APPLIED" /\ ~doing.written
                 /\ Written /\ UNCHANGED <<recordVars, duplicate, demoted>>
PROOF
<1> USE DEF storeVars, recordVars, lockVars, readVars, recheckVars, countVars, runVars
<1>types. StoreTypes /\ RunTypes /\ RecordTypes /\ ReadTypes
  BY DEF Types
<1> DEFINE Entries == \A t \in Token : followUp'[t] # Absent /\ followUp'[t].by = "system" =>
                                          followUp[t] # Absent /\ followUp[t].by = "system"
           Rows == \A t \in Token : row'[t] # Absent /\ row'[t].by = "system" =>
                                       row[t] # Absent /\ row[t].by = "system"
<1>both. Entries /\ Rows => \A t \in Token, g \in Target : AddedBySystem(t, g)' => AddedBySystem(t, g)
  BY DEF AddedBySystem, InBasket
<1>synced. \A e \in Entry, a \in Age, est \in BOOLEAN, p \in BOOLEAN, s \in BOOLEAN :
              Synced(e, a, est).by = e.by /\ Rechecked(e, a, est, p, s).by = e.by
  BY DEF Synced, Rechecked, Entry
<1>entry. \A t \in Token : InBasket(t) => followUp[t] \in Entry /\ age[t] \in Age
  BY <1>types DEF StoreTypes, InBasket
<1>sync. \A u : followUp' = SyncedBasket(u) => Entries
  <2>1. ASSUME NEW u, NEW t \in Token, InBasket(t)
        PROVE  Synced(followUp[t], age[t], t \in u).by = followUp[t].by
    <3>1. (t \in u) \in BOOLEAN
      OBVIOUS
    <3>2. QED
      BY <2>1, <3>1, <1>synced, <1>entry
  <2>2. QED
    BY <2>1 DEF SyncedBasket, InBasket
<1>1. ASSUME Recheck
      PROVE  Entries /\ Rows
  <2>1. PICK checked \in SUBSET due, passing \in SUBSET due, secure \in SUBSET due :
           followUp' = [t \in Token |->
               IF ~InBasket(t) THEN Absent
               ELSE LET e == Synced(followUp[t], age[t], t \in universe)
                    IN  IF t \in checked
                        THEN Rechecked(e, age[t], t \in universe, t \in passing, t \in secure)
                        ELSE e]
    BY <1>1 DEF Recheck
  <2>2. ASSUME NEW t \in Token, InBasket(t)
        PROVE  followUp'[t].by = followUp[t].by
    <3> DEFINE e == Synced(followUp[t], age[t], t \in universe)
    <3>1. (t \in universe) \in BOOLEAN /\ (t \in passing) \in BOOLEAN /\ (t \in secure) \in BOOLEAN
      OBVIOUS
    <3>2. e \in Entry /\ e.by = followUp[t].by
      BY <2>2, <3>1, <1>synced, <1>entry, EntryLemma
    <3> HIDE DEF e
    <3>3. Rechecked(e, age[t], t \in universe, t \in passing, t \in secure).by = followUp[t].by
      <4>1. \A est \in BOOLEAN, p \in BOOLEAN, s \in BOOLEAN : Rechecked(e, age[t], est, p, s).by = e.by
        BY <2>2, <3>2, <1>synced, <1>entry
      <4>2. QED
        BY <3>1, <3>2, <4>1
    <3>4. followUp'[t] = e \/ followUp'[t] = Rechecked(e, age[t], t \in universe, t \in passing, t \in secure)
      BY <2>1, <2>2 DEF e
    <3>5. QED
      BY <3>2, <3>3, <3>4
  <2>3. \A t \in Token : followUp'[t] # Absent => InBasket(t)
    BY <2>1
  <2>4. row' = row
    BY <1>1 DEF Recheck
  <2>5. QED
    BY <2>2, <2>3, <2>4 DEF InBasket
<1>2. ASSUME SyncFollowUp
      PROVE  Entries /\ Rows
  <2>1. followUp' = SyncedBasket(universe) /\ row' = row
    BY <1>2 DEF SyncFollowUp, SyncedBasket
  <2>2. QED
    BY <1>sync, <2>1
<1>3. ASSUME OwnerSyncs
      PROVE  Entries /\ Rows
  <2>1. (followUp' = followUp \/ \E u : followUp' = SyncedBasket(u)) /\ row' = row
    BY <1>3 DEF OwnerSyncs, SyncedBasket
  <2>2. QED
    BY <1>sync, <2>1
<1>4. ASSUME NEW t \in Token, OwnerIngests(t)
      PROVE  Entries /\ Rows
  <2>1. PICK passes \in BOOLEAN : followUp' = [followUp EXCEPT ![t] = Ingested("owner", FALSE, passes)]
    BY <1>4 DEF OwnerIngests
  <2>2. Ingested("owner", FALSE, passes).by = "owner"
    BY DEF Ingested
  <2>3. QED
    BY <1>4, <1>types, <2>1, <2>2 DEF OwnerIngests, StoreTypes
<1>5. ASSUME NEW t \in Token, OwnerVerifies(t)
      PROVE  Entries /\ Rows
  <2>1. PICK verified \in BOOLEAN : followUp' = [followUp EXCEPT ![t].secure = verified]
    BY <1>5 DEF OwnerVerifies
  <2>2. followUp[t] \in Entry /\ row' = row
    BY <1>5, <1>entry DEF OwnerVerifies
  <2>3. [followUp[t] EXCEPT !.secure = verified].by = followUp[t].by
    BY <2>2 DEF Entry
  <2>4. QED
    BY <1>5, <1>types, <2>1, <2>2, <2>3 DEF OwnerVerifies, StoreTypes, InBasket
<1>6. ASSUME NEW t \in Token, OwnerAdds(t) \/ OwnerDemotes(t) \/ OwnerEnables(t)
      PROVE  Entries /\ Rows
  <2>1. followUp' = followUp
    BY <1>6 DEF OwnerAdds, OwnerDemotes, OwnerEnables
  <2>2. CASE row' = [row EXCEPT ![t] = [by |-> "owner", enabled |-> TRUE]]
    BY <1>types, <2>1, <2>2 DEF StoreTypes
  <2>3. CASE row' = [row EXCEPT ![t] = Absent]
    BY <1>types, <2>1, <2>3 DEF StoreTypes
  <2>4. CASE row[t] # Absent /\ \E b \in BOOLEAN : row' = [row EXCEPT ![t].enabled = b]
    <3>1. PICK b \in BOOLEAN : row' = [row EXCEPT ![t].enabled = b]
      BY <2>4
    <3>2. row[t] \in Row
      BY <2>4, <1>types DEF StoreTypes
    <3>3. [row[t] EXCEPT !.enabled = b].by = row[t].by
      BY <3>2 DEF Row
    <3>4. QED
      BY <2>1, <2>4, <3>1, <3>3, <1>types DEF StoreTypes
  <2>5. QED
    BY <1>6, <2>2, <2>3, <2>4 DEF OwnerAdds, OwnerDemotes, OwnerEnables
<1>7. ASSUME ApplyFollowUp \/ ApplyMain, NEW t \in Token, NEW g \in Target, AddedBySystem(t, g)', ~AddedBySystem(t, g)
      PROVE  /\ doing.op # NoOp /\ Current.token = t /\ Current.target = g
             /\ doing.stage = "TARGET_STORE_APPLIED" /\ ~doing.written
             /\ Written /\ UNCHANGED <<recordVars, duplicate, demoted>>
  <2>1. CASE ApplyFollowUp
    <3>1. PICK e : followUp' = IF InBasket(Current.token) THEN followUp ELSE [followUp EXCEPT ![Current.token] = e]
      BY <2>1 DEF ApplyFollowUp
    <3>2. row' = row /\ Current.target = "FOLLOW_UP"
      BY <2>1 DEF ApplyFollowUp
    <3>3. g = "FOLLOW_UP" /\ Current.token = t
      BY <1>7, <3>1, <3>2, <1>types DEF AddedBySystem, InBasket, StoreTypes, Target
    <3>4. QED
      BY <2>1, <3>2, <3>3 DEF ApplyFollowUp, Writes
  <2>2. CASE ApplyMain
    <3>1. followUp' = followUp /\ Current.target = "MAIN_RADAR"
      BY <2>2 DEF ApplyMain
    <3>2. row' # row /\ g = "MAIN_RADAR"
      BY <1>7, <3>1 DEF AddedBySystem, InBasket, Target
    <3>3. row' = [row EXCEPT ![Current.token] = [by |-> "system", enabled |-> TRUE]] /\ Written /\ UNCHANGED duplicate
      BY <2>2, <3>2 DEF ApplyMain
    <3>4. Current.token = t
      BY <1>7, <3>2, <3>3, <1>types DEF AddedBySystem, StoreTypes
    <3>5. QED
      BY <2>2, <3>1, <3>2, <3>3, <3>4 DEF ApplyMain, Writes
  <2>3. QED
    BY <1>7, <2>1, <2>2
<1>8. UNCHANGED <<followUp, row>> => Entries /\ Rows
  OBVIOUS
<1>9. \/ Recheck \/ SyncFollowUp \/ OwnerSyncs \/ ApplyFollowUp \/ ApplyMain \/ UNCHANGED <<followUp, row>>
      \/ \E t \in Token : OwnerIngests(t) \/ OwnerVerifies(t) \/ OwnerAdds(t) \/ OwnerDemotes(t) \/ OwnerEnables(t)
  BY DEF Next, Cycle, Collect, Recover, Promote, Operate, Owner, BeginCycle, TakeLock,
     RecoverNext,
     RecoveryEnds, ReadStores, SortInbox, PlanFollowUp, FollowUpEnds, PlanMain, EndCycle,
     SetInbox, AppendAudit, AdvanceJournal, Fail, FindsLocked, Throws, Crash, OwnerLeavesLock, OwnerBootstraps, Elapse, Ends,
     OwnerActs, vars
<1> HIDE DEF Entries, Rows
<1>10. CASE ApplyFollowUp \/ ApplyMain
  BY <1>7, <1>10
<1>11. CASE ~(ApplyFollowUp \/ ApplyMain)
  BY <1>both, <1>1, <1>2, <1>3, <1>4, <1>5, <1>6, <1>8, <1>9, <1>11
<1>12. QED
  BY <1>10, <1>11

(* Nobody but the owner disables or removes a row.                         *)
LEMMA SystemRowStep ==
    ASSUME Types, SystemRowInv, [Next]_vars
    PROVE  SystemRowInv'
PROOF
<1> USE DEF storeVars, recordVars, lockVars, readVars, recheckVars, countVars, runVars
<1>types. StoreTypes
  BY DEF Types
<1> USE DEF SystemRowInv, AddedBySystem, Enabled
<1>1. ASSUME ApplyMain
      PROVE  SystemRowInv'
  BY <1>1, <1>types DEF ApplyMain, StoreTypes
<1>2. ASSUME NEW t \in Token, OwnerAdds(t)
      PROVE  SystemRowInv'
  BY <1>2, <1>types DEF OwnerAdds, OwnerActs, StoreTypes
<1>3. ASSUME NEW t \in Token, OwnerDemotes(t)
      PROVE  SystemRowInv'
  BY <1>3, <1>types DEF OwnerDemotes, OwnerActs, StoreTypes
<1>4. ASSUME NEW t \in Token, OwnerEnables(t)
      PROVE  SystemRowInv'
  <2>1. row[t] \in Row
    BY <1>4, <1>types DEF OwnerEnables, StoreTypes
  <2>2. [row[t] EXCEPT !.enabled = TRUE].enabled
    BY <2>1 DEF Row
  <2>3. \A u \in Token : u # t => row'[u] = row[u]
    BY <1>4, <1>types DEF OwnerEnables, StoreTypes
  <2>4. row'[t].enabled /\ demoted' = demoted
    BY <1>4, <1>types, <2>2 DEF OwnerEnables, StoreTypes
  <2>5. QED
    BY <2>3, <2>4
<1>5. UNCHANGED <<row, demoted>> => SystemRowInv'
  OBVIOUS
<1>6. QED
  BY <1>1, <1>2, <1>3, <1>4, <1>5
  DEF Next, Cycle, Collect, Recover, Promote, Operate, Owner, BeginCycle, Recheck, TakeLock, RecoverNext,
     RecoveryEnds, ReadStores, SortInbox, PlanFollowUp, FollowUpEnds, PlanMain, EndCycle, ApplyFollowUp,
     SyncFollowUp, SetInbox, AppendAudit, AdvanceJournal, Fail, FindsLocked, Throws, Crash, OwnerLeavesLock, OwnerSyncs,
     OwnerBootstraps, OwnerIngests, OwnerVerifies, Elapse, Ends, OwnerActs, vars

(* An operation that is to tell of what the system has added goes on to    *)
(* do so: the recovery finds its target, and never closes it untold.       *)
LEMMA PendingStep ==
    ASSUME Types, HandInv, OperationInv, SystemRowInv, [Next]_vars,
           NEW o \in Op, Pending(o),
           journal[o].token \notin demoted, AddedBySystem(journal[o].token, journal[o].target)
    PROVE  Applied(o)' \/ Pending(o)'
PROOF
<1> USE DEF storeVars, recordVars, lockVars, readVars, recheckVars, countVars, runVars
<1>types. StoreTypes /\ RunTypes /\ RecordTypes /\ ReadTypes
  BY DEF Types
<1>idle. place \notin {"recovering", "followUp", "main"} => doing.op = NoOp
  BY DEF HandInv
<1>open. journal' = journal => Open(o)'
  BY DEF Pending, Open
<1>still. UNCHANGED <<recordVars, runVars>> => Pending(o)'
  BY <1>open DEF Pending
<1> USE DEF Pending
<1>1. ASSUME BeginCycle
     PROVE  Applied(o)' \/ Pending(o)'
  BY <1>1, <1>types, <1>idle, <1>open DEF BeginCycle
<1>2. ASSUME Recheck
     PROVE  Applied(o)' \/ Pending(o)'
  BY <1>2, <1>types, <1>idle, <1>open DEF Recheck
<1>3. ASSUME TakeLock
     PROVE  Applied(o)' \/ Pending(o)'
  BY <1>3, <1>types, <1>idle, <1>open DEF TakeLock, Ends, Nothing, NoOp, Op
<1>4. ASSUME RecoverNext
     PROVE  Applied(o)' \/ Pending(o)'
  <2>1. PICK p \in todo : doing' = Recovery(p)
    BY <1>4 DEF RecoverNext
  <2>2. UNCHANGED recordVars /\ ~duplicate'
    BY <1>4 DEF RecoverNext
  <2>3. Present(o)
    <3>1. journal[o].target \in Target /\ journal[o].token \in Token
      BY <1>types DEF RecordTypes, Open, Operation
    <3>2. CASE journal[o].target = "FOLLOW_UP"
      BY <3>2 DEF Present, AddedBySystem
    <3>3. CASE journal[o].target = "MAIN_RADAR"
      BY <3>1, <3>3 DEF Present, SystemRowInv
    <3>4. QED
      BY <3>1, <3>2, <3>3 DEF Target
  <2>4. doing'.op = o => doing'.stage = "TARGET_STORE_APPLIED" /\ doing'.written
    BY <2>1, <2>3 DEF Recovery, Nothing, NoOp, Op
  <2>5. QED
    BY <2>2, <2>4, <1>open
<1>5. ASSUME RecoveryEnds
     PROVE  Applied(o)' \/ Pending(o)'
  BY <1>5, <1>types, <1>idle, <1>open DEF RecoveryEnds
<1>6. ASSUME ReadStores
     PROVE  Applied(o)' \/ Pending(o)'
  BY <1>6, <1>types, <1>idle, <1>open DEF ReadStores
<1>7. ASSUME SortInbox
     PROVE  Applied(o)' \/ Pending(o)'
  BY <1>7, <1>types, <1>idle, <1>open DEF SortInbox
<1>8. ASSUME PlanFollowUp
     PROVE  Applied(o)' \/ Pending(o)'
  <2>1. audit' = audit /\ ((journal' = journal /\ doing' = doing) \/ \E t \in Token : Plan(t, "FOLLOW_UP"))
    BY <1>8, <1>types DEF PlanFollowUp, RunTypes
  <2>2. CASE journal' = journal /\ doing' = doing
    BY <1>8, <2>1, <2>2, <1>open DEF PlanFollowUp, Nothing, NoOp, Op
  <2>3. CASE \E t \in Token : Plan(t, "FOLLOW_UP")
    <3>1. PICK p \in Op :
             /\ journal[p] = Absent /\ doing'.op = p
             /\ \A q \in Op \ {p} : journal'[q] = journal[q]
      BY <2>3, <1>types, PlanShape DEF Target
    <3>2. p # o
      BY <3>1 DEF Open
    <3>3. Open(o)'
      BY <3>1, <3>2 DEF Open
    <3>4. QED
      BY <2>1, <3>1, <3>2, <3>3
  <2>4. QED
    BY <2>1, <2>2, <2>3
<1>9. ASSUME FollowUpEnds
     PROVE  Applied(o)' \/ Pending(o)'
  BY <1>9, <1>types, <1>idle, <1>open DEF FollowUpEnds
<1>10. ASSUME PlanMain
     PROVE  Applied(o)' \/ Pending(o)'
  <2>1. audit' = audit /\ ((journal' = journal /\ doing' = doing) \/ \E t \in Token : Plan(t, "MAIN_RADAR"))
    BY <1>10, <1>types DEF PlanMain, RunTypes
  <2>2. CASE journal' = journal /\ doing' = doing
    BY <1>10, <2>1, <2>2, <1>open DEF PlanMain, Nothing, NoOp, Op
  <2>3. CASE \E t \in Token : Plan(t, "MAIN_RADAR")
    <3>1. PICK p \in Op :
             /\ journal[p] = Absent /\ doing'.op = p
             /\ \A q \in Op \ {p} : journal'[q] = journal[q]
      BY <2>3, <1>types, PlanShape DEF Target
    <3>2. p # o
      BY <3>1 DEF Open
    <3>3. Open(o)'
      BY <3>1, <3>2 DEF Open
    <3>4. QED
      BY <2>1, <3>1, <3>2, <3>3
  <2>4. QED
    BY <2>1, <2>2, <2>3
<1>11. ASSUME EndCycle
     PROVE  Applied(o)' \/ Pending(o)'
  BY <1>11, <1>types, <1>idle, <1>open DEF EndCycle, Ends, Nothing, NoOp, Op
<1>12. ASSUME ApplyFollowUp
     PROVE  Applied(o)' \/ Pending(o)'
  <2>1. doing.op # o /\ UNCHANGED recordVars
    BY <1>12 DEF ApplyFollowUp, Writes
  <2>2. doing'.op # o
    BY <1>12, <2>1, <1>types DEF ApplyFollowUp, Written, Ends, Nothing, RunTypes, NoOp, Op
  <2>3. QED
    BY <2>1, <2>2, <1>open
<1>13. ASSUME ApplyMain
     PROVE  Applied(o)' \/ Pending(o)'
  <2>1. doing.op # o /\ UNCHANGED recordVars
    BY <1>13 DEF ApplyMain, Writes
  <2>2. doing'.op # o
    BY <1>13, <2>1, <1>types DEF ApplyMain, Written, Ends, Nothing, RunTypes, NoOp, Op
  <2>3. QED
    BY <2>1, <2>2, <1>open
<1>14. ASSUME SyncFollowUp
     PROVE  Applied(o)' \/ Pending(o)'
  <2>1. doing.op # NoOp /\ ~doing.written /\ doing.stage # "TARGET_STORE_APPLIED"
    BY <1>14 DEF SyncFollowUp, Writes
  <2>2. UNCHANGED <<recordVars, duplicate>> /\ doing'.op = doing.op /\ doing'.stage = doing.stage
    BY <1>14, <1>types DEF SyncFollowUp, Written, RunTypes
  <2>3. QED
    BY <2>1, <2>2, <1>open
<1>15. ASSUME SetInbox
     PROVE  Applied(o)' \/ Pending(o)'
  <2>1. doing.op # NoOp /\ ~doing.written /\ doing.stage # "TARGET_STORE_APPLIED"
    BY <1>15 DEF SetInbox, Writes
  <2>2. UNCHANGED <<recordVars, duplicate>> /\ doing'.op = doing.op /\ doing'.stage = doing.stage
    BY <1>15, <1>types DEF SetInbox, Written, RunTypes
  <2>3. QED
    BY <2>1, <2>2, <1>open
<1>16. ASSUME AppendAudit
     PROVE  Applied(o)' \/ Pending(o)'
  <2>1. doing.op # NoOp /\ doing.stage = "AUDIT_APPLIED" /\ journal' = journal /\ duplicate' = duplicate
    BY <1>16 DEF AppendAudit, Writes
  <2>2. doing'.op = doing.op /\ doing'.stage = doing.stage
    BY <1>16, <1>types DEF AppendAudit, Written, RunTypes
  <2>3. CASE doing.op = o
    <3>1. audit' = [audit EXCEPT ![o] = "APPLIED"]
      BY <1>16, <2>3 DEF AppendAudit
    <3>2. QED
      BY <3>1, <1>types DEF RecordTypes, Applied
  <2>4. CASE doing.op # o
    <3>1. audit'[o] = audit[o]
      BY <2>4, AuditStep
    <3>2. QED
      BY <2>1, <2>2, <2>4, <3>1, <1>open
  <2>5. QED
    BY <2>3, <2>4
<1>17. ASSUME AdvanceJournal
     PROVE  Applied(o)' \/ Pending(o)'
  <2>1. PICK p \in Op :
           /\ doing.op = p /\ doing.written
           /\ \A q \in Op \ {p} : journal'[q] = journal[q]
           /\ doing.stage = "COMMITTED" => doing' = Nothing
           /\ doing.stage # "COMMITTED" =>
                  /\ Open(p)' /\ doing'.op = p
                  /\ doing'.stage \in {"FOLLOW_UP_SYNCED", "NEW_INBOX_APPLIED", "AUDIT_APPLIED", "COMMITTED"}
                  /\ doing'.stage = "COMMITTED" <=> doing.stage = "AUDIT_APPLIED"
    BY <1>17, AdvanceShape
  <2>2. UNCHANGED <<audit, duplicate>>
    BY <1>17 DEF AdvanceJournal
  <2>3. CASE p = o
    <3>1. doing.stage # "COMMITTED" /\ ~duplicate
      BY <2>1, <2>3
    <3>2. doing.stage # "AUDIT_APPLIED"
      BY <2>1, <2>3 DEF OperationInv, NoOp, Op
    <3>3. QED
      BY <2>1, <2>2, <2>3, <3>1, <3>2
  <2>4. CASE p # o
    <3>1. Open(o)'
      BY <2>1, <2>4 DEF Open
    <3>2. doing'.op # o
      BY <2>1, <2>4 DEF Nothing, NoOp, Op
    <3>3. QED
      BY <2>2, <3>1, <3>2
  <2>5. QED
    BY <2>3, <2>4
<1>18. ASSUME Throws
     PROVE  Applied(o)' \/ Pending(o)'
  BY <1>18, <1>types, <1>idle, <1>open DEF Throws, Ends, Nothing, NoOp, Op
<1>19. ASSUME Crash
     PROVE  Applied(o)' \/ Pending(o)'
  BY <1>19, <1>types, <1>idle, <1>open DEF Crash, Ends, Nothing, NoOp, Op
<1>20. QED
  BY <1>1, <1>2, <1>3, <1>4, <1>5, <1>6, <1>7, <1>8, <1>9, <1>10, <1>11, <1>12, <1>13, <1>14,
     <1>15, <1>16, <1>17, <1>18, <1>19, <1>still
  DEF Next, Cycle, Fail, FindsLocked, Collect, Recover, Promote, Operate, Owner, OwnerLeavesLock, OwnerSyncs, OwnerBootstraps,
     OwnerIngests, OwnerVerifies, OwnerAdds, OwnerDemotes, OwnerEnables, Elapse, Ends, OwnerActs,
     vars, storeVars, recordVars, readVars, recheckVars, countVars, runVars

(* What the system has added is told, or an open operation is to tell it.  *)
LEMMA WitnessStep ==
    ASSUME Types, HandInv, OperationInv, SystemRowInv, WitnessInv, [Next]_vars
    PROVE  WitnessInv'
PROOF
<1>types. RunTypes /\ RecordTypes
  BY DEF Types
<1>1. SUFFICES ASSUME NEW t \in Token, NEW g \in Target, t \notin demoted', AddedBySystem(t, g)'
               PROVE  \E o \in Op : Tells(o, t, g)' /\ (Applied(o)' \/ Pending(o)')
  BY DEF WitnessInv
<1>2. CASE AddedBySystem(t, g)
  <2>1. t \notin demoted
    BY <1>1, DemotedStep
  <2>2. PICK o \in Op : Tells(o, t, g) /\ (Applied(o) \/ Pending(o))
    BY <1>2, <2>1 DEF WitnessInv
  <2>3. Tells(o, t, g)'
    BY <2>2, JournalStep DEF Tells
  <2>4. CASE Applied(o)
    <3>1. audit'[o] = audit[o]
      BY <2>4, AuditStep DEF AppendAudit, Applied
    <3>2. QED
      BY <2>3, <2>4, <3>1 DEF Applied
  <2>5. CASE Pending(o)
    <3>1. journal[o].token = t /\ journal[o].target = g
      BY <2>2 DEF Tells
    <3>2. Applied(o)' \/ Pending(o)'
      BY <1>2, <2>1, <2>5, <3>1, PendingStep
    <3>3. QED
      BY <2>3, <3>2
  <2>6. QED
    BY <2>2, <2>4, <2>5
<1>3. CASE ~AddedBySystem(t, g)
  <2>1. /\ doing.op # NoOp /\ Current.token = t /\ Current.target = g
        /\ doing.stage = "TARGET_STORE_APPLIED" /\ ~doing.written
        /\ Written /\ UNCHANGED <<recordVars, duplicate, demoted>>
    BY <1>1, <1>3, AddedStep
  <2>2. PICK o \in Op : o = doing.op
    BY <1>types, <2>1 DEF RunTypes
  <2>3. Open(o) /\ ~duplicate /\ audit[o] = "none"
    BY <2>1, <2>2 DEF OperationInv
  <2>4. journal' = journal /\ audit' = audit /\ duplicate' = duplicate
    BY <2>1 DEF recordVars
  <2>5. Open(o)' /\ Tells(o, t, g)'
    BY <2>1, <2>2, <2>3, <2>4 DEF Open, Tells, Current
  <2>6. doing'.op = o /\ doing'.stage = "TARGET_STORE_APPLIED" /\ doing'.written
    BY <1>types, <2>1, <2>2 DEF Written, RunTypes
  <2>7. Pending(o)'
    BY <2>3, <2>4, <2>5, <2>6 DEF Pending
  <2>8. QED
    BY <2>5, <2>7
<1>4. QED
  BY <1>2, <1>3

(* The invariant behind the audit, inductive.                              *)
AuditInv ==
    /\ OperationInv /\ AppliedInv /\ SystemRowInv
    /\ RecoverInv /\ KnownInv /\ BasketInv
    /\ UniqueInv /\ WitnessInv

LEMMA AuditInvariance == Spec => [](IInv /\ AuditInv)
PROOF
<1>1. ASSUME Init PROVE AuditInv
  <2>1. \A o \in Op : ~Open(o) /\ ~Applied(o)
    BY <1>1 DEF Init, Open, Applied
  <2>2. \A t \in Token, g \in Target : ~AddedBySystem(t, g)
    BY <1>1 DEF Init, AddedBySystem, InBasket
  <2>3. doing.op = NoOp /\ place = "idle" /\ \A o \in Op : audit[o] = "none"
    BY <1>1 DEF Init, Nothing
  <2>4. OperationInv /\ AppliedInv /\ RecoverInv /\ KnownInv /\ BasketInv
    BY <2>1, <2>3 DEF OperationInv, AppliedInv, RecoverInv, KnownInv, BasketInv
  <2>5. UniqueInv /\ WitnessInv /\ SystemRowInv
    BY <2>1, <2>2 DEF UniqueInv, WitnessInv, SystemRowInv, Live, Target
  <2>6. QED
    BY <2>4, <2>5 DEF AuditInv
<1>2. ASSUME IInv, AuditInv, [Next]_vars PROVE AuditInv'
  BY <1>2, OperationStep, AppliedStep, SystemRowStep, RecoverStep, KnownStep, BasketStep,
     UniqueStep, WitnessStep
     DEF IInv, AuditInv
<1>3. QED
  BY <1>1, <1>2, Invariance, PTL DEF Spec

(* What a cycle of systemLifecycle.ts has added to the follow-up basket or *)
(* the main radar is told once in the lifecycle audit, or an operation is  *)
(* open that will tell it, wherever the process dies and whoever takes its *)
(* operations up again, unless the owner has taken the row away meanwhile. *)
THEOREM AuditTells == Spec => []AuditMatches
PROOF
<1>1. ASSUME IInv, AuditInv PROVE AuditMatches
  <2>1. SUFFICES ASSUME NEW t \in Token \ demoted, NEW g \in Target
                 PROVE  LET told == {o \in Op : Tells(o, t, g) /\ audit[o] = "APPLIED"}
                        IN  /\ AddedBySystem(t, g) => told # {} \/ \E o \in Op : Tells(o, t, g) /\ Open(o)
                            /\ Cardinality(told) <= 1
    BY DEF AuditMatches
  <2> DEFINE told == {o \in Op : Tells(o, t, g) /\ audit[o] = "APPLIED"}
  <2>2. AddedBySystem(t, g) => told # {} \/ \E o \in Op : Tells(o, t, g) /\ Open(o)
    BY <1>1 DEF AuditInv, WitnessInv, Applied, Pending
  <2>3. \A o, p \in told : o = p
    BY <1>1 DEF AuditInv, UniqueInv, Live, Applied, Same, Tells
  <2>4. Cardinality(told) <= 1
    <3>1. CASE told = {}
      BY <3>1, FS_EmptySet
    <3>2. CASE told # {}
      <4>1. PICK o : told = {o}
        BY <2>3, <3>2
      <4>2. Cardinality(told) = 1
        BY <4>1, FS_Singleton
      <4>3. QED
        BY <4>2
    <3>3. QED
      BY <3>1, <3>2
  <2>5. QED
    BY <2>2, <2>4
<1>2. QED
  BY <1>1, AuditInvariance, PTL
=============================================================================
