---------------------------- MODULE SystemLifecycle ----------------------------
(***************************************************************************)
(* The promotions of a central cycle, systemLifecycle.ts, between three    *)
(* stores that are files of their own: the new inbox, the follow-up basket *)
(* and the established universe (the main radar).  A promotion is planned  *)
(* in the operation journal, and goes store by store; the next cycle takes *)
(* up what an earlier one has left.                                        *)
(*                                                                         *)
(* Every write of a store is a step, so is every write of the journal, and *)
(* each is made under a lock file of its own.  One that a dead process, a  *)
(* failing write or a failing removal leaves is never taken away, and      *)
(* every later write of that store throws; that two writes meet is a step  *)
(* that fails.  A cycle is one process; the owner works beside it.         *)
(* Receipts, counters, the archived and rejected marks (nothing sets them) *)
(* and the limits on the number of entries are left out.                   *)
(*                                                                         *)
(* Bounds: MaxOps journal entries, MaxOwnerActs, MaxFaults (the crashes    *)
(* among them).                                                            *)
(***************************************************************************)
EXTENDS FollowUpBasket, FiniteSets, Sequences

CONSTANTS Token,                    \* the identities, in the order of their keys
          Absent,                   \* no entry
          Disabled,                 \* those of the rows that the owner has disabled at the start
          MaxOps, MaxOwnerActs, MaxFaults

Op == 1..MaxOps
NoOp == 0

Target == {"FOLLOW_UP", "MAIN_RADAR"}
Stages == <<"PLAN_CREATED", "TARGET_STORE_APPLIED", "FOLLOW_UP_SYNCED", "NEW_INBOX_APPLIED",
            "AUDIT_APPLIED", "COMMITTED">>
Stage == {Stages[i] : i \in DOMAIN Stages}

Store == {"inbox", "followUp", "universe", "journal", "audit"}
Silent == {"inbox", "journal", "audit"}     \* a lock that cannot be removed is passed over

Row == [by: {"system", "owner"}, enabled: BOOLEAN]
Operation == [token: Token, target: Target, stage: Stage]

ASSUME LifecycleAssumption ==
    /\ Token \subseteq Nat /\ Disabled \subseteq Token
    /\ Absent \notin Entry \cup Row \cup Operation
    /\ Absent \notin Target \cup {"NEW"}
    /\ {MaxOps, MaxOwnerActs, MaxFaults} \subseteq Nat

VARIABLES
    inbox,          \* system_status in the new inbox
    followUp, age,  \* the follow-up store; how many checkpoints of a token have come
    row,            \* the universe's entry of a token
    demoted,        \* the tokens whose row the owner disables or removes, its audit log
    journal, audit, \* the operation journal; how the lifecycle audit tells a transition
    lock, left,     \* whether the lifecycle lock file exists; the stores whose lock file
                    \* a write has left behind
    place,          \* where the cycle is
    todo,           \* the operations to recover, or the tokens to promote
    doing,          \* the operation in hand and the step it has come to
    duplicate,      \* whether the row was found there already
    universe,       \* the enabled identities as last read
    main, basket,   \* mainIdentities and followUpStore of the cycle
    due, fresh,     \* the entries to recheck; those rechecked in this cycle
    owed,           \* the universe, if any, that an owner's promotion synchronizes the basket with
    acts, faults

storeVars == <<inbox, followUp, row>>
recordVars == <<journal, audit>>
lockVars == <<lock, left>>
readVars == <<universe, main, basket>>
recheckVars == <<due, fresh>>
countVars == <<acts, faults>>
runVars == <<place, todo, doing, duplicate>>
vars == <<storeVars, age, demoted, recordVars, lockVars, runVars, readVars, recheckVars, owed, countVars>>

Locked == {"recovering", "reading", "sorting", "followUp", "main"}

TypeOK ==
    /\ inbox \in [Token -> Target \cup {"NEW", Absent}]
    /\ followUp \in [Token -> Entry \cup {Absent}]
    /\ basket \in [Token -> Entry \cup {Absent}]
    /\ age \in [Token -> Age]
    /\ row \in [Token -> Row \cup {Absent}]
    /\ demoted \subseteq Token
    /\ journal \in [Op -> Operation \cup {Absent}]
    /\ audit \in [Op -> {"none", "APPLIED", "DUPLICATE_NOOP"}]
    /\ lock \in BOOLEAN /\ left \subseteq Store
    /\ place \in {"idle", "collecting", "locking"} \cup Locked
    /\ todo \subseteq IF place = "recovering" THEN Op ELSE Token
    /\ doing \in [op: Op \cup {NoOp}, stage: Stage, written: BOOLEAN]
    /\ doing.op # NoOp => journal[doing.op] # Absent
    /\ duplicate \in BOOLEAN
    /\ {universe, main, due, fresh} \subseteq SUBSET Token
    /\ owed \subseteq SUBSET Token
    /\ acts \in 0..MaxOwnerActs /\ faults \in 0..MaxFaults

InBasket(t) == followUp[t] # Absent
Enabled(t) == row[t] # Absent /\ row[t].enabled
EnabledTokens == {t \in Token : Enabled(t)}
Open(o) == journal[o] # Absent /\ journal[o].stage # "COMMITTED"
Spare == {o \in Op : journal[o] = Absent}

Nothing == [op |-> NoOp, stage |-> "PLAN_CREATED", written |-> FALSE]

Init ==
    /\ inbox = [t \in Token |-> Absent]
    /\ followUp = [t \in Token |-> Absent]
    /\ age = [t \in Token |-> 0]
    /\ row = [t \in Token |-> IF t \in Disabled THEN [by |-> "owner", enabled |-> FALSE] ELSE Absent]
    /\ demoted = {}
    /\ journal = [o \in Op |-> Absent] /\ audit = [o \in Op |-> "none"]
    /\ lock = FALSE /\ left = {}
    /\ place = "idle" /\ todo = {} /\ doing = Nothing /\ duplicate = FALSE
    /\ universe = {} /\ main = {} /\ basket = [t \in Token |-> Absent]
    /\ due = {} /\ fresh = {}
    /\ owed = {}
    /\ acts = 0 /\ faults = 0

(* A store is written under its lock; one of withStoreLock's that cannot be*)
(* removed afterwards stays, and the write has succeeded.                  *)
Unlocked(store) == store \notin left
LeavesLock(store) ==
    /\ Unlocked(store) /\ left' = left \cup {store}
    /\ faults < MaxFaults /\ faults' = faults + 1
Saves(store) == Unlocked(store) /\ (UNCHANGED <<left, faults>> \/ LeavesLock(store))

(* The process ends, and its memory with it.                               *)
Ends ==
    /\ place' = "idle" /\ todo' = {} /\ doing' = Nothing /\ duplicate' = FALSE
    /\ universe' = {} /\ main' = {} /\ basket' = [t \in Token |-> Absent]
    /\ due' = {} /\ fresh' = {}

-----------------------------------------------------------------------------
(* The collector's cycle before the lifecycle: the universe and the due    *)
(* entries are read at its start, the basket is written at its end.        *)
BeginCycle ==
    /\ place = "idle"
    /\ place' = "collecting"
    /\ universe' = EnabledTokens
    /\ due' = {t \in Token : InBasket(t) /\ Due(followUp[t], age[t])}
    /\ fresh' = {}
    /\ UNCHANGED <<storeVars, age, demoted, recordVars, lockVars, todo, doing, duplicate, main, basket, owed, countVars>>

(* A due entry that is left unchecked, because its provider fails or for   *)
(* the limit of rechecks in a cycle, is moved by the synchronization only. *)
(* A checkpoint that comes meanwhile counts as if it had come before.      *)
Recheck ==
    /\ place = "collecting" /\ Unlocked("followUp")
    /\ \E checked \in SUBSET due, passing \in SUBSET due, secure \in SUBSET due :
          /\ secure \subseteq passing /\ passing \subseteq checked
          /\ \/ checked = due /\ UNCHANGED faults
             \/ checked # due /\ faults < MaxFaults /\ faults' = faults + 1
          /\ followUp' = [t \in Token |->
                IF ~InBasket(t) THEN Absent
                ELSE LET e == Synced(followUp[t], age[t], t \in universe)
                     IN  IF t \in checked
                         THEN Rechecked(e, age[t], t \in universe, t \in passing, t \in secure)
                         ELSE e]
          /\ fresh' = checked
    /\ place' = "locking" /\ due' = {}
    /\ UNCHANGED <<inbox, row, age, demoted, recordVars, lockVars, todo, doing, duplicate, readVars, owed, acts>>

(* withStoreLock: after forty attempts the cycle goes on without the       *)
(* lifecycle.                                                              *)
TakeLock ==
    /\ place = "locking"
    /\ \/ /\ ~lock
          /\ lock' = TRUE
          /\ place' = "recovering" /\ todo' = {o \in Op : Open(o)}
          /\ UNCHANGED <<doing, duplicate, readVars, recheckVars>>
       \/ /\ lock
          /\ Ends
          /\ UNCHANGED lock
    /\ UNCHANGED <<storeVars, age, demoted, recordVars, left, owed, countVars>>

-----------------------------------------------------------------------------
(* recoverIncompleteLifecycleOperations: the two stores are read for each  *)
(* operation.  One that was planned and not applied is closed; one whose   *)
(* entry has gone since is left as it is.                                  *)
Present(o) == IF journal[o].target = "FOLLOW_UP" THEN InBasket(journal[o].token) ELSE Enabled(journal[o].token)

(* Mutant of Recovery: the target store is not looked at.                  *)
RecoveryUnseen(o) ==
    IF journal[o].stage # "PLAN_CREATED"
    THEN [op |-> o, stage |-> "TARGET_STORE_APPLIED", written |-> TRUE]
    ELSE [op |-> o, stage |-> "COMMITTED", written |-> TRUE]

(* Mutant of Recovery: only what was planned is recovered.                 *)
RecoveryOfPlanned(o) ==
    IF journal[o].stage # "PLAN_CREATED" THEN Nothing
    ELSE IF Present(o) THEN [op |-> o, stage |-> "TARGET_STORE_APPLIED", written |-> TRUE]
    ELSE [op |-> o, stage |-> "COMMITTED", written |-> TRUE]

(* What the recovery of an operation goes on with.                         *)
Recovery(o) ==
    IF Present(o) THEN [op |-> o, stage |-> "TARGET_STORE_APPLIED", written |-> TRUE]
    ELSE IF journal[o].stage = "PLAN_CREATED" THEN [op |-> o, stage |-> "COMMITTED", written |-> TRUE]
    ELSE Nothing

RecoverNext ==
    /\ place = "recovering" /\ doing = Nothing
    /\ \E o \in todo :
          /\ todo' = todo \ {o}
          /\ doing' = Recovery(o)
    /\ universe' = EnabledTokens
    /\ duplicate' = FALSE
    /\ UNCHANGED <<storeVars, age, demoted, recordVars, lockVars, place, main, basket, recheckVars, owed, countVars>>

RecoveryEnds ==
    /\ place = "recovering" /\ doing = Nothing /\ todo = {}
    /\ place' = "reading"
    /\ UNCHANGED <<storeVars, age, demoted, recordVars, lockVars, todo, doing, duplicate, readVars, recheckVars, owed, countVars>>

ReadStores ==
    /\ place = "reading"
    /\ place' = "sorting"
    /\ basket' = followUp
    /\ universe' = EnabledTokens /\ main' = EnabledTokens
    /\ UNCHANGED <<storeVars, age, demoted, recordVars, lockVars, todo, doing, duplicate, recheckVars, owed, countVars>>

(* updateNewInboxStore: the snapshot's candidates get their status from    *)
(* the stores read before; those that pass the filter and are in none are  *)
(* to be promoted.                                                         *)
SortInbox ==
    /\ place = "sorting" /\ Saves("inbox")
    /\ place' = "followUp"
    /\ \E seen \in SUBSET Token :
          /\ inbox' = [t \in Token |->
                IF t \notin seen THEN inbox[t]
                ELSE IF t \in main THEN "MAIN_RADAR"
                ELSE IF basket[t] # Absent THEN "FOLLOW_UP"
                ELSE IF inbox[t] = Absent THEN "NEW" ELSE inbox[t]]
          /\ todo' \in SUBSET {t \in seen : basket[t] = Absent /\ t \notin main}
    /\ Cardinality(todo') <= Cardinality(Spare)
    /\ UNCHANGED <<followUp, row, age, demoted, recordVars, lock, doing, duplicate, readVars, recheckVars, owed, acts>>

-----------------------------------------------------------------------------
(* Mutant of Plan: the operation begins with the inbox.                    *)
PlanInboxFirst(t, target) ==
    \E o \in Spare :
        /\ \A p \in Spare : o <= p
        /\ Saves("journal")
        /\ journal' = [journal EXCEPT ![o] = [token |-> t, target |-> target, stage |-> "PLAN_CREATED"]]
        /\ doing' = [op |-> o, stage |-> "NEW_INBOX_APPLIED", written |-> FALSE]

(* createLifecycleOperationJournal.                                        *)
Plan(t, target) ==
    \E o \in Spare :
        /\ \A p \in Spare : o <= p
        /\ Saves("journal")
        /\ journal' = [journal EXCEPT ![o] = [token |-> t, target |-> target, stage |-> "PLAN_CREATED"]]
        /\ doing' = [op |-> o, stage |-> "TARGET_STORE_APPLIED", written |-> FALSE]

PlanFollowUp ==
    /\ place = "followUp" /\ doing = Nothing
    /\ \E t \in todo :
          /\ todo' = todo \ {t}
          /\ IF basket[t] # Absent THEN UNCHANGED <<journal, doing, left, faults>> ELSE Plan(t, "FOLLOW_UP")
    /\ duplicate' = FALSE
    /\ UNCHANGED <<storeVars, age, demoted, audit, lock, place, readVars, recheckVars, owed, acts>>

(* The latest manual verification may still forbid what is promotable.     *)
FollowUpEnds ==
    /\ place = "followUp" /\ doing = Nothing /\ todo = {}
    /\ place' = "main"
    /\ todo' \in SUBSET {t \in fresh \ main : basket[t] # Absent /\ Promotable(basket[t])}
    /\ Cardinality(todo') <= Cardinality(Spare)
    /\ UNCHANGED <<storeVars, age, demoted, recordVars, lockVars, doing, duplicate, readVars, recheckVars, owed, countVars>>

(* The entries are promoted in the order of their identities.              *)
PlanMain ==
    /\ place = "main" /\ doing = Nothing
    /\ \E t \in todo :
          /\ \A u \in todo : t <= u
          /\ todo' = todo \ {t}
          /\ Plan(t, "MAIN_RADAR")
    /\ duplicate' = FALSE
    /\ UNCHANGED <<storeVars, age, demoted, audit, lock, place, readVars, recheckVars, owed, acts>>

EndCycle ==
    /\ place = "main" /\ doing = Nothing /\ todo = {}
    /\ Ends /\ lock' = FALSE
    /\ UNCHANGED <<storeVars, age, demoted, recordVars, left, owed, countVars>>

-----------------------------------------------------------------------------
(* The operation in hand: a store is written, then the journal's stage.    *)
Current == journal[doing.op]
Writes(stage) == doing.op # NoOp /\ ~doing.written /\ doing.stage = stage
Written == doing' = [doing EXCEPT !.written = TRUE]

(* An entry that the owner has put there meanwhile was seen later than the *)
(* snapshot, and stays.                                                    *)
ApplyFollowUp ==
    /\ Writes("TARGET_STORE_APPLIED") /\ Current.target = "FOLLOW_UP"
    /\ Unlocked("followUp")
    /\ followUp' = IF InBasket(Current.token) THEN followUp
                   ELSE [followUp EXCEPT ![Current.token] = Ingested("system", Current.token \in universe, TRUE)]
    /\ age' = IF InBasket(Current.token) THEN age ELSE [age EXCEPT ![Current.token] = 0]
    /\ basket' = followUp'
    /\ Written
    /\ UNCHANGED <<inbox, row, demoted, recordVars, lockVars, place, todo, duplicate, universe, main, recheckVars, owed, countVars>>

(* mutateEstablishedUniverse add: a row that is there and enabled is taken *)
(* for the promotion; one that is disabled makes the cycle throw.          *)
ApplyMain ==
    /\ Writes("TARGET_STORE_APPLIED") /\ Current.target = "MAIN_RADAR"
    /\ Unlocked("universe")
    /\ \/ /\ row[Current.token] = Absent
          /\ row' = [row EXCEPT ![Current.token] = [by |-> "system", enabled |-> TRUE]]
          /\ Written
          /\ UNCHANGED <<lock, place, todo, duplicate, readVars, recheckVars>>
       \/ /\ Enabled(Current.token)
          /\ duplicate' = TRUE
          /\ Written
          /\ UNCHANGED <<row, lock, place, todo, readVars, recheckVars>>
       \/ /\ row[Current.token] # Absent /\ ~Enabled(Current.token)
          /\ Ends /\ lock' = FALSE
          /\ UNCHANGED row
    /\ UNCHANGED <<inbox, followUp, age, demoted, recordVars, left, owed, countVars>>

SyncFollowUp ==
    /\ Writes("FOLLOW_UP_SYNCED") /\ Unlocked("followUp")
    /\ followUp' = [t \in Token |-> IF InBasket(t) THEN Synced(followUp[t], age[t], t \in universe) ELSE Absent]
    /\ basket' = followUp'
    /\ Written
    /\ UNCHANGED <<inbox, row, age, demoted, recordVars, lockVars, place, todo, duplicate, universe, main, recheckVars, owed, countVars>>

(* setInboxLifecycleStatus: a token that is not in the inbox stays out.    *)
SetInbox ==
    /\ Writes("NEW_INBOX_APPLIED") /\ Saves("inbox")
    /\ inbox' = IF inbox[Current.token] = Absent THEN inbox
                ELSE [inbox EXCEPT ![Current.token] = Current.target]
    /\ Written
    /\ UNCHANGED <<followUp, row, age, demoted, recordVars, lock, place, todo, duplicate, readVars, recheckVars, owed, acts>>

(* appendLifecycleAudit: a transition that is told already is not told     *)
(* again.                                                                  *)
AppendAudit ==
    /\ Writes("AUDIT_APPLIED") /\ Saves("audit")
    /\ audit' = IF audit[doing.op] # "none" THEN audit
                ELSE [audit EXCEPT ![doing.op] = IF duplicate THEN "DUPLICATE_NOOP" ELSE "APPLIED"]
    /\ Written
    /\ UNCHANGED <<storeVars, age, demoted, journal, lock, place, todo, duplicate, readVars, recheckVars, owed, acts>>

(* What follows a stage; nothing is written for the last one.              *)
Following(target, stage) ==
    CASE stage = "TARGET_STORE_APPLIED" /\ target = "MAIN_RADAR" -> "FOLLOW_UP_SYNCED"
      [] stage = "TARGET_STORE_APPLIED" /\ target = "FOLLOW_UP" -> "NEW_INBOX_APPLIED"
      [] stage = "FOLLOW_UP_SYNCED" -> "NEW_INBOX_APPLIED"
      [] stage = "NEW_INBOX_APPLIED" -> "AUDIT_APPLIED"
      [] stage = "AUDIT_APPLIED" -> "COMMITTED"

Rank(stage) == CHOOSE i \in DOMAIN Stages : Stages[i] = stage

(* updateLifecycleOperationJournalStage, which a recovery calls only to go *)
(* forward.  The synchronization of a promotion reads the universe anew.   *)
AdvanceJournal ==
    /\ doing.op # NoOp /\ doing.written
    /\ IF Rank(doing.stage) <= Rank(Current.stage)
       THEN UNCHANGED <<journal, left, faults>>
       ELSE Saves("journal") /\ journal' = [journal EXCEPT ![doing.op].stage = doing.stage]
    /\ IF doing.stage = "COMMITTED"
       THEN /\ doing' = Nothing
            /\ main' = IF place = "main" THEN main \cup {Current.token} ELSE main
       ELSE LET stage == Following(Current.target, doing.stage)
            IN  /\ doing' = [doing EXCEPT !.stage = stage, !.written = stage = "COMMITTED"]
                /\ UNCHANGED main
    /\ universe' = IF place = "main" /\ doing.stage = "TARGET_STORE_APPLIED" THEN EnabledTokens ELSE universe
    /\ UNCHANGED <<storeVars, age, demoted, audit, lock, place, todo, duplicate, basket, recheckVars, owed, acts>>

Operate == ApplyFollowUp \/ ApplyMain \/ SyncFollowUp \/ SetInbox \/ AppendAudit \/ AdvanceJournal

-----------------------------------------------------------------------------
(* The stores that the cycle writes next, or has just written: where it can*)
(* stop with the lock in its hands.                                        *)
StoreOf(stage, target) ==
    CASE stage = "TARGET_STORE_APPLIED" -> IF target = "FOLLOW_UP" THEN "followUp" ELSE "universe"
      [] stage = "FOLLOW_UP_SYNCED" -> "followUp"
      [] stage = "NEW_INBOX_APPLIED" -> "inbox"
      [] stage = "AUDIT_APPLIED" -> "audit"
      [] stage = "COMMITTED" -> "journal"
Moves == doing.op # NoOp /\ doing.written /\ Rank(doing.stage) > Rank(Current.stage)
Wanted ==
    CASE place = "collecting" -> {"followUp"}
      [] place = "sorting" -> {"inbox"}
      [] doing.op # NoOp /\ ~doing.written -> {StoreOf(doing.stage, Current.target)}
      [] Moves \/ (doing.op = NoOp /\ place = "main" /\ todo # {}) -> {"journal"}
      [] doing.op = NoOp /\ place = "followUp" /\ \E t \in todo : basket[t] = Absent -> {"journal"}
      [] OTHER -> {}
InHand == Wanted \cup IF Moves THEN {StoreOf(doing.stage, Current.target)} ELSE {}

(* A step that throws: the collector goes on without the lifecycle.        *)
Throws ==
    /\ place \in Locked \cup {"collecting"}
    /\ Ends
    /\ lock' = IF place \in Locked THEN FALSE ELSE lock
    /\ UNCHANGED <<storeVars, age, demoted, recordVars, owed, acts>>

(* The lock files of the basket and of the universe also stay when they    *)
(* cannot be filled or removed.                                            *)
Fail ==
    /\ faults < MaxFaults /\ faults' = faults + 1
    /\ Throws
    /\ \/ UNCHANGED left
       \/ \E store \in InHand \ Silent : left' = left \cup {store}

FindsLocked == Wanted \cap left # {} /\ Throws /\ UNCHANGED <<left, faults>>

(* The locks of a process that dies stay.                                  *)
Crash ==
    /\ faults < MaxFaults /\ place # "idle"
    /\ faults' = faults + 1
    /\ Ends
    /\ \/ UNCHANGED left
       \/ \E store \in InHand : left' = left \cup {store}
    /\ UNCHANGED <<storeVars, age, demoted, recordVars, lock, owed, acts>>

(* A checkpoint of a token comes.                                          *)
Elapse(t) ==
    /\ InBasket(t) /\ age[t] < Checkpoints
    /\ age' = [age EXCEPT ![t] = @ + 1]
    /\ UNCHANGED <<storeVars, demoted, recordVars, lockVars, runVars, readVars, recheckVars, owed, countVars>>

-----------------------------------------------------------------------------
(* The owner, from the console and in the product.                         *)
(* The owner's console or the product dies in a write, or fails to fill or *)
(* to remove its lock.                                                     *)
OwnerLeavesLock ==
    /\ acts < MaxOwnerActs /\ acts' = acts + 1
    /\ \E store \in {"inbox", "followUp", "universe"} : LeavesLock(store)
    /\ UNCHANGED <<storeVars, age, demoted, recordVars, lock, runVars, readVars, recheckVars, owed>>

OwnerActs ==
    /\ acts < MaxOwnerActs
    /\ acts' = acts + 1
    /\ UNCHANGED <<recordVars, lockVars, runVars, readVars, recheckVars, faults>>

(* addToFollowUp, which takes no notice of the universe.                   *)
OwnerIngests(t) ==
    /\ OwnerActs /\ Unlocked("followUp")
    /\ ~InBasket(t)
    /\ \E passes \in BOOLEAN : followUp' = [followUp EXCEPT ![t] = Ingested("owner", FALSE, passes)]
    /\ age' = [age EXCEPT ![t] = 0]
    /\ UNCHANGED <<inbox, row, demoted, owed>>

(* saveVerification.                                                       *)
OwnerVerifies(t) ==
    /\ OwnerActs /\ Unlocked("followUp")
    /\ InBasket(t)
    /\ \E verified \in BOOLEAN : followUp' = [followUp EXCEPT ![t].secure = verified]
    /\ UNCHANGED <<inbox, row, age, demoted, owed>>

(* promote, one at a time, or the console's add, which leaves the basket   *)
(* to the next cycle.                                                      *)
OwnerAdds(t) ==
    /\ OwnerActs /\ Unlocked("universe")
    /\ row[t] = Absent
    /\ row' = [row EXCEPT ![t] = [by |-> "owner", enabled |-> TRUE]]
    /\ \/ UNCHANGED owed
       \/ owed = {} /\ owed' = {EnabledTokens \cup {t}}
    /\ UNCHANGED <<inbox, followUp, age, demoted>>

(* syncFollowUpMembership: the promotion goes on where it fails.           *)
OwnerSyncs ==
    /\ \E u \in owed :
          \/ UNCHANGED followUp
          \/ /\ Unlocked("followUp")
             /\ followUp' = [t \in Token |->
                    IF InBasket(t) THEN Synced(followUp[t], age[t], t \in u) ELSE Absent]
    /\ owed' = {}
    /\ UNCHANGED <<left, faults>> \/ LeavesLock("followUp")
    /\ UNCHANGED <<inbox, row, age, demoted, recordVars, lock, runVars, readVars, recheckVars, acts>>

(* The console's disable, remove and enable.                               *)
OwnerDemotes(t) ==
    /\ OwnerActs /\ Unlocked("universe")
    /\ row[t] # Absent
    /\ \/ row' = [row EXCEPT ![t] = Absent]
       \/ Enabled(t) /\ row' = [row EXCEPT ![t].enabled = FALSE]
    /\ demoted' = demoted \cup {t}
    /\ UNCHANGED <<inbox, followUp, age, owed>>

OwnerEnables(t) ==
    /\ OwnerActs /\ Unlocked("universe")
    /\ row[t] # Absent /\ ~Enabled(t)
    /\ row' = [row EXCEPT ![t].enabled = TRUE]
    /\ UNCHANGED <<inbox, followUp, age, demoted, owed>>

(* bootstrapLifecycleReview, which puts what is new into the inbox.        *)
OwnerBootstraps ==
    /\ OwnerActs /\ Unlocked("inbox")
    /\ \E seen \in SUBSET {t \in Token : inbox[t] = Absent} :
          inbox' = [t \in Token |-> IF t \in seen THEN "NEW" ELSE inbox[t]]
    /\ UNCHANGED <<followUp, row, age, demoted, owed>>

Owner ==
    \/ OwnerBootstraps \/ OwnerSyncs \/ OwnerLeavesLock
    \/ \E t \in Token : OwnerIngests(t) \/ OwnerVerifies(t) \/ OwnerAdds(t) \/ OwnerDemotes(t) \/ OwnerEnables(t)

Collect == BeginCycle \/ Recheck \/ TakeLock
Recover == RecoverNext \/ RecoveryEnds
Promote == ReadStores \/ SortInbox \/ PlanFollowUp \/ FollowUpEnds \/ PlanMain \/ EndCycle
Cycle == Collect \/ Recover \/ Promote \/ Operate \/ FindsLocked

Next == Cycle \/ Fail \/ Crash \/ Owner \/ \E t \in Token : Elapse(t)

Spec == Init /\ [][Next]_vars

(* Cycles come again and go on, and checkpoints come; nobody deletes a     *)
(* lock.                                                                   *)
CycleSpec == Spec /\ WF_vars(Cycle)
FairSpec == CycleSpec /\ \A t \in Token : WF_vars(Elapse(t))

-----------------------------------------------------------------------------
(* The inbox is never ahead of the store it names: the target store is     *)
(* written first, and only the owner takes a row away.                     *)
InboxFollows ==
    \A t \in Token :
        /\ inbox[t] = "FOLLOW_UP" => InBasket(t)
        /\ inbox[t] = "MAIN_RADAR" => Enabled(t) \/ t \in demoted

(* What the system itself has added is told in the audit once no operation *)
(* is open for it, and told once, unless the owner came between.           *)
AddedBySystem(t, target) ==
    IF target = "FOLLOW_UP" THEN InBasket(t) /\ followUp[t].by = "system"
    ELSE row[t] # Absent /\ row[t].by = "system"
Tells(o, t, target) == journal[o] # Absent /\ journal[o].token = t /\ journal[o].target = target
AuditMatches ==
    \A t \in Token \ demoted, target \in Target :
        LET told == {o \in Op : Tells(o, t, target) /\ audit[o] = "APPLIED"}
        IN  /\ AddedBySystem(t, target) => told # {} \/ \E o \in Op : Tells(o, t, target) /\ Open(o)
            /\ Cardinality(told) <= 1

(* Again and again there is nothing that the system has added to a store   *)
(* and not told in the audit: later cycles tell what a crash or a failure  *)
(* has kept one from telling.  An operation that is closed without effect  *)
(* tells nothing; the owner may take the row away before; and a lock file  *)
(* that was left can stop the lifecycle for good.                          *)
Told(t, target) == \E o \in Op : Tells(o, t, target) /\ audit[o] # "none"
Stranded == left # {} \/ (lock /\ place \notin Locked)
AdditionsGetTold ==
    []<>(\/ \A t \in Token \ demoted, target \in Target : AddedBySystem(t, target) => Told(t, target)
         \/ Stranded)

(* A token that matures goes on to be checked until it is a candidate,     *)
(* established or archived.                                                *)
MaturingEnds ==
    \A t \in Token : (InBasket(t) /\ followUp[t].status = "MATURING") ~> (InBasket(t) /\ followUp[t].status # "MATURING")
=============================================================================
