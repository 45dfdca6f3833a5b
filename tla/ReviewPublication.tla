-------------------------- MODULE ReviewPublication --------------------------
(***************************************************************************)
(* The publications of the review runtime, productReviewPublication.ts:    *)
(* createProductReviewPublication and prepareValidateAndPublish.  A        *)
(* revision is prepared from the base, its snapshot written and read back, *)
(* the pointer in automation-state.json moved, and a marker written last;  *)
(* the next one waits until the interface has acknowledged it.             *)
(*                                                                         *)
(* Every status is written to disk through one chain of promises, and what *)
(* awaits a status goes on when the chain has come to it: chain is the     *)
(* sequence of these continuations.  Statuses that nobody awaits, all time *)
(* stamps and the wording of failures are left out.  Revision 0 is the     *)
(* base, and stands for none.                                              *)
(*                                                                         *)
(* Bounds: MaxRevisions publications, MaxFaults failures, of the page's    *)
(* reads too.                                                              *)
(***************************************************************************)
EXTENDS Naturals, Sequences

CONSTANTS Recurring,        \* whether a publication follows the acknowledged one
          MaxAttempts,      \* attempts of a publication, and waits for an acknowledgement
          MaxRevisions, MaxFaults

ASSUME PublicationAssumption ==
    /\ Recurring \in BOOLEAN
    /\ MaxAttempts \in Nat \ {0}
    /\ {MaxRevisions, MaxFaults} \subseteq Nat

VARIABLES
    snapshots, pointer,     \* the snapshots on disk; the one automation-state.json names
    markers,                \* the revisions whose marker has been written to disk
    marker,                 \* the revision served; its marker and snapshot in memory
    held,                   \* whether the base version is held in memory
    stage,                  \* where the publication under way is
    active, attempt,        \* its revision and attempt, kept until it is given up
    nextRevision,
    pending, waits,         \* the revision to be acknowledged, how often that was waited for
    timer,                  \* the scheduled action
    status, target,         \* status and target_run_id of the publication status
    chain,                  \* the continuations that await a status write
    faults                  \* failing steps and reads so far

diskVars == <<snapshots, pointer, markers>>
servedVars == <<marker, held>>
attemptVars == <<active, attempt, nextRevision>>
commitVars == <<pending, waits>>
statusVars == <<status, target>>
publicationVars == <<diskVars, servedVars, stage, attemptVars, commitVars, timer, statusVars, chain>>

Revision == 1..MaxRevisions
Version == 0..MaxRevisions

Timers == {"none", "wait", "retry", "next"}
Statuses == {"WAITING", "PREPARING", "VALIDATING", "PUBLISHING", "PUBLISHED", "RETRY_WAIT", "FAILED"}
Saving == {"preparing", "validating", "publishing", "published", "retrying", "failed"}
Working == {"reading", "verifying", "marking"}
Continuations == {"publication", "wait", "again", "publish", "acknowledged"}

PublicationTypeOK ==
    /\ snapshots \subseteq Revision /\ markers \subseteq Revision
    /\ {pointer, marker, active, pending, target} \subseteq Version
    /\ held \in BOOLEAN
    /\ stage \in {"none"} \cup Saving \cup Working
    /\ attempt \in 0..MaxAttempts /\ waits \in 0..MaxAttempts
    /\ nextRevision \in 1..MaxRevisions + 1
    /\ timer \in Timers
    /\ status \in Statuses
    /\ chain \in Seq(Continuations)
    /\ faults \in 0..MaxFaults

PublicationInit ==
    /\ snapshots = {} /\ pointer = 0 /\ markers = {}
    /\ marker = 0 /\ held = FALSE
    /\ stage = "none"
    /\ active = 0 /\ attempt = 0 /\ nextRevision = 1
    /\ pending = 0 /\ waits = 0
    /\ timer = "next"
    /\ status = "WAITING" /\ target = 0
    /\ chain = <<>>
    /\ faults = 0

(* What GET /api/product/version and GET /api/scanner/latest answer: the   *)
(* scanner's snapshot is the pointer's as long as there is no marker.      *)
ServedVersion == IF marker # 0 THEN marker ELSE IF held THEN 0 ELSE pointer
ServedScanner == IF marker # 0 THEN marker ELSE pointer

(* saveStatus; rest is the chain without the continuation that runs.       *)
SaveStatus(s, continuation, rest) ==
    /\ status' = s
    /\ chain' = Append(rest, continuation)

Resumes(continuation) == chain # <<>> /\ Head(chain) = continuation

-----------------------------------------------------------------------------
(* publishNext, called by a timer or by the owner's request.               *)

(* Mutant of MayPublish: a publication to be acknowledged holds up none.   *)
MayPublishUnconfirmed ==
    /\ stage = "none"
    /\ marker # 0 => Recurring
    /\ active # 0 \/ nextRevision <= MaxRevisions

MayPublish ==
    /\ stage = "none" /\ pending = 0
    /\ marker # 0 => Recurring
    /\ active # 0 \/ nextRevision <= MaxRevisions

StartPublication(rest) ==
    /\ active' = IF active # 0 THEN active ELSE nextRevision
    /\ attempt' = IF active # 0 THEN attempt + 1 ELSE 1
    /\ stage' = "preparing"
    /\ target' = 0
    /\ SaveStatus("PREPARING", "publication", rest)
    /\ UNCHANGED <<diskVars, servedVars, nextRevision, commitVars, timer, faults>>

PublishRequested == MayPublish /\ StartPublication(chain)

PublishFromTimer ==
    /\ Resumes("publish")
    /\ \/ MayPublish /\ StartPublication(Tail(chain))
       \/ /\ ~MayPublish
          /\ chain' = Tail(chain)
          /\ UNCHANGED <<diskVars, servedVars, stage, attemptVars, commitVars, timer, statusVars, faults>>

(* A scheduled action saves the status, and acts when that is done.        *)
TimerFires ==
    /\ timer # "none"
    /\ timer' = "none"
    /\ SaveStatus(IF timer = "next" /\ status \in {"PUBLISHED", "FAILED"} THEN "WAITING" ELSE status,
                  IF timer = "wait" THEN "wait" ELSE "publish", chain)
    /\ UNCHANGED <<diskVars, servedVars, stage, attemptVars, commitVars, target, faults>>

-----------------------------------------------------------------------------
(* prepareValidateAndPublish.                                              *)

(* The catch block: the same revision is tried again, or given up.         *)
PublicationFails(rest) ==
    /\ stage' = IF attempt < MaxAttempts THEN "retrying" ELSE "failed"
    /\ SaveStatus(IF attempt < MaxAttempts THEN "RETRY_WAIT" ELSE "FAILED", "publication", rest)

(* A step that may throw.  What one stretch of code does up to the next    *)
(* status, or to the next change that can be seen, is one step.            *)
Throws(at) ==
    /\ stage = at
    /\ faults < MaxFaults
    /\ faults' = faults + 1

(* loadStableBase, and the identity of the snapshot made from it.          *)
LoadBase ==
    /\ Resumes("publication")
    /\ \/ /\ stage = "preparing"
          /\ stage' = "validating"
          /\ target' = active
          /\ SaveStatus("VALIDATING", "publication", Tail(chain))
          /\ UNCHANGED faults
       \/ /\ Throws("preparing")
          /\ PublicationFails(Tail(chain))
          /\ UNCHANGED target
    /\ UNCHANGED <<diskVars, servedVars, attemptVars, commitVars, timer>>

Validate ==
    /\ Resumes("publication")
    /\ \/ /\ stage = "validating"
          /\ held' = TRUE
          /\ stage' = "publishing"
          /\ SaveStatus("PUBLISHING", "publication", Tail(chain))
          /\ UNCHANGED faults
       \/ /\ Throws("validating")
          /\ PublicationFails(Tail(chain))
          /\ UNCHANGED held
    /\ UNCHANGED <<diskVars, marker, attemptVars, commitVars, timer, target>>

PersistSnapshot ==
    /\ Resumes("publication")
    /\ \/ /\ stage = "publishing"
          /\ stage' = "reading"
          /\ snapshots' = snapshots \cup {active}
          /\ chain' = Tail(chain)
          /\ UNCHANGED <<status, faults>>
       \/ /\ Throws("publishing")
          /\ PublicationFails(Tail(chain))
          /\ UNCHANGED snapshots
    /\ UNCHANGED <<pointer, markers, servedVars, attemptVars, commitVars, timer, target>>

(* The snapshot is read back and validated, then the pointer moved.        *)
PersistPointer ==
    /\ \/ /\ stage = "reading"
          /\ stage' = "verifying"
          /\ pointer' = active
          /\ UNCHANGED <<status, chain, faults>>
       \/ /\ Throws("reading")
          /\ PublicationFails(chain)
          /\ UNCHANGED pointer
    /\ UNCHANGED <<snapshots, markers, servedVars, attemptVars, commitVars, timer, target>>

(* A pointer whose verification fails stays where it is.                   *)
VerifyPointer ==
    /\ \/ /\ stage = "verifying"
          /\ stage' = "marking"
          /\ UNCHANGED <<status, chain, faults>>
       \/ /\ Throws("verifying")
          /\ PublicationFails(chain)
    /\ UNCHANGED <<diskVars, servedVars, attemptVars, commitVars, timer, target>>

(* A marker that cannot be written takes the pointer back to the base, if  *)
(* that succeeds.                                                          *)
PersistMarker ==
    /\ \/ /\ stage = "marking"
          /\ stage' = "published"
          /\ markers' = markers \cup {active}
          /\ SaveStatus("PUBLISHED", "publication", chain)
          /\ UNCHANGED <<pointer, faults>>
       \/ /\ stage = "marking"
          /\ \/ faults' = faults + 1 /\ pointer' = 0
             \/ faults' = faults + 2 /\ UNCHANGED pointer
          /\ faults' <= MaxFaults
          /\ PublicationFails(chain)
          /\ UNCHANGED markers
    /\ UNCHANGED <<snapshots, servedVars, attemptVars, commitVars, timer, target>>

-----------------------------------------------------------------------------
(* The continuation of publishNext.                                        *)
GiveUpRevision ==
    /\ active' = 0 /\ attempt' = 0
    /\ nextRevision' = active + 1

Published ==
    /\ Resumes("publication") /\ stage = "published"
    /\ stage' = "none"
    /\ marker' = active
    /\ pending' = active /\ waits' = 0
    /\ GiveUpRevision
    /\ timer' = IF Recurring THEN "wait" ELSE timer
    /\ chain' = Tail(chain)
    /\ UNCHANGED <<diskVars, held, statusVars, faults>>

Retries ==
    /\ Resumes("publication") /\ stage = "retrying"
    /\ stage' = "none"
    /\ timer' = "retry"
    /\ chain' = Tail(chain)
    /\ UNCHANGED <<diskVars, servedVars, attemptVars, commitVars, statusVars, faults>>

(* Mutant of GivenUp: the next revision is not scheduled.                  *)
GivenUpForGood ==
    /\ Resumes("publication") /\ stage = "failed"
    /\ stage' = "none"
    /\ GiveUpRevision
    /\ chain' = Tail(chain)
    /\ UNCHANGED <<diskVars, servedVars, commitVars, timer, statusVars, faults>>

GivenUp ==
    /\ Resumes("publication") /\ stage = "failed"
    /\ stage' = "none"
    /\ GiveUpRevision
    /\ timer' = IF Recurring THEN "next" ELSE timer
    /\ chain' = Tail(chain)
    /\ UNCHANGED <<diskVars, servedVars, commitVars, statusVars, faults>>

-----------------------------------------------------------------------------
(* waitForUiCommit and acknowledgeUiCommit.                                *)
(* Mutant of WaitForUiCommit: it waits once too often.                     *)
WaitOnceMore ==
    /\ Resumes("wait")
    /\ \/ /\ pending = 0
          /\ chain' = Tail(chain)
          /\ UNCHANGED <<waits, status>>
       \/ /\ pending # 0 /\ waits + 1 > MaxAttempts
          /\ waits' = waits + 1
          /\ status' = "FAILED"
          /\ chain' = Tail(chain)
       \/ /\ pending # 0 /\ waits + 1 <= MaxAttempts
          /\ waits' = waits + 1
          /\ SaveStatus("RETRY_WAIT", "again", Tail(chain))
    /\ UNCHANGED <<diskVars, servedVars, stage, attemptVars, pending, timer, target, faults>>

WaitForUiCommit ==
    /\ Resumes("wait")
    /\ \/ /\ pending = 0
          /\ chain' = Tail(chain)
          /\ UNCHANGED <<waits, status>>
       \/ /\ pending # 0 /\ waits + 1 >= MaxAttempts
          /\ waits' = waits + 1
          /\ status' = "FAILED"
          /\ chain' = Tail(chain)
       \/ /\ pending # 0 /\ waits + 1 < MaxAttempts
          /\ waits' = waits + 1
          /\ SaveStatus("RETRY_WAIT", "again", Tail(chain))
    /\ UNCHANGED <<diskVars, servedVars, stage, attemptVars, pending, timer, target, faults>>

WaitAgain ==
    /\ Resumes("again")
    /\ timer' = "wait"
    /\ chain' = Tail(chain)
    /\ UNCHANGED <<diskVars, servedVars, stage, attemptVars, commitVars, statusVars, faults>>

(* Mutant of Acknowledgeable: it is refused once the waiting has ended.    *)
AcknowledgeableWhileWaiting(r) == r # 0 /\ pending = r /\ marker = r /\ status # "FAILED"

Acknowledgeable(r) == r # 0 /\ pending = r /\ marker = r

Acknowledge(r) ==
    /\ Acknowledgeable(r)
    /\ timer' = "none"
    /\ pending' = 0 /\ waits' = 0
    /\ SaveStatus("PUBLISHED", "acknowledged", chain)
    /\ UNCHANGED <<diskVars, servedVars, stage, attemptVars, target>>

Acknowledged ==
    /\ Resumes("acknowledged")
    /\ timer' = IF Recurring THEN "next" ELSE timer
    /\ chain' = Tail(chain)
    /\ UNCHANGED <<diskVars, servedVars, stage, attemptVars, commitVars, statusVars, faults>>

Publication ==
    \/ LoadBase \/ Validate \/ PersistSnapshot \/ PersistPointer \/ VerifyPointer \/ PersistMarker
    \/ Published \/ Retries \/ GivenUp

(* What the server does of its own accord.                                 *)
Coordinator == TimerFires \/ PublishFromTimer \/ Publication \/ WaitForUiCommit \/ WaitAgain \/ Acknowledged

-----------------------------------------------------------------------------
(* One publication is open at a time: the one to be acknowledged is the    *)
(* one served, the one the status names, and nothing else is under way.    *)
OnePublication ==
    /\ pending # 0 => pending = marker /\ pending = target /\ stage = "none" /\ active = 0
    /\ stage \in Saving => \E i \in DOMAIN chain : chain[i] = "publication"
    /\ \A i, j \in DOMAIN chain : chain[i] = "publication" /\ chain[j] = "publication" => i = j

(* A recurring publication never falls asleep: something is scheduled,     *)
(* under way or about to go on, until the wait for an acknowledgement has  *)
(* been given up.                                                          *)
NeverIdle ==
    Recurring => \/ timer # "none" \/ stage # "none" \/ chain # <<>>
                 \/ pending # 0 /\ waits = MaxAttempts
                 \/ nextRevision > MaxRevisions
=============================================================================
