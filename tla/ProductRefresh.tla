---------------------------- MODULE ProductRefresh ----------------------------
(***************************************************************************)
(* The interface that follows the publications: the version poller of      *)
(* productVersionPolling.ts, and of ProductApp.tsx the first load, Refresh *)
(* View, loadData and the acknowledgement of a review publication.         *)
(*                                                                         *)
(* An answer of the server is what it served when it answered, and takes   *)
(* its time to arrive.  A version is known by its scanner run; the other   *)
(* five pointers, the timers' lengths and the reads that come with the     *)
(* scanner's (a failing one fails the refresh) are left out.               *)
(*                                                                         *)
(* Bound: answers fail while there are fewer than MaxReadFaults failures.  *)
(***************************************************************************)
EXTENDS ReviewPublication

CONSTANTS None,             \* no version
          Blank,            \* the version of a server that cannot read its own: all null
          MaxReadFaults,
          ManualRefresh     \* whether the user may press Refresh View

ASSUME RefreshAssumption ==
    /\ {None, Blank} \cap Version = {} /\ None # Blank
    /\ MaxReadFaults \in 0..MaxFaults
    /\ ManualRefresh \in BOOLEAN

VARIABLES
    view,                   \* the accepted snapshot on the screen
    refresh,                \* the read that loadData shares, refreshPromiseRef
    poll,                   \* the check of the poller that is in flight
    opening,                \* the first load, later a Refresh View
    committed, attempted,   \* lastCommittedVersion, lastAttemptedVersion of the poller
    retryDue,               \* whether the last attempt is a retry delay ago
    uiTarget,               \* target_run_id of the publication status last fetched
    acknowledged,           \* reviewCommitAcknowledgementRef
    request                 \* the acknowledgement on its way

viewVars == <<view, refresh>>
callVars == <<poll, opening>>
pollerVars == <<committed, attempted, retryDue>>
ackVars == <<uiTarget, acknowledged, request>>
uiVars == <<viewVars, callVars, pollerVars, ackVars>>
vars == <<publicationVars, faults, uiVars>>

Known == Version \cup {None, Blank}

TypeOK ==
    /\ PublicationTypeOK
    /\ {view, committed, attempted} \subseteq Known
    /\ refresh \in [at: {"none", "reading", "read"}, against: Known, scanner: Known]
    /\ {poll, opening} \subseteq [at: {"idle", "asked", "refreshing"}, version: Known]
    /\ retryDue \in BOOLEAN
    /\ {uiTarget, acknowledged, request} \subseteq Version

NoRefresh == [at |-> "none", against |-> None, scanner |-> None]
Idle == [at |-> "idle", version |-> None]

Init ==
    /\ PublicationInit
    /\ view = None /\ refresh = NoRefresh
    /\ poll = Idle
    /\ opening = [at |-> "asked", version |-> ServedVersion]
    /\ committed = None /\ attempted = None /\ retryDue = TRUE
    /\ uiTarget = 0 /\ acknowledged = 0 /\ request = 0

(* An answer that is lost, is an error, or comes without the version.      *)
ReadFault == faults < MaxReadFaults /\ faults' = faults + 1

Answered(version, answer) ==
    \/ answer = version /\ UNCHANGED faults
    \/ answer = Blank /\ ReadFault

(* loadData: a refresh that is under way is shared, whatever version it is *)
(* checked against.                                                        *)
LoadData(against) ==
    refresh' = IF refresh.at = "none" THEN [at |-> "reading", against |-> against, scanner |-> None]
               ELSE refresh

-----------------------------------------------------------------------------
(* The first load and Refresh View: the version, then loadData.            *)
RefreshView ==
    /\ ManualRefresh
    /\ opening = Idle
    /\ opening' = [at |-> "asked", version |-> ServedVersion]
    /\ UNCHANGED <<publicationVars, viewVars, poll, pollerVars, ackVars, faults>>

(* Without a version the view is loaded unchecked, and nothing is marked.  *)
OpeningLoads ==
    /\ opening.at = "asked"
    /\ \/ \E v \in {opening.version, Blank} :
             /\ Answered(opening.version, v)
             /\ LoadData(v)
             /\ opening' = [at |-> "refreshing", version |-> v]
       \/ /\ ReadFault
          /\ LoadData(None)
          /\ opening' = [at |-> "refreshing", version |-> None]
    /\ UNCHANGED <<publicationVars, view, poll, pollerVars, ackVars>>

(* The poller: checkNow.                                                   *)
CheckNow ==
    /\ poll = Idle
    /\ poll' = [at |-> "asked", version |-> ServedVersion]
    /\ UNCHANGED <<publicationVars, viewVars, opening, pollerVars, ackVars, faults>>

Refreshes(v) ==
    /\ committed \notin {None, v}
    /\ attempted = v => retryDue

VersionArrives ==
    /\ poll.at = "asked"
    /\ \/ \E v \in {poll.version, Blank} :
             /\ Answered(poll.version, v)
             /\ IF Refreshes(v)
                THEN /\ poll' = [at |-> "refreshing", version |-> v]
                     /\ attempted' = v /\ retryDue' = FALSE
                     /\ LoadData(v)
                ELSE /\ poll' = Idle
                     /\ UNCHANGED <<attempted, retryDue, refresh>>
       \/ /\ ReadFault
          /\ poll' = Idle
          /\ UNCHANGED <<attempted, retryDue, refresh>>
    /\ UNCHANGED <<publicationVars, view, opening, committed, ackVars>>

RetryDelayElapses ==
    /\ ~retryDue
    /\ retryDue' = TRUE
    /\ UNCHANGED <<publicationVars, viewVars, callVars, committed, attempted, ackVars, faults>>

-----------------------------------------------------------------------------
(* The shared refresh.                                                     *)
ReadScanner ==
    /\ refresh.at = "reading"
    /\ \/ refresh' = [refresh EXCEPT !.at = "read", !.scanner = ServedScanner] /\ UNCHANGED faults
       \/ refresh' = [refresh EXCEPT !.at = "read"] /\ ReadFault
    /\ UNCHANGED <<publicationVars, view, callVars, pollerVars, ackVars>>

(* Mutant of Accepted: the view is accepted whatever run it is.            *)
AcceptedUnchecked == refresh.scanner # None

(* isVersionIdentityValid of the version the refresh was started with.     *)
Accepted ==
    /\ refresh.scanner # None
    /\ refresh.against \in {None, Blank, refresh.scanner}

(* The calls that share the refresh take its result for theirs, one after  *)
(* the other: the poller commits its version, the opening marks its own.   *)
PollCommits == poll.at = "refreshing" /\ Accepted
OpeningMarks == opening.at = "refreshing" /\ opening.version # None /\ Accepted

RefreshEnds ==
    /\ refresh.at = "read"
    /\ refresh' = NoRefresh
    /\ view' = IF Accepted THEN refresh.scanner ELSE view
    /\ \/ PollCommits /\ committed' = poll.version
       \/ OpeningMarks /\ committed' = opening.version
       \/ ~PollCommits /\ ~OpeningMarks /\ UNCHANGED committed
    /\ IF OpeningMarks THEN attempted' = opening.version /\ retryDue' = FALSE
                       ELSE UNCHANGED <<attempted, retryDue>>
    /\ poll' = IF poll.at = "refreshing" THEN Idle ELSE poll
    /\ opening' = IF opening.at = "refreshing" THEN Idle ELSE opening
    /\ UNCHANGED <<publicationVars, ackVars, faults>>

-----------------------------------------------------------------------------
(* The acknowledgement: the publication status is fetched every second,    *)
(* and compared with the committed version.                                *)
FetchStatus ==
    /\ uiTarget' = target
    /\ uiTarget' # uiTarget
    /\ UNCHANGED <<publicationVars, viewVars, callVars, pollerVars, acknowledged, request, faults>>

SendAcknowledgement ==
    /\ request = 0
    /\ uiTarget # 0 /\ committed = uiTarget /\ acknowledged # uiTarget
    /\ acknowledged' = uiTarget /\ request' = uiTarget
    /\ UNCHANGED <<publicationVars, viewVars, callVars, pollerVars, uiTarget, faults>>

(* POST commit-ack.  The answer to a refused one, or none, lets the        *)
(* interface try again; the answer to an accepted one brings the status.   *)
AcknowledgementArrives ==
    /\ request # 0
    /\ request' = 0
    /\ \/ /\ Acknowledge(request)
          /\ \/ uiTarget' = target /\ UNCHANGED <<acknowledged, faults>>
             \/ ReadFault /\ acknowledged' = 0 /\ UNCHANGED uiTarget
       \/ /\ ~Acknowledgeable(request)
          /\ acknowledged' = 0
          /\ UNCHANGED <<publicationVars, uiTarget, faults>>
    /\ UNCHANGED <<viewVars, callVars, pollerVars>>

AcknowledgementLost ==
    /\ request # 0 /\ ReadFault
    /\ request' = 0 /\ acknowledged' = 0
    /\ UNCHANGED <<publicationVars, viewVars, callVars, pollerVars, uiTarget>>

Polling == CheckNow \/ VersionArrives \/ RetryDelayElapses
Viewing == OpeningLoads \/ ReadScanner \/ RefreshEnds
Acknowledging == FetchStatus \/ SendAcknowledgement \/ AcknowledgementArrives

Next ==
    \/ (Coordinator \/ PublishRequested) /\ UNCHANGED uiVars
    \/ RefreshView \/ Viewing \/ Polling \/ Acknowledging \/ AcknowledgementLost

Spec == Init /\ [][Next]_vars

(* The server's timers and writes and the page's timers and reads go on.   *)
FairSpec ==
    /\ Spec
    /\ WF_vars(Coordinator /\ UNCHANGED uiVars)
    /\ WF_vars(CheckNow) /\ WF_vars(VersionArrives) /\ WF_vars(RetryDelayElapses)
    /\ WF_vars(OpeningLoads) /\ WF_vars(ReadScanner) /\ WF_vars(RefreshEnds)
    /\ WF_vars(FetchStatus) /\ WF_vars(SendAcknowledgement) /\ WF_vars(AcknowledgementArrives)

-----------------------------------------------------------------------------
(* A view that was checked against a version shows a published revision,   *)
(* or the base, although the pointer the scanner is read by moves first.   *)
CheckedViewPublished ==
    [][view' # view => refresh.against \in {None, Blank} \/ view' \in markers \cup {0}]_vars

(* A published revision is acknowledged in the end, also when the server   *)
(* has given up waiting, once the poller has a version to compare with.    *)
PendingResolves == pending # 0 /\ committed # None ~> pending = 0

(* The poller's committed version is the one on the screen.                *)
CommittedIsShown == [][committed' # committed => committed' \in {Blank, view'}]_vars
=============================================================================
