------------------------ MODULE ProductRefresh_proofs ------------------------
(***************************************************************************)
(* Proofs about productReviewPublication.ts and the page that reads it: one*)
(* publication is open at a time, and a view that was checked against a    *)
(* version shows what was published, and a recurring publication is never  *)
(* left asleep, for any number of revisions, attempts and failures.        *)
(***************************************************************************)
EXTENDS ProductRefresh, TLAPS

(* The publication under way awaits a status write, and no other does.     *)
Awaited(q) == \E i \in DOMAIN q : q[i] = "publication"
Single(q) == \A i, j \in DOMAIN q : q[i] = "publication" /\ q[j] = "publication" => i = j

Types ==
    /\ chain \in Seq(Continuations)
    /\ active \in Nat /\ pointer \in Nat /\ marker \in Nat /\ nextRevision \in Nat \ {0}
    /\ markers \subseteq Nat
    /\ stage \in {"none"} \cup Saving \cup Working

ChainInv ==
    /\ Awaited(chain) <=> stage \in Saving
    /\ Single(chain)

CommitInv ==
    /\ pending # 0 => pending = marker /\ pending = target /\ stage = "none" /\ active = 0
    /\ stage \in {"validating", "publishing", "published"} \cup Working => target = active

(* What a caller can be told is the base or has its marker: a pointer that *)
(* is ahead of its marker is hidden by the base version held in memory.    *)
ServedInv ==
    /\ marker \in markers \cup {0}
    /\ pointer # 0 => held
    /\ stage \in {"publishing"} \cup Working => held
    /\ stage = "published" => active \in markers

Told == markers \cup {0, None, Blank}
ReadInv ==
    /\ refresh \in [at: {"none", "reading", "read"}, against: Told, scanner: Nat \cup {None, Blank}]
    /\ poll.version \in Told
    /\ opening.version \in Told

(* What stands in the queue of continuations, and in which order.          *)
Holds(q, S) == \E i \in DOMAIN q : q[i] \in S
Once(q, S) == \A i, j \in DOMAIN q : q[i] \in S /\ q[j] \in S => i = j
Precedes(q, S, T) == \A i, j \in DOMAIN q : q[i] \in S /\ q[j] \in T => i < j
Followed(q) ==
    \A i \in DOMAIN q : q[i] = "again" =>
        \E j \in DOMAIN q : i < j /\ q[j] = "acknowledged"

Waits == {"wait", "again"}
Acks == {"acknowledged"}
Publications == {"publication"}
Lasting == {"again", "publish", "publication", "acknowledged"}

(* A revision under way has a number, and a failed one an attempt left.    *)
WorkInv ==
    /\ stage # "none" => active \in Revision
    /\ stage = "retrying" \/ (stage = "none" /\ active # 0) => attempt < MaxAttempts

(* What is left of a wait that the acknowledgement has ended goes before   *)
(* the next publication comes to its first status: the timer is set anew   *)
(* behind the acknowledgement, and the next publication comes behind that. *)
OldWaitsInv ==
    /\ Precedes(chain, Acks, Publications)
    /\ pending = 0 => Followed(chain) /\ (timer = "wait" => Holds(chain, Acks))
    /\ pending # 0 \/ stage \notin {"none", "preparing"} => ~Holds(chain, Acks)
    /\ stage \in Saving \ {"preparing"} => Precedes(chain, Waits, Publications)
    /\ stage \in Working => ~Holds(chain, Waits)
    /\ ~Recurring => timer # "wait" /\ ~Holds(chain, Waits)

(* One wait is under way for the revision to be acknowledged, until as     *)
(* many have passed as there may be.                                       *)
WaitInv ==
    pending # 0 =>
        /\ Once(chain, Waits)
        /\ Holds(chain, Waits) => timer # "wait"
        /\ Holds(chain, Waits) \/ timer = "wait" => waits < MaxAttempts
        /\ Recurring => Holds(chain, Waits) \/ timer = "wait" \/ waits = MaxAttempts

(* What is left of an old wait does not count as being awake.              *)
AwakeInv ==
    Recurring /\ pending = 0 =>
        \/ timer # "none" \/ stage # "none"
        \/ Holds(chain, Lasting)
        \/ nextRevision > MaxRevisions

(* The types of the page, beside those of the coordinator.                 *)
PageTypes ==
    /\ {view, committed, attempted} \subseteq Known
    /\ refresh \in [at: {"none", "reading", "read"}, against: Known, scanner: Known]
    /\ {poll, opening} \subseteq [at: {"idle", "asked", "refreshing"}, version: Known]
    /\ retryDue \in BOOLEAN
    /\ {uiTarget, acknowledged, request} \subseteq Version

IInv ==
    /\ TypeOK /\ Types
    /\ ChainInv /\ CommitInv /\ ServedInv /\ ReadInv
    /\ WorkInv /\ OldWaitsInv /\ WaitInv /\ AwakeInv

-----------------------------------------------------------------------------
(* What is appended to the chain comes last.                               *)
LEMMA AppendLemma ==
    ASSUME NEW q \in Seq(Continuations), NEW c \in Continuations
    PROVE  /\ Append(q, c) \in Seq(Continuations)
           /\ Awaited(Append(q, c)) <=> Awaited(q) \/ c = "publication"
           /\ Single(q) /\ ~(Awaited(q) /\ c = "publication") => Single(Append(q, c))
PROOF
<1>1. /\ Append(q, c) \in Seq(Continuations)
      /\ DOMAIN Append(q, c) = DOMAIN q \cup {Len(q) + 1}
      /\ \A i \in DOMAIN q : Append(q, c)[i] = q[i]
      /\ Append(q, c)[Len(q) + 1] = c
      /\ Len(q) + 1 \notin DOMAIN q
  OBVIOUS
<1>2. QED
  BY <1>1 DEF Awaited, Single

(* The continuation that runs is the first one.                            *)
LEMMA TailLemma ==
    ASSUME NEW q \in Seq(Continuations), q # <<>>
    PROVE  /\ Tail(q) \in Seq(Continuations)
           /\ Head(q) # "publication" => (Awaited(Tail(q)) <=> Awaited(q))
           /\ Single(q) => Single(Tail(q))
           /\ Single(q) /\ Head(q) = "publication" => ~Awaited(Tail(q))
PROOF
<1>1. /\ Tail(q) \in Seq(Continuations)
      /\ Len(q) \in Nat \ {0} /\ DOMAIN q = 1..Len(q)
      /\ Head(q) = q[1]
  OBVIOUS
<1>2. Len(Tail(q)) = Len(q) - 1 /\ DOMAIN Tail(q) = 1..Len(q) - 1
  OBVIOUS
<1>3. \A i \in 1..Len(q) - 1 : Tail(q)[i] = q[i + 1]
  OBVIOUS
<1>4. ASSUME NEW j \in DOMAIN q, j # 1
     PROVE  j - 1 \in DOMAIN Tail(q) /\ Tail(q)[j - 1] = q[j]
  <2>1. j - 1 \in 1..Len(q) - 1 /\ (j - 1) + 1 = j
    BY <1>1, <1>4
  <2>2. QED
    BY <1>2, <1>3, <2>1
<1>5. \A i \in DOMAIN Tail(q) : Tail(q)[i] = q[i + 1] /\ i + 1 \in DOMAIN q
  BY <1>1, <1>2, <1>3
<1>6. Head(q) # "publication" => (Awaited(Tail(q)) <=> Awaited(q))
  BY <1>1, <1>4, <1>5 DEF Awaited
<1>7. Single(q) => Single(Tail(q))
  BY <1>2, <1>5 DEF Single
<1>8. Single(q) /\ Head(q) = "publication" => ~Awaited(Tail(q))
  BY <1>1, <1>2, <1>5 DEF Single, Awaited
<1>9. QED
  BY <1>1, <1>6, <1>7, <1>8

(* One publication is under way, awaited or at work, or to be acknowledged.*)
LEMMA PublicationStep ==
    ASSUME Types, ChainInv, CommitInv, marker \in Nat, [Next]_vars
    PROVE  (Types /\ ChainInv /\ CommitInv)'
PROOF
<1> USE DEF publicationVars, diskVars, servedVars, attemptVars, commitVars, statusVars, uiVars,
     viewVars, callVars, pollerVars, ackVars
<1>append. \A c \in Continuations :
             /\ Append(chain, c) \in Seq(Continuations)
             /\ Awaited(Append(chain, c)) <=> Awaited(chain) \/ c = "publication"
             /\ Single(chain) /\ ~(Awaited(chain) /\ c = "publication") => Single(Append(chain, c))
  BY AppendLemma DEF Types
<1>tail. chain # <<>> =>
           /\ Tail(chain) \in Seq(Continuations)
           /\ Head(chain) # "publication" => (Awaited(Tail(chain)) <=> Awaited(chain))
           /\ Single(chain) => Single(Tail(chain))
           /\ Single(chain) /\ Head(chain) = "publication" => ~Awaited(Tail(chain))
  BY TailLemma DEF Types
<1>both. chain # <<>> => \A c \in Continuations :
           /\ Append(Tail(chain), c) \in Seq(Continuations)
           /\ Awaited(Append(Tail(chain), c)) <=> Awaited(Tail(chain)) \/ c = "publication"
           /\ Single(Tail(chain)) /\ ~(Awaited(Tail(chain)) /\ c = "publication")
                => Single(Append(Tail(chain), c))
  BY <1>tail, AppendLemma
<1> USE DEF Types, ChainInv, CommitInv, Saving, Working, Continuations, SaveStatus, Resumes
<1>1. ASSUME TimerFires
     PROVE  (Types /\ ChainInv /\ CommitInv)'
  BY <1>1, <1>append DEF TimerFires
<1>2. ASSUME PublishFromTimer
     PROVE  (Types /\ ChainInv /\ CommitInv)'
  BY <1>2, <1>tail, <1>both DEF PublishFromTimer, MayPublish, StartPublication
<1>3. ASSUME LoadBase
     PROVE  (Types /\ ChainInv /\ CommitInv)'
  BY <1>3, <1>tail, <1>both DEF LoadBase, Throws, PublicationFails
<1>4. ASSUME Validate
     PROVE  (Types /\ ChainInv /\ CommitInv)'
  BY <1>4, <1>tail, <1>both DEF Validate, Throws, PublicationFails
<1>5. ASSUME PersistSnapshot
     PROVE  (Types /\ ChainInv /\ CommitInv)'
  BY <1>5, <1>tail, <1>both DEF PersistSnapshot, Throws, PublicationFails
<1>6. ASSUME PersistPointer
     PROVE  (Types /\ ChainInv /\ CommitInv)'
  BY <1>6, <1>append DEF PersistPointer, Throws, PublicationFails
<1>7. ASSUME VerifyPointer
     PROVE  (Types /\ ChainInv /\ CommitInv)'
  BY <1>7, <1>append DEF VerifyPointer, Throws, PublicationFails
<1>8. ASSUME PersistMarker
     PROVE  (Types /\ ChainInv /\ CommitInv)'
  <2>0. markers' = markers \/ markers' = markers \cup {active}
    BY <1>8 DEF PersistMarker
  <2>1. markers' \subseteq Nat /\ pointer' \in Nat
    <3>1. markers' \subseteq Nat
      BY <2>0 DEF Types
    <3>2. pointer' = 0 \/ pointer' = pointer
      BY <1>8 DEF PersistMarker
    <3>3. QED
      BY <3>1, <3>2 DEF Types
  <2>2. CASE stage' = "published"
    BY <1>8, <2>1, <2>2, <1>append DEF PersistMarker, PublicationFails
  <2>3. CASE stage' # "published"
    BY <1>8, <2>1, <2>3, <1>append DEF PersistMarker, PublicationFails
  <2>4. QED
    BY <2>2, <2>3
<1>9. ASSUME Published
     PROVE  (Types /\ ChainInv /\ CommitInv)'
  BY <1>9, <1>tail DEF Published, GiveUpRevision
<1>10. ASSUME Retries
     PROVE  (Types /\ ChainInv /\ CommitInv)'
  BY <1>10, <1>tail DEF Retries
<1>11. ASSUME GivenUp
     PROVE  (Types /\ ChainInv /\ CommitInv)'
  BY <1>11, <1>tail DEF GivenUp, GiveUpRevision
<1>12. ASSUME WaitForUiCommit
     PROVE  (Types /\ ChainInv /\ CommitInv)'
  BY <1>12, <1>tail, <1>both DEF WaitForUiCommit
<1>13. ASSUME WaitAgain
     PROVE  (Types /\ ChainInv /\ CommitInv)'
  BY <1>13, <1>tail DEF WaitAgain
<1>14. ASSUME Acknowledged
     PROVE  (Types /\ ChainInv /\ CommitInv)'
  BY <1>14, <1>tail DEF Acknowledged
<1>15. ASSUME PublishRequested
     PROVE  (Types /\ ChainInv /\ CommitInv)'
  BY <1>15, <1>append DEF PublishRequested, MayPublish, StartPublication
<1>16. ASSUME AcknowledgementArrives
     PROVE  (Types /\ ChainInv /\ CommitInv)'
  BY <1>16, <1>append DEF AcknowledgementArrives, Acknowledge, Acknowledgeable
<1>17. QED
  BY <1>1, <1>2, <1>3, <1>4, <1>5, <1>6, <1>7, <1>8, <1>9, <1>10, <1>11, <1>12, <1>13, <1>14,
     <1>15, <1>16
  DEF Next, Coordinator, Publication, Polling, Viewing, Acknowledging, RefreshView, OpeningLoads,
     ReadScanner, RefreshEnds, CheckNow, VersionArrives, RetryDelayElapses, FetchStatus,
     SendAcknowledgement, AcknowledgementLost, vars, Types, ChainInv, CommitInv

(* What is served is published.                                            *)
LEMMA ServedStep ==
    ASSUME Types, ServedInv, [Next]_vars
    PROVE  ServedInv'
PROOF
<1> USE DEF publicationVars, diskVars, servedVars, attemptVars, commitVars, statusVars, uiVars,
     viewVars, callVars, pollerVars, ackVars
<1> USE DEF Types, ServedInv, Saving, Working, SaveStatus
<1>1. ASSUME TimerFires
     PROVE  ServedInv'
  BY <1>1 DEF TimerFires
<1>2. ASSUME PublishFromTimer
     PROVE  ServedInv'
  BY <1>2 DEF PublishFromTimer, MayPublish, StartPublication
<1>3. ASSUME LoadBase
     PROVE  ServedInv'
  BY <1>3 DEF LoadBase, Throws, PublicationFails
<1>4. ASSUME Validate
     PROVE  ServedInv'
  BY <1>4 DEF Validate, Throws, PublicationFails
<1>5. ASSUME PersistSnapshot
     PROVE  ServedInv'
  BY <1>5 DEF PersistSnapshot, Throws, PublicationFails
<1>6. ASSUME PersistPointer
     PROVE  ServedInv'
  BY <1>6 DEF PersistPointer, Throws, PublicationFails
<1>7. ASSUME VerifyPointer
     PROVE  ServedInv'
  BY <1>7 DEF VerifyPointer, Throws, PublicationFails
<1>8. ASSUME PersistMarker
     PROVE  ServedInv'
  BY <1>8 DEF PersistMarker, PublicationFails
<1>9. ASSUME Published
     PROVE  ServedInv'
  BY <1>9 DEF Published, GiveUpRevision
<1>10. ASSUME Retries
     PROVE  ServedInv'
  BY <1>10 DEF Retries
<1>11. ASSUME GivenUp
     PROVE  ServedInv'
  BY <1>11 DEF GivenUp, GiveUpRevision
<1>12. ASSUME WaitForUiCommit
     PROVE  ServedInv'
  BY <1>12 DEF WaitForUiCommit
<1>13. ASSUME WaitAgain
     PROVE  ServedInv'
  BY <1>13 DEF WaitAgain
<1>14. ASSUME Acknowledged
     PROVE  ServedInv'
  BY <1>14 DEF Acknowledged
<1>15. ASSUME PublishRequested
     PROVE  ServedInv'
  BY <1>15 DEF PublishRequested, MayPublish, StartPublication
<1>16. ASSUME AcknowledgementArrives
     PROVE  ServedInv'
  BY <1>16 DEF AcknowledgementArrives, Acknowledge
<1>17. QED
  BY <1>1, <1>2, <1>3, <1>4, <1>5, <1>6, <1>7, <1>8, <1>9, <1>10, <1>11, <1>12, <1>13, <1>14,
     <1>15, <1>16
  DEF Next, Coordinator, Publication, Polling, Viewing, Acknowledging, RefreshView, OpeningLoads,
     ReadScanner, RefreshEnds, CheckNow, VersionArrives, RetryDelayElapses, FetchStatus,
     SendAcknowledgement, AcknowledgementLost, vars, ServedInv

(* A marker on disk stays.                                                 *)
LEMMA MarkersStay ==
    ASSUME Types, [Next]_vars
    PROVE  markers \subseteq markers'
PROOF
<1> USE DEF publicationVars, diskVars, servedVars, attemptVars, commitVars, statusVars, uiVars,
     viewVars, callVars, pollerVars, ackVars
<1>1. ASSUME PersistMarker
     PROVE  markers \subseteq markers'
  BY <1>1 DEF PersistMarker
<1>2. ASSUME AcknowledgementArrives
     PROVE  markers \subseteq markers'
  BY <1>2 DEF AcknowledgementArrives, Acknowledge
<1>3. QED
  BY <1>1, <1>2
  DEF Next, Coordinator, Publication, Polling, Viewing, Acknowledging, TimerFires,
     PublishFromTimer, LoadBase, Validate, PersistSnapshot, PersistPointer, VerifyPointer,
     Published, Retries, GivenUp, WaitForUiCommit, WaitAgain, Acknowledged, PublishRequested,
     RefreshView, OpeningLoads, ReadScanner, RefreshEnds, CheckNow, VersionArrives,
     RetryDelayElapses, FetchStatus, SendAcknowledgement, AcknowledgementLost, vars, SaveStatus,
     StartPublication, Throws, PublicationFails, GiveUpRevision

(* What is told, and what a refresh is checked against, has been published.*)
LEMMA ReadStep ==
    ASSUME Types, ServedInv, ReadInv, [Next]_vars
    PROVE  ReadInv'
PROOF
<1> USE DEF publicationVars, diskVars, servedVars, attemptVars, commitVars, statusVars, uiVars,
     viewVars, callVars, pollerVars, ackVars
<1>version. ServedVersion \in markers \cup {0}
  BY DEF ServedVersion, ServedInv
<1>scanner. ServedScanner \in Nat
  BY DEF ServedScanner, Types
<1>told. markers \subseteq markers'
  BY MarkersStay
<1> USE DEF ReadInv, Told
<1>1. ASSUME RefreshView
     PROVE  ReadInv'
  BY <1>1, <1>version, <1>scanner, <1>told DEF RefreshView, Idle
<1>2. ASSUME OpeningLoads
     PROVE  ReadInv'
  BY <1>2, <1>version, <1>scanner, <1>told DEF OpeningLoads, LoadData, Answered, ReadFault
<1>3. ASSUME ReadScanner
     PROVE  ReadInv'
  BY <1>3, <1>version, <1>scanner, <1>told DEF ReadScanner, ReadFault
<1>4. ASSUME RefreshEnds
     PROVE  ReadInv'
  BY <1>4, <1>version, <1>scanner, <1>told DEF RefreshEnds, Idle, NoRefresh
<1>5. ASSUME CheckNow
     PROVE  ReadInv'
  BY <1>5, <1>version, <1>scanner, <1>told DEF CheckNow, Idle
<1>6. ASSUME VersionArrives
     PROVE  ReadInv'
  BY <1>6, <1>version, <1>scanner, <1>told DEF VersionArrives, Idle, LoadData, Answered, ReadFault
<1>7. ASSUME RetryDelayElapses
     PROVE  ReadInv'
  BY <1>7, <1>version, <1>scanner, <1>told DEF RetryDelayElapses
<1>8. ASSUME FetchStatus
     PROVE  ReadInv'
  BY <1>8, <1>version, <1>scanner, <1>told DEF FetchStatus
<1>9. ASSUME SendAcknowledgement
     PROVE  ReadInv'
  BY <1>9, <1>version, <1>scanner, <1>told DEF SendAcknowledgement
<1>10. ASSUME AcknowledgementArrives
     PROVE  ReadInv'
  BY <1>10, <1>version, <1>scanner, <1>told DEF AcknowledgementArrives, ReadFault
<1>11. ASSUME AcknowledgementLost
     PROVE  ReadInv'
  BY <1>11, <1>version, <1>scanner, <1>told DEF AcknowledgementLost, ReadFault
<1>12. QED
  BY <1>1, <1>2, <1>3, <1>4, <1>5, <1>6, <1>7, <1>8, <1>9, <1>10, <1>11, <1>told
  DEF Next, Coordinator, Publication, Polling, Viewing, Acknowledging, TimerFires,
     PublishFromTimer, LoadBase, Validate, PersistSnapshot, PersistPointer, VerifyPointer,
     PersistMarker, Published, Retries, GivenUp, WaitForUiCommit, WaitAgain, Acknowledged,
     PublishRequested, vars, ReadInv

-----------------------------------------------------------------------------
(* The queue of continuations.                                             *)

(* A continuation c comes last into the queue q, which is r then.          *)
Appends(q, c, r) ==
    /\ r \in Seq(Continuations) /\ r # <<>>
    /\ \A S : Holds(r, S) <=> Holds(q, S) \/ c \in S
    /\ Once(q, Waits) /\ ~(Holds(q, Waits) /\ c \in Waits) => Once(r, Waits)
    /\ \A S : Precedes(q, S, Publications) /\ (c \in S => ~Holds(q, Publications) /\ c \notin Publications)
                => Precedes(r, S, Publications)
    /\ c = "acknowledged" \/ (Followed(q) /\ c # "again") => Followed(r)

LEMMA AppendQueue ==
    ASSUME NEW q \in Seq(Continuations), NEW c \in Continuations
    PROVE  Appends(q, c, Append(q, c))
PROOF
<1> DEFINE r == Append(q, c)
           n == Len(q) + 1
<1>1. /\ r \in Seq(Continuations) /\ r # <<>>
      /\ DOMAIN r = DOMAIN q \cup {n} /\ n \notin DOMAIN q
      /\ \A i \in DOMAIN q : r[i] = q[i] /\ i < n /\ i \in Nat
      /\ r[n] = c /\ n \in Nat
  OBVIOUS
<1> HIDE DEF r, n
<1>2. ASSUME NEW S PROVE Holds(r, S) <=> Holds(q, S) \/ c \in S
  BY <1>1 DEF Holds
<1>3. ASSUME Once(q, Waits), ~(Holds(q, Waits) /\ c \in Waits)
      PROVE  Once(r, Waits)
  BY <1>1, <1>3 DEF Once, Holds
<1>4. ASSUME NEW S, Precedes(q, S, Publications), (c \in S => ~Holds(q, Publications) /\ c \notin Publications)
      PROVE  Precedes(r, S, Publications)
  BY <1>1, <1>4 DEF Precedes, Holds
<1>5. ASSUME c = "acknowledged" \/ (Followed(q) /\ c # "again")
      PROVE  Followed(r)
  BY <1>1, <1>5 DEF Followed
<1>6. QED
  BY <1>1, <1>2, <1>3, <1>4, <1>5 DEF Appends, r

(* The first continuation leaves the queue q, which is r then.             *)
Leaves(q, r) ==
    /\ r \in Seq(Continuations) /\ Head(q) \in Continuations
    /\ \A S : Holds(q, S) <=> Head(q) \in S \/ Holds(r, S)
    /\ Once(q, Waits) => Once(r, Waits) /\ (Head(q) \in Waits => ~Holds(r, Waits))
    /\ \A S : Precedes(q, S, Publications) =>
                 /\ Precedes(r, S, Publications)
                 /\ Head(q) = "publication" => ~Holds(r, S)
    /\ Followed(q) => Followed(r)

LEMMA TailQueue ==
    ASSUME NEW q \in Seq(Continuations), q # <<>>
    PROVE  Leaves(q, Tail(q))
PROOF
<1> DEFINE r == Tail(q)
<1>1. /\ r \in Seq(Continuations) /\ Head(q) \in Continuations
      /\ 1 \in DOMAIN q /\ q[1] = Head(q)
      /\ DOMAIN q \subseteq Nat \ {0}
  OBVIOUS
<1>2. \A i \in DOMAIN r : i + 1 \in DOMAIN q /\ r[i] = q[i + 1] /\ i \in Nat \ {0}
  OBVIOUS
<1>3. \A j \in DOMAIN q : j # 1 => j - 1 \in DOMAIN r /\ r[j - 1] = q[j]
  OBVIOUS
<1> HIDE DEF r
<1>4. ASSUME NEW S PROVE Holds(q, S) <=> Head(q) \in S \/ Holds(r, S)
  BY <1>1, <1>2, <1>3 DEF Holds
<1>5. ASSUME Once(q, Waits)
      PROVE  Once(r, Waits) /\ (Head(q) \in Waits => ~Holds(r, Waits))
  <2>1. \A i, j \in DOMAIN r : r[i] \in Waits /\ r[j] \in Waits => i + 1 = j + 1
    BY <1>2, <1>5 DEF Once
  <2>2. \A i \in DOMAIN r : r[i] \in Waits /\ Head(q) \in Waits => i + 1 = 1
    BY <1>1, <1>2, <1>5 DEF Once
  <2>3. QED
    BY <1>2, <2>1, <2>2 DEF Once, Holds
<1>6. ASSUME NEW S, Precedes(q, S, Publications)
      PROVE  /\ Precedes(r, S, Publications)
             /\ Head(q) = "publication" => ~Holds(r, S)
  <2>1. \A i, j \in DOMAIN r : r[i] \in S /\ r[j] \in Publications => i + 1 < j + 1
    BY <1>2, <1>6 DEF Precedes
  <2>2. \A i \in DOMAIN r : r[i] \in S /\ Head(q) \in Publications => i + 1 < 1
    BY <1>1, <1>2, <1>6 DEF Precedes
  <2>3. QED
    BY <1>2, <2>1, <2>2 DEF Precedes, Holds, Publications
<1>7. ASSUME Followed(q)
      PROVE  Followed(r)
  <2>1. SUFFICES ASSUME NEW i \in DOMAIN r, r[i] = "again"
                 PROVE  \E j \in DOMAIN r : i < j /\ r[j] = "acknowledged"
    BY DEF Followed
  <2>2. PICK k \in DOMAIN q : i + 1 < k /\ q[k] = "acknowledged"
    BY <1>2, <1>7, <2>1 DEF Followed
  <2>3. k - 1 \in DOMAIN r /\ r[k - 1] = "acknowledged" /\ i < k - 1
    BY <1>1, <1>2, <1>3, <2>1, <2>2
  <2>4. QED
    BY <2>3
<1>8. QED
  BY <1>1, <1>4, <1>5, <1>6, <1>7 DEF Leaves, r

(* Without an acknowledgement, none of the waits waits again.              *)
LEMMA FollowedByNone == \A q : Followed(q) /\ Holds(q, {"again"}) => Holds(q, Acks)
BY DEF Followed, Holds, Acks

(* A publication is in the queue.                                          *)
LEMMA AwaitedHolds == \A q : Awaited(q) <=> Holds(q, Publications)
BY DEF Awaited, Holds, Publications

(* What is not in the queue comes behind nothing.                          *)
LEMMA PrecedesNone ==
    \A q, S : ~Holds(q, S) \/ ~Holds(q, Publications) => Precedes(q, S, Publications)
BY DEF Holds, Precedes

LEMMA OnceNone == \A q : ~Holds(q, Waits) => Once(q, Waits)
BY DEF Holds, Once

(* An old wait is over before the next publication gets its marker.        *)
LEMMA OldWaitsStep ==
    ASSUME Types, ChainInv, CommitInv, WorkInv, OldWaitsInv, [Next]_vars
    PROVE  OldWaitsInv'
PROOF
<1> USE DEF publicationVars, diskVars, servedVars, attemptVars, commitVars, statusVars, uiVars,
     viewVars, callVars, pollerVars, ackVars
<1>append. \A c \in Continuations : Appends(chain, c, Append(chain, c))
  BY AppendQueue DEF Types
<1>tail. chain # <<>> => Leaves(chain, Tail(chain))
  BY TailQueue DEF Types
<1>both. chain # <<>> => \A c \in Continuations : Appends(Tail(chain), c, Append(Tail(chain), c))
  BY <1>tail, AppendQueue DEF Leaves
<1>single. /\ chain # <<>> /\ Head(chain) = "publication" => ~Holds(Tail(chain), Publications)
           /\ Holds(chain, Publications) <=> stage \in Saving
  BY TailLemma, AwaitedHolds DEF Types, ChainInv
<1>busy. pending # 0 => stage = "none"
  BY DEF CommitInv
<1>work. stage # "none" => active # 0
  BY DEF WorkInv, Revision
<1>again. Followed(chain) /\ Holds(chain, {"again"}) => Holds(chain, Acks)
  BY FollowedByNone
<1> USE DEF OldWaitsInv, Saving, Working, Continuations, Waits, Acks, SaveStatus, Resumes
<1>1. ASSUME TimerFires
     PROVE  OldWaitsInv'
  BY <1>1, <1>append, <1>single, <1>busy, PrecedesNone DEF TimerFires, Appends
<1>2. ASSUME PublishFromTimer
     PROVE  OldWaitsInv'
  BY <1>2, <1>tail, <1>both, <1>single, <1>busy, PrecedesNone DEF PublishFromTimer, MayPublish,
     StartPublication, Appends, Leaves
<1>3. ASSUME LoadBase
     PROVE  OldWaitsInv'
  BY <1>3, <1>tail, <1>both, <1>single, <1>busy, PrecedesNone DEF LoadBase, Throws,
     PublicationFails, Appends, Leaves
<1>4. ASSUME Validate
     PROVE  OldWaitsInv'
  BY <1>4, <1>tail, <1>both, <1>single, <1>busy, PrecedesNone DEF Validate, Throws,
     PublicationFails, Appends, Leaves
<1>5. ASSUME PersistSnapshot
     PROVE  OldWaitsInv'
  BY <1>5, <1>tail, <1>both, <1>single, <1>busy, PrecedesNone DEF PersistSnapshot, Throws,
     PublicationFails, Appends, Leaves
<1>6. ASSUME PersistPointer
     PROVE  OldWaitsInv'
  BY <1>6, <1>append, <1>single, <1>busy, PrecedesNone DEF PersistPointer, Throws,
     PublicationFails, Appends
<1>7. ASSUME VerifyPointer
     PROVE  OldWaitsInv'
  BY <1>7, <1>append, <1>single, <1>busy, PrecedesNone DEF VerifyPointer, Throws,
     PublicationFails, Appends
<1>8. ASSUME PersistMarker
     PROVE  OldWaitsInv'
  BY <1>8, <1>append, <1>single, <1>busy, PrecedesNone DEF PersistMarker, PublicationFails,
     Appends
<1>9. ASSUME Published
     PROVE  OldWaitsInv'
  BY <1>9, <1>tail, <1>single, <1>busy, PrecedesNone, <1>work DEF Published, GiveUpRevision,
     Leaves
<1>10. ASSUME Retries
     PROVE  OldWaitsInv'
  BY <1>10, <1>tail, <1>single, <1>busy, PrecedesNone DEF Retries, Leaves
<1>11. ASSUME GivenUp
     PROVE  OldWaitsInv'
  BY <1>11, <1>tail, <1>single, <1>busy, PrecedesNone DEF GivenUp, GiveUpRevision, Leaves
<1>12. ASSUME WaitForUiCommit
     PROVE  OldWaitsInv'
  BY <1>12, <1>tail, <1>both, <1>single, <1>busy, PrecedesNone DEF WaitForUiCommit, Appends,
     Leaves
<1>13. ASSUME WaitAgain
     PROVE  OldWaitsInv'
  BY <1>13, <1>tail, <1>single, <1>busy, PrecedesNone, <1>again DEF WaitAgain, Leaves
<1>14. ASSUME Acknowledged
     PROVE  OldWaitsInv'
  BY <1>14, <1>tail, <1>single, <1>busy, PrecedesNone DEF Acknowledged, Leaves
<1>15. ASSUME PublishRequested
     PROVE  OldWaitsInv'
  BY <1>15, <1>append, <1>single, <1>busy, PrecedesNone DEF PublishRequested, MayPublish,
     StartPublication, Appends
<1>16. ASSUME AcknowledgementArrives
     PROVE  OldWaitsInv'
  <2>1. CASE Acknowledge(request)
    <3>1. /\ stage = "none" /\ stage' = "none" /\ pending' = 0 /\ timer' = "none"
          /\ chain' = Append(chain, "acknowledged")
      BY <2>1, <1>busy DEF Acknowledge, Acknowledgeable
    <3>2. ~Holds(chain, Publications)
      BY <3>1, <1>single
    <3>3. Precedes(chain', Acks, Publications) /\ Followed(chain')
          /\ (~Recurring => ~Holds(chain', Waits))
      BY <3>1, <3>2, <1>append DEF Appends, Publications
    <3>4. QED
      BY <3>1, <3>3
  <2>2. CASE UNCHANGED publicationVars
    BY <2>2
  <2>3. QED
    BY <1>16, <2>1, <2>2 DEF AcknowledgementArrives
<1>17. QED
  BY <1>1, <1>2, <1>3, <1>4, <1>5, <1>6, <1>7, <1>8, <1>9, <1>10, <1>11, <1>12, <1>13, <1>14,
     <1>15, <1>16
  DEF Next, Coordinator, Publication, Polling, Viewing, Acknowledging, RefreshView, OpeningLoads,
     ReadScanner, RefreshEnds, CheckNow, VersionArrives, RetryDelayElapses, FetchStatus,
     SendAcknowledgement, AcknowledgementLost, vars

(* One wait at a time, and as many as there may be.                        *)
LEMMA WaitStep ==
    ASSUME TypeOK, Types, CommitInv, OldWaitsInv, WaitInv, [Next]_vars
    PROVE  WaitInv'
PROOF
<1> USE DEF publicationVars, diskVars, servedVars, attemptVars, commitVars, statusVars, uiVars,
     viewVars, callVars, pollerVars, ackVars
<1>append. \A c \in Continuations : Appends(chain, c, Append(chain, c))
  BY AppendQueue DEF Types
<1>tail. chain # <<>> => Leaves(chain, Tail(chain))
  BY TailQueue DEF Types
<1>both. chain # <<>> => \A c \in Continuations : Appends(Tail(chain), c, Append(Tail(chain), c))
  BY <1>tail, AppendQueue DEF Leaves
<1>busy. pending # 0 => stage = "none"
  BY DEF CommitInv
<1>types. waits \in 0..MaxAttempts /\ MaxAttempts \in Nat \ {0}
  BY PublicationAssumption DEF TypeOK, PublicationTypeOK
<1>old. /\ pending # 0 => ~Holds(chain, Acks)
        /\ stage = "published" => Precedes(chain, Waits, Publications)
  BY DEF OldWaitsInv, Saving
<1> USE DEF WaitInv, Continuations, Waits, Acks, SaveStatus, Resumes
<1>1. ASSUME TimerFires
     PROVE  WaitInv'
  BY <1>1, <1>append, <1>busy, <1>types DEF TimerFires, Appends
<1>2. ASSUME PublishFromTimer
     PROVE  WaitInv'
  BY <1>2, <1>tail, <1>both, <1>busy, <1>types DEF PublishFromTimer, MayPublish,
     StartPublication, Appends, Leaves
<1>3. ASSUME LoadBase
     PROVE  WaitInv'
  BY <1>3, <1>tail, <1>both, <1>busy, <1>types DEF LoadBase, Throws, PublicationFails, Appends,
     Leaves
<1>4. ASSUME Validate
     PROVE  WaitInv'
  BY <1>4, <1>tail, <1>both, <1>busy, <1>types DEF Validate, Throws, PublicationFails, Appends,
     Leaves
<1>5. ASSUME PersistSnapshot
     PROVE  WaitInv'
  BY <1>5, <1>tail, <1>both, <1>busy, <1>types DEF PersistSnapshot, Throws, PublicationFails,
     Appends, Leaves
<1>6. ASSUME PersistPointer
     PROVE  WaitInv'
  BY <1>6, <1>append, <1>busy, <1>types DEF PersistPointer, Throws, PublicationFails, Appends
<1>7. ASSUME VerifyPointer
     PROVE  WaitInv'
  BY <1>7, <1>append, <1>busy, <1>types DEF VerifyPointer, Throws, PublicationFails, Appends
<1>8. ASSUME PersistMarker
     PROVE  WaitInv'
  BY <1>8, <1>append, <1>busy, <1>types DEF PersistMarker, PublicationFails, Appends
<1>9. ASSUME Published
     PROVE  WaitInv'
  BY <1>9, <1>tail, <1>busy, <1>types, <1>old, OnceNone DEF Published, GiveUpRevision, Leaves
<1>10. ASSUME Retries
     PROVE  WaitInv'
  BY <1>10, <1>tail, <1>busy, <1>types DEF Retries, Leaves
<1>11. ASSUME GivenUp
     PROVE  WaitInv'
  BY <1>11, <1>tail, <1>busy, <1>types DEF GivenUp, GiveUpRevision, Leaves
<1>12. ASSUME WaitForUiCommit
     PROVE  WaitInv'
  <2>1. CASE pending = 0
    BY <1>12, <2>1 DEF WaitForUiCommit
  <2>2. CASE pending # 0 /\ waits + 1 >= MaxAttempts
    <3>1. /\ waits' = waits + 1 /\ pending' = pending /\ timer' = timer
          /\ chain # <<>> /\ Head(chain) = "wait" /\ chain' = Tail(chain)
      BY <1>12, <2>2, <1>types DEF WaitForUiCommit
    <3>2. timer # "wait" /\ ~Holds(Tail(chain), Waits) /\ waits < MaxAttempts
      BY <2>2, <3>1, <1>tail DEF Leaves
    <3>3. QED
      BY <2>2, <3>1, <3>2, <1>types, OnceNone
  <2>3. CASE pending # 0 /\ waits + 1 < MaxAttempts
    <3>1. /\ waits' = waits + 1 /\ pending' = pending /\ timer' = timer
          /\ chain # <<>> /\ Head(chain) = "wait" /\ chain' = Append(Tail(chain), "again")
      BY <1>12, <2>3, <1>types DEF WaitForUiCommit
    <3>2. timer # "wait" /\ ~Holds(Tail(chain), Waits)
      BY <2>3, <3>1, <1>tail DEF Leaves
    <3>3. Once(chain', Waits) /\ Holds(chain', Waits)
      BY <3>1, <3>2, <1>both, OnceNone DEF Appends
    <3>4. QED
      BY <2>3, <3>1, <3>2, <3>3, <1>types
  <2>4. QED
    BY <2>1, <2>2, <2>3, <1>types
<1>13. ASSUME WaitAgain
     PROVE  WaitInv'
  BY <1>13, <1>tail, <1>busy, <1>types DEF WaitAgain, Leaves
<1>14. ASSUME Acknowledged
     PROVE  WaitInv'
  BY <1>14, <1>tail, <1>busy, <1>types, <1>old DEF Acknowledged, Leaves
<1>15. ASSUME PublishRequested
     PROVE  WaitInv'
  BY <1>15, <1>append, <1>busy, <1>types DEF PublishRequested, MayPublish, StartPublication,
     Appends
<1>16. ASSUME AcknowledgementArrives
     PROVE  WaitInv'
  BY <1>16, <1>append, <1>busy, <1>types DEF AcknowledgementArrives, Acknowledge,
     Acknowledgeable, Appends
<1>17. QED
  BY <1>1, <1>2, <1>3, <1>4, <1>5, <1>6, <1>7, <1>8, <1>9, <1>10, <1>11, <1>12, <1>13, <1>14,
     <1>15, <1>16
  DEF Next, Coordinator, Publication, Polling, Viewing, Acknowledging, RefreshView, OpeningLoads,
     ReadScanner, RefreshEnds, CheckNow, VersionArrives, RetryDelayElapses, FetchStatus,
     SendAcknowledgement, AcknowledgementLost, vars

(* Whatever ends leaves something that goes on.                            *)
LEMMA AwakeStep ==
    ASSUME TypeOK, Types, WorkInv, OldWaitsInv, AwakeInv, CommitInv, [Next]_vars
    PROVE  AwakeInv'
PROOF
<1> USE DEF publicationVars, diskVars, servedVars, attemptVars, commitVars, statusVars, uiVars,
     viewVars, callVars, pollerVars, ackVars
<1>append. \A c \in Continuations : Appends(chain, c, Append(chain, c))
  BY AppendQueue DEF Types
<1>tail. chain # <<>> => Leaves(chain, Tail(chain))
  BY TailQueue DEF Types
<1>both. chain # <<>> => \A c \in Continuations : Appends(Tail(chain), c, Append(Tail(chain), c))
  BY <1>tail, AppendQueue DEF Leaves
<1>busy. (pending # 0 => stage = "none") /\ (stage # "none" => active # 0)
  BY DEF CommitInv, WorkInv, Revision
<1>old. /\ pending = 0 /\ timer = "wait" => Holds(chain, Acks)
        /\ stage = "none" /\ active # 0 => attempt < MaxAttempts
  BY DEF OldWaitsInv, WorkInv
<1>types. nextRevision \in Nat /\ MaxRevisions \in Nat
  BY PublicationAssumption DEF Types
<1>last. Holds(chain, Acks) => Holds(chain, Lasting)
  BY DEF Holds, Acks, Lasting
<1> USE DEF AwakeInv, Continuations, Lasting, SaveStatus, Resumes
<1>1. ASSUME TimerFires
     PROVE  AwakeInv'
  BY <1>1, <1>append, <1>busy, <1>types, <1>old, <1>last DEF TimerFires, Appends
<1>2. ASSUME PublishFromTimer
     PROVE  AwakeInv'
  BY <1>2, <1>tail, <1>both, <1>busy, <1>types DEF PublishFromTimer, MayPublish,
     StartPublication, Appends, Leaves
<1>3. ASSUME LoadBase
     PROVE  AwakeInv'
  BY <1>3, <1>tail, <1>both, <1>busy, <1>types DEF LoadBase, Throws, PublicationFails, Appends,
     Leaves
<1>4. ASSUME Validate
     PROVE  AwakeInv'
  BY <1>4, <1>tail, <1>both, <1>busy, <1>types DEF Validate, Throws, PublicationFails, Appends,
     Leaves
<1>5. ASSUME PersistSnapshot
     PROVE  AwakeInv'
  BY <1>5, <1>tail, <1>both, <1>busy, <1>types DEF PersistSnapshot, Throws, PublicationFails,
     Appends, Leaves
<1>6. ASSUME PersistPointer
     PROVE  AwakeInv'
  BY <1>6, <1>append, <1>busy, <1>types DEF PersistPointer, Throws, PublicationFails, Appends
<1>7. ASSUME VerifyPointer
     PROVE  AwakeInv'
  BY <1>7, <1>append, <1>busy, <1>types DEF VerifyPointer, Throws, PublicationFails, Appends
<1>8. ASSUME PersistMarker
     PROVE  AwakeInv'
  BY <1>8, <1>append, <1>busy, <1>types DEF PersistMarker, PublicationFails, Appends
<1>9. ASSUME Published
     PROVE  AwakeInv'
  BY <1>9, <1>tail, <1>busy, <1>types DEF Published, GiveUpRevision, Leaves
<1>10. ASSUME Retries
     PROVE  AwakeInv'
  BY <1>10, <1>tail, <1>busy, <1>types DEF Retries, Leaves
<1>11. ASSUME GivenUp
     PROVE  AwakeInv'
  BY <1>11, <1>tail, <1>busy, <1>types DEF GivenUp, GiveUpRevision, Leaves
<1>12. ASSUME WaitForUiCommit
     PROVE  AwakeInv'
  BY <1>12, <1>tail, <1>both, <1>busy, <1>types DEF WaitForUiCommit, Appends, Leaves
<1>13. ASSUME WaitAgain
     PROVE  AwakeInv'
  BY <1>13, <1>tail, <1>busy, <1>types DEF WaitAgain, Leaves
<1>14. ASSUME Acknowledged
     PROVE  AwakeInv'
  BY <1>14, <1>tail, <1>busy, <1>types DEF Acknowledged, Leaves
<1>15. ASSUME PublishRequested
     PROVE  AwakeInv'
  BY <1>15, <1>append, <1>busy, <1>types DEF PublishRequested, MayPublish, StartPublication,
     Appends
<1>16. ASSUME AcknowledgementArrives
     PROVE  AwakeInv'
  <2>1. CASE Acknowledge(request)
    BY <2>1, <1>append, <1>busy DEF Acknowledge, Acknowledgeable, Appends
  <2>2. CASE UNCHANGED publicationVars
    BY <2>2
  <2>3. QED
    BY <1>16, <2>1, <2>2 DEF AcknowledgementArrives
<1>17. QED
  BY <1>1, <1>2, <1>3, <1>4, <1>5, <1>6, <1>7, <1>8, <1>9, <1>10, <1>11, <1>12, <1>13, <1>14,
     <1>15, <1>16
  DEF Next, Coordinator, Publication, Polling, Viewing, Acknowledging, RefreshView, OpeningLoads,
     ReadScanner, RefreshEnds, CheckNow, VersionArrives, RetryDelayElapses, FetchStatus,
     SendAcknowledgement, AcknowledgementLost, vars

(* A number, and an attempt.                                               *)
LEMMA WorkStep ==
    ASSUME TypeOK, WorkInv, [Next]_vars
    PROVE  WorkInv'
PROOF
<1> USE DEF publicationVars, diskVars, servedVars, attemptVars, commitVars, statusVars, uiVars,
     viewVars, callVars, pollerVars, ackVars
<1>types. /\ nextRevision \in 1..MaxRevisions + 1 /\ MaxRevisions \in Nat
          /\ active \in 0..MaxRevisions
          /\ attempt \in 0..MaxAttempts /\ MaxAttempts \in Nat \ {0}
  BY PublicationAssumption DEF TypeOK, PublicationTypeOK, Version
<1> USE DEF WorkInv, Saving, Working, Revision, SaveStatus
<1>1. ASSUME TimerFires
     PROVE  WorkInv'
  BY <1>1, <1>types DEF TimerFires
<1>2. ASSUME PublishFromTimer
     PROVE  WorkInv'
  BY <1>2, <1>types DEF PublishFromTimer, MayPublish, StartPublication
<1>3. ASSUME LoadBase
     PROVE  WorkInv'
  BY <1>3, <1>types DEF LoadBase, Throws, PublicationFails
<1>4. ASSUME Validate
     PROVE  WorkInv'
  BY <1>4, <1>types DEF Validate, Throws, PublicationFails
<1>5. ASSUME PersistSnapshot
     PROVE  WorkInv'
  BY <1>5, <1>types DEF PersistSnapshot, Throws, PublicationFails
<1>6. ASSUME PersistPointer
     PROVE  WorkInv'
  BY <1>6, <1>types DEF PersistPointer, Throws, PublicationFails
<1>7. ASSUME VerifyPointer
     PROVE  WorkInv'
  BY <1>7, <1>types DEF VerifyPointer, Throws, PublicationFails
<1>8. ASSUME PersistMarker
     PROVE  WorkInv'
  BY <1>8, <1>types DEF PersistMarker, PublicationFails
<1>9. ASSUME Published
     PROVE  WorkInv'
  BY <1>9, <1>types DEF Published, GiveUpRevision
<1>10. ASSUME Retries
     PROVE  WorkInv'
  BY <1>10, <1>types DEF Retries
<1>11. ASSUME GivenUp
     PROVE  WorkInv'
  BY <1>11, <1>types DEF GivenUp, GiveUpRevision
<1>12. ASSUME WaitForUiCommit
     PROVE  WorkInv'
  BY <1>12, <1>types DEF WaitForUiCommit
<1>13. ASSUME WaitAgain
     PROVE  WorkInv'
  BY <1>13, <1>types DEF WaitAgain
<1>14. ASSUME Acknowledged
     PROVE  WorkInv'
  BY <1>14, <1>types DEF Acknowledged
<1>15. ASSUME PublishRequested
     PROVE  WorkInv'
  BY <1>15, <1>types DEF PublishRequested, MayPublish, StartPublication
<1>16. ASSUME AcknowledgementArrives
     PROVE  WorkInv'
  BY <1>16, <1>types DEF AcknowledgementArrives, Acknowledge, Acknowledgeable
<1>17. QED
  BY <1>1, <1>2, <1>3, <1>4, <1>5, <1>6, <1>7, <1>8, <1>9, <1>10, <1>11, <1>12, <1>13, <1>14,
     <1>15, <1>16
  DEF Next, Coordinator, Publication, Polling, Viewing, Acknowledging, RefreshView, OpeningLoads,
     ReadScanner, RefreshEnds, CheckNow, VersionArrives, RetryDelayElapses, FetchStatus,
     SendAcknowledgement, AcknowledgementLost, vars

(* Types of the coordinator, within the bounds.                            *)
LEMMA PublicationTypeStep ==
    ASSUME TypeOK, WorkInv, WaitInv, Types', [Next]_vars
    PROVE  PublicationTypeOK'
PROOF
<1> USE DEF publicationVars, diskVars, servedVars, attemptVars, commitVars, statusVars, uiVars,
     viewVars, callVars, pollerVars, ackVars
<1>types. /\ PublicationTypeOK
          /\ MaxRevisions \in Nat /\ MaxFaults \in Nat /\ MaxAttempts \in Nat \ {0}
          /\ MaxReadFaults \in 0..MaxFaults
  BY PublicationAssumption, RefreshAssumption DEF TypeOK
<1>chain. chain' \in Seq(Continuations)
  BY DEF Types
<1>work. /\ stage # "none" => active \in Revision
         /\ stage = "none" /\ active # 0 => attempt < MaxAttempts
  BY DEF WorkInv
<1> USE <1>types, <1>chain, <1>work
<1> USE DEF PublicationTypeOK, Saving, Working, Revision, Version, Timers, Statuses, SaveStatus
<1>1. ASSUME TimerFires
     PROVE  PublicationTypeOK'
  BY <1>1 DEF TimerFires
<1>2. ASSUME PublishFromTimer
     PROVE  PublicationTypeOK'
  <2>1. CASE MayPublish /\ StartPublication(Tail(chain))
    <3>1. active' \in Revision /\ attempt' \in 0..MaxAttempts
      BY <2>1 DEF MayPublish, StartPublication
    <3>2. QED
      BY <2>1, <3>1 DEF StartPublication
  <2>2. CASE ~MayPublish
    BY <1>2, <2>2 DEF PublishFromTimer
  <2>3. QED
    BY <1>2, <2>1, <2>2 DEF PublishFromTimer
<1>3. ASSUME LoadBase
     PROVE  PublicationTypeOK'
  BY <1>3 DEF LoadBase, Throws, PublicationFails
<1>4. ASSUME Validate
     PROVE  PublicationTypeOK'
  <2>1. faults' \in 0..MaxFaults
    BY <1>4 DEF Validate, Throws, PublicationFails
  <2>2. QED
    BY <1>4, <2>1 DEF Validate, Throws, PublicationFails
<1>5. ASSUME PersistSnapshot
     PROVE  PublicationTypeOK'
  <2>1. faults' \in 0..MaxFaults
    BY <1>5 DEF PersistSnapshot, Throws, PublicationFails
  <2>2. QED
    BY <1>5, <2>1 DEF PersistSnapshot, Throws, PublicationFails
<1>6. ASSUME PersistPointer
     PROVE  PublicationTypeOK'
  BY <1>6 DEF PersistPointer, Throws, PublicationFails
<1>7. ASSUME VerifyPointer
     PROVE  PublicationTypeOK'
  BY <1>7 DEF VerifyPointer, Throws, PublicationFails
<1>8. ASSUME PersistMarker
     PROVE  PublicationTypeOK'
  <2>1. faults' \in 0..MaxFaults
    BY <1>8 DEF PersistMarker, PublicationFails
  <2>2. markers' = markers \cup {active} \/ markers' = markers
    BY <1>8 DEF PersistMarker
  <2>3. markers' \subseteq Revision
    BY <1>8, <2>2 DEF PersistMarker
  <2>4. pointer' \in Version
    BY <1>8 DEF PersistMarker
  <2>5. stage' \in Saving /\ status' \in Statuses
    BY <1>8 DEF PersistMarker, PublicationFails
  <2>6. QED
    BY <1>8, <2>1, <2>3, <2>4, <2>5 DEF PersistMarker
<1>9. ASSUME Published
     PROVE  PublicationTypeOK'
  BY <1>9 DEF Published, GiveUpRevision
<1>10. ASSUME Retries
     PROVE  PublicationTypeOK'
  BY <1>10 DEF Retries
<1>11. ASSUME GivenUp
     PROVE  PublicationTypeOK'
  BY <1>11 DEF GivenUp, GiveUpRevision
<1>12. ASSUME WaitForUiCommit
     PROVE  PublicationTypeOK'
  <2>1. pending # 0 => waits < MaxAttempts
    BY <1>12 DEF WaitForUiCommit, WaitInv, Resumes, Holds, Waits
  <2>2. QED
    BY <1>12, <2>1 DEF WaitForUiCommit
<1>13. ASSUME WaitAgain
     PROVE  PublicationTypeOK'
  BY <1>13 DEF WaitAgain
<1>14. ASSUME Acknowledged
     PROVE  PublicationTypeOK'
  BY <1>14 DEF Acknowledged
<1>15. ASSUME PublishRequested
     PROVE  PublicationTypeOK'
  BY <1>15 DEF PublishRequested, MayPublish, StartPublication
<1>16. ASSUME AcknowledgementArrives
     PROVE  PublicationTypeOK'
  <2>1. faults' \in 0..MaxFaults
    BY <1>16 DEF AcknowledgementArrives, ReadFault
  <2>2. CASE Acknowledge(request)
    BY <2>1, <2>2 DEF Acknowledge, Acknowledgeable
  <2>3. CASE UNCHANGED publicationVars
    BY <2>1, <2>3
  <2>4. QED
    BY <1>16, <2>2, <2>3 DEF AcknowledgementArrives
<1>17. ASSUME UNCHANGED publicationVars, UNCHANGED faults \/ ReadFault
      PROVE  PublicationTypeOK'
  BY <1>17 DEF ReadFault
<1>18. QED
  BY <1>17, <1>1, <1>2, <1>3, <1>4, <1>5, <1>6, <1>7, <1>8, <1>9, <1>10, <1>11, <1>12, <1>13,
     <1>14, <1>15, <1>16
  DEF Next, Coordinator, Publication, Polling, Viewing, Acknowledging, RefreshView, OpeningLoads,
     ReadScanner, RefreshEnds, CheckNow, VersionArrives, RetryDelayElapses, FetchStatus,
     SendAcknowledgement, AcknowledgementLost, Answered, vars

(* Types of the page.                                                      *)
LEMMA PageTypeStep ==
    ASSUME TypeOK, [Next]_vars
    PROVE  PageTypes'
PROOF
<1> USE DEF publicationVars, diskVars, servedVars, attemptVars, commitVars, statusVars, uiVars,
     viewVars, callVars, pollerVars, ackVars
<1>types. PageTypes /\ target \in Version /\ MaxRevisions \in Nat
  BY PublicationAssumption DEF TypeOK, PublicationTypeOK, PageTypes
<1>known. None \in Known /\ Blank \in Known /\ Version \subseteq Known /\ 0 \in Version
  BY <1>types DEF Known, Version
<1>served. ServedVersion \in Known /\ ServedScanner \in Known
  BY <1>known DEF ServedVersion, ServedScanner, TypeOK, PublicationTypeOK
<1> USE <1>types, <1>known, <1>served DEF PageTypes
<1>1. ASSUME RefreshView
     PROVE  PageTypes'
  BY <1>1 DEF RefreshView, Idle
<1>2. ASSUME OpeningLoads
     PROVE  PageTypes'
  BY <1>2 DEF OpeningLoads, LoadData, Answered
<1>3. ASSUME ReadScanner
     PROVE  PageTypes'
  BY <1>3 DEF ReadScanner
<1>4. ASSUME RefreshEnds
     PROVE  PageTypes'
  <2>1. refresh' = NoRefresh /\ view' \in Known
    BY <1>4 DEF RefreshEnds
  <2>2. committed' \in Known /\ attempted' \in Known /\ retryDue' \in BOOLEAN
    BY <1>4 DEF RefreshEnds
  <2>3. {poll', opening'} \subseteq {poll, opening, Idle}
    BY <1>4 DEF RefreshEnds
  <2>4. QED
    BY <1>4, <2>1, <2>2, <2>3 DEF RefreshEnds, NoRefresh, Idle
<1>5. ASSUME CheckNow
     PROVE  PageTypes'
  BY <1>5 DEF CheckNow, Idle
<1>6. ASSUME VersionArrives
     PROVE  PageTypes'
  <2>1. PICK v \in Known : /\ poll' \in {Idle, [at |-> "refreshing", version |-> v]}
                           /\ attempted' \in {attempted, v} /\ retryDue' \in {retryDue, FALSE}
                           /\ LoadData(v) \/ UNCHANGED refresh
    BY <1>6 DEF VersionArrives
  <2>2. refresh' \in [at: {"none", "reading", "read"}, against: Known, scanner: Known]
    BY <2>1 DEF LoadData
  <2>3. poll' \in [at: {"idle", "asked", "refreshing"}, version: Known]
    BY <2>1 DEF Idle
  <2>4. retryDue' \in BOOLEAN
    BY <2>1
  <2>5. QED
    BY <1>6, <2>1, <2>2, <2>3, <2>4 DEF VersionArrives
<1>7. ASSUME RetryDelayElapses
     PROVE  PageTypes'
  BY <1>7 DEF RetryDelayElapses
<1>8. ASSUME FetchStatus
     PROVE  PageTypes'
  BY <1>8 DEF FetchStatus
<1>9. ASSUME SendAcknowledgement
     PROVE  PageTypes'
  BY <1>9 DEF SendAcknowledgement
<1>10. ASSUME AcknowledgementArrives
     PROVE  PageTypes'
  BY <1>10 DEF AcknowledgementArrives
<1>11. ASSUME AcknowledgementLost
     PROVE  PageTypes'
  BY <1>11 DEF AcknowledgementLost
<1>12. CASE UNCHANGED uiVars
  BY <1>12
<1>13. QED
  BY <1>1, <1>2, <1>3, <1>4, <1>5, <1>6, <1>7, <1>8, <1>9, <1>10, <1>11, <1>12
  DEF Next, Polling, Viewing, Acknowledging, vars

-----------------------------------------------------------------------------
(* The invariant behind the theorems, inductive.                           *)
LEMMA Invariance == Spec => []IInv
PROOF
<1>1. ASSUME Init PROVE IInv
  <2>1. chain = <<>> /\ <<>> \in Seq(Continuations) /\ DOMAIN chain = {}
    BY <1>1 DEF Init, PublicationInit
  <2>2. Types /\ ChainInv /\ CommitInv /\ ServedInv
    BY <1>1, <2>1 DEF Init, PublicationInit, Types, ChainInv, CommitInv, ServedInv, Awaited,
       Single, Saving, Working
  <2>3. ReadInv
    BY <1>1 DEF Init, PublicationInit, ReadInv, Told, NoRefresh, Idle, ServedVersion
  <2>4. TypeOK /\ WorkInv
    <3>1. /\ MaxRevisions \in Nat /\ MaxFaults \in Nat /\ MaxAttempts \in Nat
          /\ 0 \in Version /\ 1 \in 1..MaxRevisions + 1
      BY PublicationAssumption DEF Version
    <3>2. WorkInv
      BY <1>1 DEF Init, PublicationInit, WorkInv
    <3>3. PublicationTypeOK
      <4>1. snapshots \subseteq Revision /\ markers \subseteq Revision
        BY <1>1 DEF Init, PublicationInit
      <4>2. {pointer, marker, active, pending, target} \subseteq Version
        BY <1>1, <3>1 DEF Init, PublicationInit
      <4>3. attempt \in 0..MaxAttempts /\ waits \in 0..MaxAttempts /\ faults \in 0..MaxFaults
        BY <1>1, <3>1 DEF Init, PublicationInit
      <4>4. QED
        BY <1>1, <2>1, <3>1, <4>1, <4>2, <4>3
        DEF Init, PublicationInit, PublicationTypeOK, Timers, Statuses
    <3>4. ServedVersion = 0
      BY <1>1 DEF Init, PublicationInit, ServedVersion
    <3>5. PageTypes
      BY <1>1, <3>1, <3>4 DEF Init, PageTypes, Known, NoRefresh, Idle
    <3>6. QED
      BY <3>2, <3>3, <3>5 DEF TypeOK, PageTypes
  <2>5. \A S : ~Holds(chain, S)
    BY <2>1 DEF Holds
  <2>6. OldWaitsInv /\ WaitInv /\ AwakeInv
    BY <1>1, <2>1, <2>5, PrecedesNone
    DEF Init, PublicationInit, OldWaitsInv, WaitInv, AwakeInv, Followed, Saving, Working
  <2>7. QED
    BY <2>2, <2>3, <2>4, <2>6 DEF IInv
<1>2. ASSUME IInv, [Next]_vars PROVE IInv'
  <2>1. marker \in Nat
    BY <1>2 DEF IInv, Types
  <2>2. Types' /\ ChainInv' /\ CommitInv' /\ ServedInv' /\ ReadInv'
    BY <1>2, <2>1, PublicationStep, ServedStep, ReadStep DEF IInv
  <2>3. WorkInv' /\ OldWaitsInv' /\ WaitInv' /\ AwakeInv'
    BY <1>2, WorkStep, OldWaitsStep, WaitStep, AwakeStep DEF IInv
  <2>4. TypeOK'
    BY <1>2, <2>2, PublicationTypeStep, PageTypeStep DEF IInv, TypeOK, PageTypes
  <2>5. QED
    BY <2>2, <2>3, <2>4 DEF IInv
<1>3. QED
  BY <1>1, <1>2, PTL DEF Spec

(* Every variable keeps its type, and every counter its bound: attempts and*)
(* waits never pass the configured maximum.                                *)
THEOREM TypeCorrect == Spec => []TypeOK
PROOF
<1>1. IInv => TypeOK
  BY DEF IInv
<1>2. QED
  BY <1>1, Invariance, PTL

(* A recurring publication always has a timer, a step under way or a status*)
(* write to go on from, until it has given up waiting for the interface or *)
(* comes to its last revision: no order of the old waits, the owner's      *)
(* requests and the acknowledgements loses the last timer.                 *)
THEOREM NeverAsleep == Spec => []NeverIdle
PROOF
<1>1. ASSUME IInv
      PROVE  NeverIdle
  <2>1. Holds(chain, Lasting) \/ Holds(chain, Waits) => chain # <<>>
    BY DEF Holds
  <2>2. QED
    BY <1>1, <2>1 DEF IInv, AwakeInv, WaitInv, NeverIdle
<1>2. QED
  BY <1>1, Invariance, PTL

(* publishNext, its retries, the wait for the interface's commit and the   *)
(* acknowledgement never have two revisions open, in whatever order the    *)
(* timers fire and the status writes end.                                  *)
THEOREM OneOpen == Spec => []OnePublication
PROOF
<1>1. IInv => OnePublication
  BY DEF IInv, ChainInv, CommitInv, OnePublication, Awaited, Single
<1>2. QED
  BY <1>1, Invariance, PTL

(* A view that isVersionIdentityValid has compared with a version is of a  *)
(* revision whose marker is on disk, or the base: never of one that is     *)
(* being written, or whose pointer failed its verification.                *)
THEOREM CheckedViews == Spec => CheckedViewPublished
PROOF
<1>1. ASSUME IInv, [Next]_vars, view' # view
      PROVE  refresh.against \in {None, Blank} \/ view' \in markers \cup {0}
  <2>1. RefreshEnds
    <3>1. UNCHANGED view \/ RefreshEnds
      BY <1>1 DEF Next, vars, uiVars, viewVars, callVars, pollerVars, Polling, Viewing,
         Acknowledging,
         RefreshView, OpeningLoads, ReadScanner, CheckNow, VersionArrives, RetryDelayElapses,
         FetchStatus, SendAcknowledgement, AcknowledgementArrives, AcknowledgementLost
    <3>2. QED
      BY <1>1, <3>1
  <2>2. Accepted /\ view' = refresh.scanner
    BY <1>1, <2>1 DEF RefreshEnds
  <2>3. refresh.against \in Told
    BY <1>1 DEF IInv, ReadInv
  <2>4. QED
    BY <2>2, <2>3 DEF Accepted, Told
<1>2. IInv /\ [Next]_vars =>
        [view' # view => refresh.against \in {None, Blank} \/ view' \in markers \cup {0}]_vars
  BY <1>1
<1>3. QED
  BY <1>2, Invariance, PTL DEF Spec, CheckedViewPublished
=============================================================================
