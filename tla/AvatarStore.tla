----------------------------- MODULE AvatarStore ------------------------------
(***************************************************************************)
(* Candidates' pictures. A row of candidates names an object in the        *)
(* picture store, and no transaction spans the two: an upload stores the   *)
(* object first, then commits the reference and last deletes the object    *)
(* that the reference has replaced; if the commit fails it deletes what it *)
(* has stored. Every call to either side may fail, and the answer to a     *)
(* call that did its work may be lost.                                     *)
(*                                                                         *)
(* Every object has a name of its own (a fresh UUID), so an object is      *)
(* named by the request that stores it.                                    *)
(***************************************************************************)
EXTENDS Roster

CONSTANTS
  JobIds,     \* the requests to upload or to delete a picture
  ViewIds     \* the requests to look at one

ASSUME JobsAssumption == Null \notin JobIds

VARIABLES
  imageUrl,   \* CandidateIds -> candidates.image_url
  objects,    \* the objects in the store
  job,        \* JobIds -> an upload or a delete, and what it has read
  view,       \* ViewIds -> a download
  unsure,     \* history: objects whose reference was committed without an answer
  leaked      \* history: objects that a failed call has left for the lifecycle rules

avatarVars == <<imageUrl, objects, job, unsure, leaked>>
vars == <<electionVars, rosterVars, avatarVars, view>>

JobOutcomes == {"refused", "failed", "done"}

Job == [phase : {"idle", "uploading", "stored", "rollback", "deleting", "replaced"} \union JobOutcomes,
        candidate : CandidateIds \union {Null}, old : JobIds \union {Null}]

NoJob == [phase |-> "idle", candidate |-> Null, old |-> Null]

View == [phase : {"idle", "reading", "not_found", "shown", "missing"},
         candidate : CandidateIds \union {Null}, voter : BOOLEAN,
         image : JobIds \union {Null}, redrafted : BOOLEAN]

NoView == [phase |-> "idle", candidate |-> Null, voter |-> FALSE,
           image |-> Null, redrafted |-> FALSE]

AvatarTypeOK ==
  /\ ElectionsTypeOK /\ RosterTypeOK
  /\ imageUrl \in [CandidateIds -> JobIds \union {Null}]
  /\ objects \in SUBSET JobIds
  /\ job \in [JobIds -> Job]
  /\ view \in [ViewIds -> View]
  /\ unsure \in SUBSET JobIds /\ leaked \in SUBSET JobIds

-----------------------------------------------------------------------------
ElectionOf(k) == position[candidate[k].position].election

\* The two tests of the coordinator: the candidate is active, its election a draft.
PictureEditable(k) ==
  candidate[k].state = "active" /\ IsElectionEditable(ElectionOf(k))

JobAt(j, phase) == job' = [job EXCEPT ![j].phase = phase]

ToLeak(u) == leaked' = leaked \union ({u} \ {Null})

(* uploadAvatar, await by await. *)

BeginUpload(j, k) ==
  /\ job[j].phase = "idle"
  /\ PictureEditable(k)
  /\ job' = [job EXCEPT ![j] = [phase |-> "uploading", candidate |-> k, old |-> imageUrl[k]]]
  /\ UNCHANGED <<imageUrl, objects, unsure, leaked>>

Upload(j) ==
  /\ job[j].phase = "uploading"
  /\ objects' = objects \union {j}
  /\ JobAt(j, "stored")
  /\ UNCHANGED <<imageUrl, unsure, leaked>>

\* The file is refused, the store fails, or its answer is lost.
UploadFails(j) ==
  /\ job[j].phase = "uploading"
  /\ \/ UNCHANGED <<objects, leaked>>
     \/ objects' = objects \union {j} /\ ToLeak(j)
  /\ JobAt(j, "failed")
  /\ UNCHANGED <<imageUrl, unsure>>

\* Mutant: the transaction does not read the row again.
CommitStaleReference(j) ==
  LET k == job[j].candidate
  IN /\ job[j].phase = "stored"
     /\ PictureEditable(k)
     /\ imageUrl' = [imageUrl EXCEPT ![k] = j]
     /\ JobAt(j, "replaced")
     /\ UNCHANGED <<objects, unsure, leaked>>

\* Mutant: the transaction does not ask for a draft again.
CommitUnguarded(j) ==
  LET k == job[j].candidate
  IN /\ job[j].phase = "stored"
     /\ imageUrl' = [imageUrl EXCEPT ![k] = j]
     /\ job' = [job EXCEPT ![j] = [@ EXCEPT !.phase = "replaced", !.old = imageUrl[k]]]
     /\ UNCHANGED <<objects, unsure, leaked>>

CommitReference(j) ==
  LET k == job[j].candidate
  IN /\ job[j].phase = "stored"
     /\ PictureEditable(k)
     /\ imageUrl' = [imageUrl EXCEPT ![k] = j]
     /\ job' = [job EXCEPT ![j] = [@ EXCEPT !.phase = "replaced", !.old = imageUrl[k]]]
     /\ UNCHANGED <<objects, unsure, leaked>>

\* The transaction finds that the picture may not be changed, or it fails.
CommitFails(j) ==
  /\ job[j].phase = "stored"
  /\ JobAt(j, "rollback")
  /\ UNCHANGED <<imageUrl, objects, unsure, leaked>>

\* The transaction commits, and the request sees an error.
CommitAnswerLost(j) ==
  LET k == job[j].candidate
  IN /\ job[j].phase = "stored"
     /\ PictureEditable(k)
     /\ imageUrl' = [imageUrl EXCEPT ![k] = j]
     /\ unsure' = unsure \union {j}
     /\ ToLeak(imageUrl[k])
     /\ JobAt(j, "rollback")
     /\ UNCHANGED objects

\* Mutant: the compensation removes what the row names.
CompensateReferenced(j) ==
  /\ job[j].phase = "rollback"
  /\ objects' = objects \ {imageUrl[job[j].candidate]}
  /\ JobAt(j, "failed")
  /\ UNCHANGED <<imageUrl, unsure, leaked>>

\* The new object is deleted again.
Compensate(j) ==
  /\ job[j].phase = "rollback"
  /\ objects' = objects \ {j}
  /\ JobAt(j, "failed")
  /\ UNCHANGED <<imageUrl, unsure, leaked>>

CompensateFails(j) ==
  /\ job[j].phase = "rollback"
  /\ ToLeak(j)
  /\ JobAt(j, "failed")
  /\ UNCHANGED <<imageUrl, objects, unsure>>

\* The replaced object is deleted; there may be none.
DeleteOld(j) ==
  /\ job[j].phase = "replaced"
  /\ objects' = objects \ {job[j].old}
  /\ JobAt(j, "done")
  /\ UNCHANGED <<imageUrl, unsure, leaked>>

DeleteOldFails(j) ==
  /\ job[j].phase = "replaced"
  /\ job[j].old # Null
  /\ ToLeak(job[j].old)
  /\ JobAt(j, "done")
  /\ UNCHANGED <<imageUrl, objects, unsure>>

(* deleteAvatar *)

BeginDelete(j, k) ==
  /\ job[j].phase = "idle"
  /\ candidate[k].state # "unborn"
  /\ job' = [job EXCEPT ![j] = [phase |-> "deleting", candidate |-> k, old |-> imageUrl[k]]]
  /\ UNCHANGED <<imageUrl, objects, unsure, leaked>>

ClearReference(j) ==
  LET k == job[j].candidate
  IN /\ job[j].phase = "deleting"
     /\ PictureEditable(k)
     /\ imageUrl' = [imageUrl EXCEPT ![k] = Null]
     /\ job' = [job EXCEPT ![j] = [@ EXCEPT !.phase = "replaced", !.old = imageUrl[k]]]
     /\ UNCHANGED <<objects, unsure, leaked>>

ClearFails(j) ==
  /\ job[j].phase = "deleting"
  /\ JobAt(j, "refused")
  /\ UNCHANGED <<imageUrl, objects, unsure, leaked>>

ClearAnswerLost(j) ==
  LET k == job[j].candidate
  IN /\ job[j].phase = "deleting"
     /\ PictureEditable(k)
     /\ imageUrl' = [imageUrl EXCEPT ![k] = Null]
     /\ ToLeak(imageUrl[k])
     /\ JobAt(j, "failed")
     /\ UNCHANGED <<objects, unsure>>

ChangePicture(j) ==
  \/ \E k \in CandidateIds : BeginUpload(j, k) \/ BeginDelete(j, k)
  \/ Upload(j) \/ UploadFails(j)
  \/ CommitReference(j) \/ CommitFails(j) \/ CommitAnswerLost(j)
  \/ Compensate(j) \/ CompensateFails(j)
  \/ DeleteOld(j) \/ DeleteOldFails(j)
  \/ ClearReference(j) \/ ClearFails(j) \/ ClearAnswerLost(j)

-----------------------------------------------------------------------------
(* downloadAvatar: the row is read, then the object. The entity tag is a     *)
(* digest of the reference, so `not modified' says the same as `shown'.      *)

\* An administrator sees every candidate, a voter the active ones of an
\* election that is not a draft by the Worker's clock.
Visible(k, voter, t) ==
  voter => /\ candidate[k].state = "active"
           /\ EffectiveStatus(election[ElectionOf(k)], t) # "draft"

ReadReference(v, k, voter, t) ==
  /\ view[v].phase = "idle"
  /\ candidate[k].state # "unborn"
  /\ view' = [view EXCEPT ![v] =
                [NoView EXCEPT !.candidate = k, !.voter = voter,
                   !.phase = IF Visible(k, voter, t) /\ imageUrl[k] # Null THEN "reading" ELSE "not_found",
                   !.image = IF Visible(k, voter, t) THEN imageUrl[k] ELSE Null]]

Download(v) ==
  /\ view[v].phase = "reading"
  /\ view' = [view EXCEPT ![v].phase = IF view[v].image \in objects THEN "shown" ELSE "missing"]

Look(v) ==
  \/ \E k \in CandidateIds, voter \in BOOLEAN, t \in WorkerClock : ReadReference(v, k, voter, t)
  \/ Download(v)

BecomesDraft(e) == election'[e].status = "draft" /\ election[e].status # "draft"

\* History: the election has gone back to draft under the eyes of a viewer.
Redraft ==
  view' = [v \in ViewIds |->
             [view[v] EXCEPT !.redrafted =
                @ \/ (view[v].phase = "reading" /\ BecomesDraft(ElectionOf(view[v].candidate)))]]

-----------------------------------------------------------------------------
Init ==
  /\ ElectionsInit
  /\ RosterInit
  /\ imageUrl = [k \in CandidateIds |-> Null]
  /\ objects = {}
  /\ job = [j \in JobIds |-> NoJob]
  /\ view = [v \in ViewIds |-> NoView]
  /\ unsure = {} /\ leaked = {}

\* Whether the election has ballots is left open here.
ChangeElection(e) ==
  \/ EditElection(e)
  \/ \E to \in Statuses, opens \in OpenTimes \union {Null}, closes \in CloseTimes \union {Null},
        t \in WorkerClock, hasBallots \in BOOLEAN :
       Transition(e, to, opens, closes, t, FormComplete(e), hasBallots)

Next ==
  \/ Tick /\ UNCHANGED <<rosterVars, avatarVars, view>>
  \/ \E e \in ElectionIds :
       \/ ChangeElection(e) /\ Redraft /\ UNCHANGED <<rosterVars, avatarVars>>
       \/ EditRoster(e) /\ UNCHANGED <<electionVars, avatarVars, view>>
  \/ \E j \in JobIds : ChangePicture(j) /\ UNCHANGED <<electionVars, rosterVars, view>>
  \/ \E v \in ViewIds : Look(v) /\ UNCHANGED <<electionVars, rosterVars, avatarVars>>

Spec == Init /\ [][Next]_vars

-----------------------------------------------------------------------------
(* Properties. *)

Referenced == {imageUrl[k] : k \in CandidateIds} \ {Null}

\* A row never names an object that is gone, through any interleaving of
\* uploads, deletes, their failures and their compensation, with one exception:
\* the upload was told that its commit had failed when it had not, and its
\* compensation has deleted the picture that the row now names.
NoDanglingReference == Referenced \ objects \subseteq unsure

\* An object that no row names is on its way out, or was left by a call that
\* failed: when requests overlap, none forgets what another has stored.
OrphansAccountedFor ==
  \A u \in objects \ Referenced :
    \/ u \in leaked
    \/ job[u].phase \in {"stored", "rollback"}
    \/ \E j \in JobIds : job[j].phase = "replaced" /\ job[j].old = u

\* Outside of drafts pictures are settled: a voter who was given a reference
\* finds the object, unless the election went back to draft in between.
VoterFindsPicture ==
  \A v \in ViewIds :
    view[v].phase = "missing" /\ view[v].voter =>
      view[v].redrafted \/ view[v].image \in unsure
=============================================================================
