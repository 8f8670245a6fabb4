---------------------------- MODULE DraftingProofs -----------------------------
(***************************************************************************)
(* Theorems about what is prepared while an election is a draft:           *)
(* candidates' pictures, for any number of candidates, uploads, deletions  *)
(* and viewers; the order of positions, for lists of any length and orders *)
(* of any size; and both at once.                                          *)
(***************************************************************************)
EXTENDS Drafting, ElectionsProofs, FiniteSetTheorems, WellFoundedInduction

\* The phases of an upload that is past its commit.
Past == {"rollback", "failed", "replaced", "done"}

StoreTypeOK ==
  /\ imageUrl \in [CandidateIds -> JobIds \union {Null}]
  /\ objects \in SUBSET JobIds
  /\ job \in [JobIds -> Job]
  /\ unsure \in SUBSET JobIds /\ leaked \in SUBSET JobIds

\* Between its upload and its commit a picture is in the store.
StoredInv ==
  \A j \in JobIds : /\ job[j].phase # "idle" => job[j].candidate \in CandidateIds
                    /\ job[j].phase = "stored" => j \in objects

\* A reference is that of an upload for this very candidate, and the upload has
\* ended well, unless it was told otherwise.
ReferenceInv ==
  \A k \in CandidateIds :
    LET u == imageUrl[k]
    IN u # Null =>
         /\ candidate[k].state # "unborn"
         /\ job[u].candidate = k
         /\ job[u].phase \in Past
         /\ job[u].phase \in {"rollback", "failed"} => u \in unsure
         /\ u \in objects \union unsure

\* What a request is about to delete as replaced is named by nobody any more, and
\* its upload cannot be about to commit it.
ReplacedInv ==
  \A j \in JobIds :
    LET u == job[j].old
    IN job[j].phase = "replaced" /\ u # Null => u \notin Referenced /\ job[u].phase \in Past

StoreInv ==
  StoreTypeOK /\ StoredInv /\ ReferenceInv /\ ReplacedInv /\ OrphansAccountedFor

\* The reference a voter holds is still that of the row, while the election has
\* not gone back to draft; afterwards there is nothing to promise.
ViewInv ==
  /\ view \in [ViewIds -> View]
  /\ \A v \in ViewIds :
       view[v].phase = "reading" =>
         /\ view[v].candidate \in CandidateIds /\ view[v].image \in JobIds
         /\ view[v].voter /\ ~view[v].redrafted =>
              /\ imageUrl[view[v].candidate] = view[v].image
              /\ election[ElectionOf(view[v].candidate)].status # "draft"
  /\ VoterFindsPicture

AvatarInv == ElectionsInv /\ RosterInv /\ StoreInv /\ ViewInv

-----------------------------------------------------------------------------
(* Steps of one request. *)

\* Moving on changes the phase of one request only.
LEMMA JobAtRow ==
  ASSUME StoreTypeOK, NEW j \in JobIds, NEW phase, JobAt(j, phase),
         [job[j] EXCEPT !.phase = phase] \in Job
  PROVE  /\ job' \in [JobIds -> Job]
         /\ job'[j].phase = phase /\ job'[j].candidate = job[j].candidate /\ job'[j].old = job[j].old
         /\ \A i \in JobIds \ {j} : job'[i] = job[i]
  BY DEF StoreTypeOK, JobAt, Job

\* A step that writes no reference keeps the invariant when it deletes nothing
\* that is named or awaits its commit, and leaves every orphan to somebody.
LEMMA QuietStep ==
  ASSUME StoreInv, NEW j \in JobIds, StoreTypeOK',
         \A i \in JobIds \ {j} : job'[i] = job[i],
         job'[j].candidate \in CandidateIds,
         job'[j].phase = "stored" => j \in objects',
         job'[j].phase # "replaced",
         job[j].phase \in Past =>
           /\ job'[j].phase \in Past /\ job'[j].candidate = job[j].candidate
           /\ job'[j].phase = "failed" => job[j].phase = "rollback",
         job'[j].phase = "rollback" => job[j].phase \notin Past,
         \A i \in JobIds \ {j} : job[i].phase = "stored" /\ i \in objects => i \in objects',
         (objects \ objects') \intersect Referenced \subseteq unsure,
         OrphansAccountedFor',
         UNCHANGED <<imageUrl, unsure, candidate>>
  PROVE  StoreInv'
<1>1. StoredInv'
  BY DEF StoreInv, StoredInv
<1>2. ReferenceInv'
  <2> SUFFICES ASSUME NEW k \in CandidateIds, imageUrl[k] # Null
               PROVE  /\ candidate[k].state # "unborn"
                      /\ job'[imageUrl[k]].candidate = k
                      /\ job'[imageUrl[k]].phase \in Past
                      /\ job'[imageUrl[k]].phase \in {"rollback", "failed"} => imageUrl[k] \in unsure
                      /\ imageUrl[k] \in objects' \union unsure
    BY DEF ReferenceInv
  <2>1. imageUrl[k] \in JobIds /\ imageUrl[k] \in Referenced
    BY DEF StoreInv, StoreTypeOK, Referenced
  <2>2. QED
    BY <2>1 DEF StoreInv, ReferenceInv, Past
<1>3. ReplacedInv'
  <2> SUFFICES ASSUME NEW i \in JobIds, job'[i].phase = "replaced", job'[i].old # Null
               PROVE  job'[i].old \notin Referenced' /\ job'[job'[i].old].phase \in Past
    BY DEF ReplacedInv
  <2>1. i # j /\ job'[i] = job[i]
    OBVIOUS
  <2>2. job[i].old \in JobIds /\ Referenced' = Referenced
    BY <2>1 DEF StoreInv, StoreTypeOK, Job, Referenced
  <2>3. QED
    BY <2>1, <2>2 DEF StoreInv, ReplacedInv
<1>4. QED
  BY <1>1, <1>2, <1>3 DEF StoreInv

\* A step that replaces the reference of its candidate, by the picture it has
\* stored or by none, keeps the invariant.
LEMMA ReferenceStep ==
  ASSUME StoreInv, NEW j \in JobIds, NEW k \in CandidateIds, NEW new \in {j, Null},
         StoreTypeOK',
         job[j].candidate = k, candidate[k].state = "active",
         job[j].phase = "stored" \/ (job[j].phase = "deleting" /\ new = Null),
         imageUrl' = [imageUrl EXCEPT ![k] = new],
         \A i \in JobIds \ {j} : job'[i] = job[i],
         job'[j].candidate = k,
         job'[j].phase \in {"replaced", "rollback", "failed"},
         new = Null => job[j].phase = "deleting",
         new = j => job'[j].phase = "replaced" \/ (job'[j].phase = "rollback" /\ j \in unsure'),
         job'[j].phase = "replaced" => job'[j].old = imageUrl[k],
         job'[j].phase # "replaced" => imageUrl[k] \in leaked' \union {Null},
         leaked \subseteq leaked', unsure \subseteq unsure',
         UNCHANGED <<objects, candidate>>
  PROVE  StoreInv'
<1> USE JobsAssumption
<1>1. StoredInv'
  BY DEF StoreInv, StoredInv
<1>2. /\ imageUrl \in [CandidateIds -> JobIds \union {Null}]
      /\ \A c \in CandidateIds : imageUrl'[c] = IF c = k THEN new ELSE imageUrl[c]
  BY DEF StoreInv, StoreTypeOK
<1>3. \A c \in CandidateIds : imageUrl[c] # Null =>
        imageUrl[c] \in JobIds /\ imageUrl[c] # j /\ job[imageUrl[c]].candidate = c
  BY <1>2 DEF StoreInv, ReferenceInv, Past
<1>4. ReferenceInv'
  <2> SUFFICES ASSUME NEW c \in CandidateIds, imageUrl'[c] # Null
               PROVE  /\ candidate[c].state # "unborn"
                      /\ job'[imageUrl'[c]].candidate = c
                      /\ job'[imageUrl'[c]].phase \in Past
                      /\ job'[imageUrl'[c]].phase \in {"rollback", "failed"} => imageUrl'[c] \in unsure'
                      /\ imageUrl'[c] \in objects \union unsure'
    BY DEF ReferenceInv
  <2>1. CASE c = k
    BY <1>2, <2>1 DEF StoreInv, StoredInv, Past
  <2>2. CASE c # k
    BY <1>2, <1>3, <2>2 DEF StoreInv, ReferenceInv
  <2>3. QED
    BY <2>1, <2>2
<1>5. ReplacedInv'
  <2> SUFFICES ASSUME NEW i \in JobIds, job'[i].phase = "replaced", job'[i].old # Null
               PROVE  job'[i].old \notin Referenced' /\ job'[job'[i].old].phase \in Past
    BY DEF ReplacedInv
  <2>1. CASE i = j
    <3>1. job'[i].old = imageUrl[k] /\ imageUrl[k] \in JobIds \ {j}
      BY <1>3, <2>1
    <3>2. \A c \in CandidateIds : imageUrl'[c] # imageUrl[k]
      BY <1>2, <1>3, <3>1
    <3>3. QED
      BY <3>1, <3>2 DEF Referenced, StoreInv, ReferenceInv
  <2>2. CASE i # j
    <3>1. job'[i] = job[i] /\ job[i].old \in JobIds
      BY <2>2 DEF StoreInv, StoreTypeOK, Job
    <3>2. job[i].old \notin Referenced /\ job[job[i].old].phase \in Past
      BY <3>1 DEF StoreInv, ReplacedInv
    <3>3. job[i].old # j
      BY <3>2 DEF Past
    <3>4. QED
      BY <1>2, <3>1, <3>2, <3>3 DEF Referenced
  <2>3. QED
    BY <2>1, <2>2
<1>6. OrphansAccountedFor'
  <2> SUFFICES ASSUME NEW u \in objects, u \notin Referenced'
               PROVE  \/ u \in leaked'
                      \/ job'[u].phase \in {"stored", "rollback"}
                      \/ \E i \in JobIds : job'[i].phase = "replaced" /\ job'[i].old = u
    BY DEF OrphansAccountedFor
  <2>0. u \in JobIds /\ u # Null
    BY DEF StoreInv, StoreTypeOK
  <2>1. CASE u = imageUrl[k]
    BY <2>0, <2>1
  <2>2. CASE u # imageUrl[k]
    <3>1. u \notin Referenced
      BY <1>2, <2>2 DEF Referenced
    <3>2. u = j => job[j].phase = "deleting"
      <4>1. new = j => j \in Referenced'
        BY <1>2, <2>0 DEF Referenced
      <4>2. QED
        BY <4>1
    <3>3. \/ u \in leaked
          \/ job[u].phase \in {"stored", "rollback"}
          \/ \E i \in JobIds : job[i].phase = "replaced" /\ job[i].old = u
      BY <3>1 DEF StoreInv, OrphansAccountedFor
    <3>4. CASE job[u].phase \in {"stored", "rollback"}
      BY <2>0, <3>2, <3>4
    <3>5. ASSUME NEW i \in JobIds, job[i].phase = "replaced", job[i].old = u
          PROVE  job'[i].phase = "replaced" /\ job'[i].old = u
      BY <3>5
    <3>6. QED
      BY <3>3, <3>4, <3>5
  <2>3. QED
    BY <2>1, <2>2
<1>7. QED
  BY <1>1, <1>4, <1>5, <1>6 DEF StoreInv

\* A new phase leaves the row of a request well formed.
LEMMA JobAtType ==
  ASSUME StoreTypeOK, NEW j \in JobIds, NEW phase, JobAt(j, phase),
         phase \in {"stored", "rollback", "deleting", "refused", "failed", "done"}
  PROVE  [job[j] EXCEPT !.phase = phase] \in Job
  BY DEF StoreTypeOK, Job, JobOutcomes

\* A request that begins has no part in the store yet.
LEMMA BeginInv ==
  ASSUME StoreInv, NEW j \in JobIds, NEW k \in CandidateIds, UNCHANGED candidate,
         BeginUpload(j, k) \/ BeginDelete(j, k)
  PROVE  StoreInv'
<1> PICK phase \in {"uploading", "deleting"} :
      /\ job[j].phase = "idle"
      /\ job' = [job EXCEPT ![j] = [phase |-> phase, candidate |-> k, old |-> imageUrl[k]]]
      /\ UNCHANGED <<imageUrl, objects, unsure, leaked>>
  BY DEF BeginUpload, BeginDelete
<1> DEFINE row == [phase |-> phase, candidate |-> k, old |-> imageUrl[k]]
<1>1. row \in Job /\ row.phase = phase /\ row.candidate = k
  BY DEF StoreInv, StoreTypeOK, Job
<1>2. job' = [job EXCEPT ![j] = row]
  OBVIOUS
<1> HIDE DEF row
<1>3. job'[j] = row /\ \A i \in JobIds \ {j} : job'[i] = job[i]
  BY <1>2 DEF StoreInv, StoreTypeOK
<1>4. StoreTypeOK'
  BY <1>1, <1>2 DEF StoreInv, StoreTypeOK
<1>5. OrphansAccountedFor'
  BY <1>1, <1>3 DEF StoreInv, StoreTypeOK, OrphansAccountedFor, Referenced
<1>6. QED
  BY <1>1, <1>3, <1>4, <1>5, QuietStep DEF Past, StoreInv, StoredInv

\* What an upload has stored awaits its commit, or was left by a failed call.
LEMMA UploadInv ==
  ASSUME StoreInv, NEW j \in JobIds, UNCHANGED candidate, Upload(j) \/ UploadFails(j)
  PROVE  StoreInv'
<1> PICK phase \in {"stored", "failed"} :
      /\ job[j].phase = "uploading" /\ JobAt(j, phase)
      /\ objects' \in {objects, objects \union {j}}
      /\ phase = "stored" => j \in objects'
      /\ phase = "failed" /\ j \in objects' => j \in objects \/ j \in leaked'
      /\ leaked' \in {leaked, leaked \union ({j} \ {Null})}
      /\ UNCHANGED <<imageUrl, unsure>>
  BY JobsAssumption DEF Upload, UploadFails, ToLeak
<1>1. [job[j] EXCEPT !.phase = phase] \in Job
  BY JobAtType DEF StoreInv
<1>2. /\ job' \in [JobIds -> Job]
      /\ job'[j].phase = phase /\ job'[j].candidate = job[j].candidate
      /\ \A i \in JobIds \ {j} : job'[i] = job[i]
  BY <1>1, JobAtRow DEF StoreInv
<1>3. StoreTypeOK'
  BY <1>2 DEF StoreInv, StoreTypeOK
<1>4. OrphansAccountedFor'
  BY <1>2 DEF StoreInv, StoreTypeOK, OrphansAccountedFor, Referenced
<1>5. QED
  BY <1>2, <1>3, <1>4, QuietStep DEF Past, StoreInv, StoredInv

\* What an upload takes back is named by nobody, unless its commit was lost.
LEMMA RollBackInv ==
  ASSUME StoreInv, NEW j \in JobIds, UNCHANGED candidate,
         CommitFails(j) \/ Compensate(j) \/ CompensateFails(j)
  PROVE  StoreInv'
<1> PICK phase \in {"rollback", "failed"} :
      /\ job[j].phase = IF phase = "rollback" THEN "stored" ELSE "rollback"
      /\ JobAt(j, phase)
      /\ objects' \in {objects, objects \ {j}}
      /\ phase = "rollback" => objects' = objects
      /\ phase = "failed" /\ j \in objects' => j \in leaked'
      /\ leaked' \in {leaked, leaked \union ({j} \ {Null})}
      /\ UNCHANGED <<imageUrl, unsure>>
  BY JobsAssumption DEF CommitFails, Compensate, CompensateFails, ToLeak
<1>1. [job[j] EXCEPT !.phase = phase] \in Job
  BY JobAtType DEF StoreInv
<1>2. /\ job' \in [JobIds -> Job]
      /\ job'[j].phase = phase /\ job'[j].candidate = job[j].candidate
      /\ \A i \in JobIds \ {j} : job'[i] = job[i]
  BY <1>1, JobAtRow DEF StoreInv
<1>3. StoreTypeOK'
  BY <1>2 DEF StoreInv, StoreTypeOK
<1>4. OrphansAccountedFor'
  BY <1>2 DEF StoreInv, StoreTypeOK, OrphansAccountedFor, Referenced
<1>5. phase = "failed" /\ j \in Referenced => j \in unsure
  BY DEF StoreInv, ReferenceInv, Referenced
<1>6. QED
  BY <1>2, <1>3, <1>4, <1>5, QuietStep DEF Past, StoreInv, StoredInv

\* What a request deletes as replaced is named by nobody.
LEMMA DeleteOldInv ==
  ASSUME StoreInv, NEW j \in JobIds, UNCHANGED candidate, DeleteOld(j) \/ DeleteOldFails(j)
  PROVE  StoreInv'
<1> USE JobsAssumption
<1> DEFINE u == job[j].old
<1>0. /\ job[j].phase = "replaced" /\ JobAt(j, "done")
      /\ objects' \in {objects, objects \ {u}}
      /\ u \in objects' => u \in leaked'
      /\ leaked' \in {leaked, leaked \union ({u} \ {Null})}
      /\ UNCHANGED <<imageUrl, unsure>>
  BY DEF DeleteOld, DeleteOldFails, ToLeak
<1>1. u \in JobIds \union {Null}
  BY DEF StoreInv, StoreTypeOK, Job
<1>2. u \in JobIds => u \notin Referenced /\ job[u].phase \in Past
  BY <1>0 DEF StoreInv, ReplacedInv
<1>3. [job[j] EXCEPT !.phase = "done"] \in Job
  BY <1>0, JobAtType DEF StoreInv
<1>4. /\ job' \in [JobIds -> Job]
      /\ job'[j].phase = "done" /\ job'[j].candidate = job[j].candidate
      /\ \A i \in JobIds \ {j} : job'[i] = job[i]
  BY <1>0, <1>3, JobAtRow DEF StoreInv
<1>5. StoreTypeOK'
  BY <1>0, <1>1, <1>4 DEF StoreInv, StoreTypeOK
<1>6. OrphansAccountedFor'
  <2> SUFFICES ASSUME NEW w \in objects', w \notin Referenced
               PROVE  \/ w \in leaked'
                      \/ job'[w].phase \in {"stored", "rollback"}
                      \/ \E i \in JobIds : job'[i].phase = "replaced" /\ job'[i].old = w
    BY <1>0 DEF OrphansAccountedFor, Referenced
  <2>1. w \in objects /\ w \in JobIds
    BY <1>0 DEF StoreInv, StoreTypeOK
  <2>2. CASE w = u
    BY <1>0, <2>2
  <2>3. CASE w # u
    <3>1. \/ w \in leaked
          \/ job[w].phase \in {"stored", "rollback"}
          \/ \E i \in JobIds \ {j} : job[i].phase = "replaced" /\ job[i].old = w
      BY <2>1, <2>3 DEF StoreInv, OrphansAccountedFor
    <3> HIDE DEF u
    <3>2. QED
      BY <1>0, <1>4, <2>1, <3>1
  <2>4. QED
    BY <2>2, <2>3
<1> HIDE DEF u
<1>7. \A i \in JobIds : job[i].phase = "stored" /\ i \in objects => i \in objects'
  BY <1>0, <1>2 DEF Past
<1>8. (objects \ objects') \intersect Referenced \subseteq unsure
  BY <1>0, <1>1, <1>2 DEF StoreInv, StoreTypeOK
<1>9. QED
  BY <1>0, <1>4, <1>5, <1>6, <1>7, <1>8, QuietStep DEF Past, StoreInv, StoredInv

\* A deletion that is refused changes nothing.
LEMMA ClearFailsInv ==
  ASSUME StoreInv, NEW j \in JobIds, UNCHANGED candidate, ClearFails(j)
  PROVE  StoreInv'
<1>0. /\ job[j].phase = "deleting" /\ JobAt(j, "refused")
      /\ UNCHANGED <<imageUrl, objects, unsure, leaked>>
  BY DEF ClearFails
<1>1. [job[j] EXCEPT !.phase = "refused"] \in Job
  BY <1>0, JobAtType DEF StoreInv
<1>2. /\ job' \in [JobIds -> Job]
      /\ job'[j].phase = "refused" /\ job'[j].candidate = job[j].candidate
      /\ \A i \in JobIds \ {j} : job'[i] = job[i]
  BY <1>0, <1>1, JobAtRow DEF StoreInv
<1>3. StoreTypeOK'
  BY <1>0, <1>2 DEF StoreInv, StoreTypeOK
<1>4. OrphansAccountedFor'
  BY <1>0, <1>2 DEF StoreInv, StoreTypeOK, OrphansAccountedFor, Referenced
<1>5. QED
  BY <1>0, <1>2, <1>3, <1>4, QuietStep DEF Past, StoreInv, StoredInv

\* The four ends of a transaction that changes the reference.
LEMMA WriteReferenceInv ==
  ASSUME StoreInv, NEW j \in JobIds, UNCHANGED candidate,
         \/ CommitReference(j) \/ CommitAnswerLost(j)
         \/ ClearReference(j) \/ ClearAnswerLost(j)
  PROVE  StoreInv'
<1> USE JobsAssumption
<1> DEFINE k == job[j].candidate
           new == IF job[j].phase = "stored" THEN j ELSE Null
<1>1. job[j].phase \in {"stored", "deleting"}
  BY DEF CommitReference, CommitAnswerLost, ClearReference, ClearAnswerLost
<1>2. k \in CandidateIds /\ candidate[k].state = "active"
  BY <1>1 DEF StoreInv, StoredInv, CommitReference, CommitAnswerLost, ClearReference,
              ClearAnswerLost, PictureEditable
<1>3. imageUrl' = [imageUrl EXCEPT ![k] = new] /\ UNCHANGED objects
  BY DEF CommitReference, CommitAnswerLost, ClearReference, ClearAnswerLost
<1>4. imageUrl[k] \in JobIds \union {Null}
  BY <1>2 DEF StoreInv, StoreTypeOK
<1>5. /\ job' \in [JobIds -> Job]
      /\ \A i \in JobIds \ {j} : job'[i] = job[i]
      /\ job'[j].candidate = k
      /\ job'[j].phase \in {"replaced", "rollback", "failed"}
      /\ job'[j].phase = "replaced" => job'[j].old = imageUrl[k]
      /\ job'[j].phase # "replaced" => leaked' = leaked \union ({imageUrl[k]} \ {Null})
      /\ job'[j].phase = "replaced" => UNCHANGED <<unsure, leaked>>
      /\ unsure' \in {unsure, unsure \union {j}}
      /\ new = j => job'[j].phase = "replaced" \/ (job'[j].phase = "rollback" /\ j \in unsure')
  <2>1. CASE CommitReference(j) \/ ClearReference(j)
    <3> DEFINE row == [job[j] EXCEPT !.phase = "replaced", !.old = imageUrl[k]]
    <3>1. row \in Job /\ row.phase = "replaced" /\ row.old = imageUrl[k] /\ row.candidate = k
      BY <1>4 DEF StoreInv, StoreTypeOK, Job
    <3>2. job' = [job EXCEPT ![j] = row] /\ UNCHANGED <<unsure, leaked>>
      BY <2>1 DEF CommitReference, ClearReference
    <3> HIDE DEF row
    <3>3. job' \in [JobIds -> Job] /\ job'[j] = row /\ \A i \in JobIds \ {j} : job'[i] = job[i]
      BY <3>1, <3>2 DEF StoreInv, StoreTypeOK
    <3>4. QED
      BY <3>1, <3>2, <3>3
  <2>2. CASE CommitAnswerLost(j)
    <3>1. JobAt(j, "rollback") /\ unsure' = unsure \union {j} /\ ToLeak(imageUrl[k])
      BY <2>2 DEF CommitAnswerLost
    <3>2. [job[j] EXCEPT !.phase = "rollback"] \in Job
      BY <3>1, JobAtType DEF StoreInv
    <3>3. QED
      BY <3>1, <3>2, JobAtRow DEF StoreInv, ToLeak
  <2>3. CASE ClearAnswerLost(j)
    <3>1. /\ JobAt(j, "failed") /\ UNCHANGED unsure /\ ToLeak(imageUrl[k])
          /\ job[j].phase = "deleting"
      BY <2>3 DEF ClearAnswerLost
    <3>2. [job[j] EXCEPT !.phase = "failed"] \in Job
      BY <3>1, JobAtType DEF StoreInv
    <3>3. QED
      BY <3>1, <3>2, JobAtRow DEF StoreInv, ToLeak
  <2>4. QED
    BY <2>1, <2>2, <2>3
<1>6. new \in {j, Null} /\ (new = Null => job[j].phase = "deleting")
      /\ (job[j].phase = "stored" \/ (job[j].phase = "deleting" /\ new = Null))
  BY <1>1
<1> HIDE DEF k, new
<1>7. StoreTypeOK'
  BY <1>2, <1>3, <1>4, <1>5, <1>6 DEF StoreInv, StoreTypeOK
<1>8. QED
  BY <1>2, <1>3, <1>4, <1>5, <1>6, <1>7, ReferenceStep DEF k

\* Whatever a request to change a picture does next keeps the invariant.
LEMMA ChangePictureStore ==
  ASSUME StoreInv, NEW j \in JobIds, UNCHANGED candidate, ChangePicture(j)
  PROVE  StoreInv'
  BY BeginInv, UploadInv, RollBackInv, DeleteOldInv, ClearFailsInv, WriteReferenceInv
     DEF ChangePicture

-----------------------------------------------------------------------------
(* What the store and the elections mean for those who look. *)

\* Only the picture of a candidate in a draft changes, so what voters hold stays.
LEMMA ChangePictureViews ==
  ASSUME AvatarInv, NEW j \in JobIds, ChangePicture(j),
         UNCHANGED <<electionVars, rosterVars, view>>
  PROVE  ViewInv'
<1>1. unsure \subseteq unsure'
  BY DEF ChangePicture, BeginUpload, Upload, UploadFails, CommitReference, CommitFails,
         CommitAnswerLost, Compensate, CompensateFails, DeleteOld, DeleteOldFails, BeginDelete,
         ClearReference, ClearFails, ClearAnswerLost
<1>2. ASSUME NEW c \in CandidateIds, election[ElectionOf(c)].status # "draft"
      PROVE  imageUrl'[c] = imageUrl[c]
  <2>1. CASE UNCHANGED imageUrl
    BY <2>1
  <2>2. ASSUME NEW k, NEW new, PictureEditable(k), imageUrl' = [imageUrl EXCEPT ![k] = new]
        PROVE  imageUrl'[c] = imageUrl[c]
    <3>1. c # k
      BY <1>2, <2>2 DEF PictureEditable, IsElectionEditable
    <3>2. QED
      BY <2>2, <3>1 DEF AvatarInv, StoreInv, StoreTypeOK
  <2>3. QED
    BY <2>1, <2>2
       DEF ChangePicture, BeginUpload, Upload, UploadFails, CommitReference, CommitFails,
           CommitAnswerLost, Compensate, CompensateFails, DeleteOld, DeleteOldFails, BeginDelete,
           ClearReference, ClearFails, ClearAnswerLost
<1>3. UNCHANGED <<election, position, candidate>>
  BY DEF electionVars, rosterVars
<1>4. QED
  BY <1>1, <1>2, <1>3 DEF AvatarInv, ViewInv, VoterFindsPicture, ElectionOf

\* A viewer reads a reference that is there, and then finds it, or is excused.
LEMMA LookInv ==
  ASSUME AvatarInv, NEW v \in ViewIds, Look(v),
         UNCHANGED <<electionVars, rosterVars, avatarVars>>
  PROVE  ViewInv'
<1>0. /\ UNCHANGED <<election, position, candidate, imageUrl, objects, unsure>>
      /\ view \in [ViewIds -> View]
      /\ \A k \in CandidateIds : ElectionOf(k)' = ElectionOf(k)
  BY DEF electionVars, rosterVars, avatarVars, AvatarInv, ViewInv, ElectionOf
<1>1. ASSUME NEW k \in CandidateIds, NEW voter \in BOOLEAN, NEW t \in WorkerClock,
             ReadReference(v, k, voter, t)
      PROVE  ViewInv'
  <2> DEFINE row == [NoView EXCEPT !.candidate = k, !.voter = voter,
                       !.phase = IF Visible(k, voter, t) /\ imageUrl[k] # Null
                                   THEN "reading" ELSE "not_found",
                       !.image = IF Visible(k, voter, t) THEN imageUrl[k] ELSE Null]
  <2>1. imageUrl[k] \in JobIds \union {Null}
    BY DEF AvatarInv, StoreInv, StoreTypeOK
  <2>2. /\ row \in View /\ row.candidate = k /\ row.voter = voter /\ row.phase # "missing"
        /\ row.phase = "reading" =>
             Visible(k, voter, t) /\ row.image = imageUrl[k] /\ row.image \in JobIds
    BY <2>1 DEF View, NoView
  <2>3. view' = [view EXCEPT ![v] = row]
    BY <1>1 DEF ReadReference
  <2>4. row.phase = "reading" /\ voter => election[ElectionOf(k)].status # "draft"
    BY <2>2 DEF Visible, EffectiveStatus
  <2> HIDE DEF row
  <2>5. view' \in [ViewIds -> View] /\ \A w \in ViewIds : view'[w] = IF w = v THEN row ELSE view[w]
    BY <1>0, <2>2, <2>3
  <2>6. QED
    BY <1>0, <2>2, <2>4, <2>5 DEF AvatarInv, ViewInv, VoterFindsPicture
<1>2. CASE Download(v)
  <2> DEFINE phase == IF view[v].image \in objects THEN "shown" ELSE "missing"
             row == [view[v] EXCEPT !.phase = phase]
  <2>1. /\ row \in View /\ row.phase = phase /\ row.candidate = view[v].candidate
        /\ row.voter = view[v].voter /\ row.image = view[v].image
        /\ row.redrafted = view[v].redrafted
    BY <1>0 DEF View
  <2>2. view' = [view EXCEPT ![v] = row]
    BY <1>2 DEF Download
  <2>3. phase = "missing" /\ view[v].voter => view[v].redrafted \/ view[v].image \in unsure
    <3> SUFFICES ASSUME view[v].image \notin objects, view[v].voter, ~view[v].redrafted
                 PROVE  view[v].image \in unsure
      BY Zenon
    <3>1. /\ view[v].candidate \in CandidateIds /\ view[v].image \in JobIds
          /\ imageUrl[view[v].candidate] = view[v].image
      BY <1>2 DEF Download, AvatarInv, ViewInv
    <3>2. QED
      BY <3>1, JobsAssumption DEF AvatarInv, StoreInv, ReferenceInv
  <2> HIDE DEF row
  <2>4. view' \in [ViewIds -> View] /\ \A w \in ViewIds : view'[w] = IF w = v THEN row ELSE view[w]
    BY <1>0, <2>1, <2>2
  <2>5. QED
    BY <1>0, <2>1, <2>3, <2>4 DEF AvatarInv, ViewInv, VoterFindsPicture
<1>3. QED
  BY <1>1, <1>2 DEF Look

\* An election that goes back to draft releases its viewers; any other change of
\* an election leaves it outside of drafts.
LEMMA ChangeElectionViews ==
  ASSUME AvatarInv, Redraft, UNCHANGED <<rosterVars, avatarVars>>
  PROVE  ViewInv'
<1>1. /\ UNCHANGED <<position, candidate, imageUrl, objects, unsure>>
      /\ view \in [ViewIds -> View]
      /\ \A k \in CandidateIds : ElectionOf(k)' = ElectionOf(k)
  BY DEF rosterVars, avatarVars, AvatarInv, ViewInv, ElectionOf
<1>2. ASSUME NEW v \in ViewIds
      PROVE  /\ view'[v] \in View
             /\ view'[v].phase = view[v].phase /\ view'[v].candidate = view[v].candidate
             /\ view'[v].voter = view[v].voter /\ view'[v].image = view[v].image
             /\ view[v].redrafted => view'[v].redrafted
             /\ view[v].phase = "reading" /\ BecomesDraft(ElectionOf(view[v].candidate))
                  => view'[v].redrafted
  <2> DEFINE mark == view[v].redrafted \/
                       (view[v].phase = "reading" /\ BecomesDraft(ElectionOf(view[v].candidate)))
  <2>1. view'[v] = [view[v] EXCEPT !.redrafted = mark]
    BY DEF Redraft
  <2>2. mark \in BOOLEAN
    <3> HIDE DEF BecomesDraft
    <3>1. view[v].redrafted \in BOOLEAN
      BY <1>1 DEF View
    <3>2. QED
      BY <3>1, Zenon DEF BecomesDraft
  <2> HIDE DEF mark
  <2>3. /\ view'[v] \in View /\ view'[v].redrafted = mark
        /\ view'[v].phase = view[v].phase /\ view'[v].candidate = view[v].candidate
        /\ view'[v].voter = view[v].voter /\ view'[v].image = view[v].image
    BY <1>1, <2>1, <2>2 DEF View
  <2>4. QED
    BY <2>3, Zenon DEF mark
<1>3. view' \in [ViewIds -> View]
  BY <1>2 DEF Redraft
<1>4. \A k \in CandidateIds : election[ElectionOf(k)].status # "draft" /\ ~BecomesDraft(ElectionOf(k))
        => election'[ElectionOf(k)].status # "draft"
  BY DEF BecomesDraft
<1>5. QED
  BY <1>1, <1>2, <1>3, <1>4 DEF AvatarInv, ViewInv, VoterFindsPicture

\* Candidates that have pictures stay in their elections.
LEMMA EditRosterViews ==
  ASSUME AvatarInv, NEW e \in ElectionIds, EditRoster(e),
         UNCHANGED <<electionVars, avatarVars, view>>
  PROVE  StoreInv' /\ ViewInv'
<1>1. UNCHANGED <<election, imageUrl, objects, job, unsure, leaked, view>>
  BY DEF electionVars, avatarVars
<1>2. ASSUME NEW k \in CandidateIds, candidate[k].state # "unborn"
      PROVE  candidate'[k].state # "unborn" /\ ElectionOf(k)' = ElectionOf(k)
  BY <1>2, EditRosterKeeps DEF AvatarInv, ElectionOf
<1>3. StoreInv'
  BY <1>1, <1>2 DEF AvatarInv, StoreInv, StoreTypeOK, StoredInv, ReferenceInv, ReplacedInv,
                    OrphansAccountedFor, Referenced
<1>4. ViewInv'
  <2>1. ASSUME NEW v \in ViewIds, view[v].phase = "reading", view[v].voter, ~view[v].redrafted
        PROVE  ElectionOf(view[v].candidate)' = ElectionOf(view[v].candidate)
    <3>1. /\ view[v].candidate \in CandidateIds /\ view[v].image \in JobIds
          /\ imageUrl[view[v].candidate] = view[v].image
      BY <2>1 DEF AvatarInv, ViewInv
    <3>2. candidate[view[v].candidate].state # "unborn"
      BY <3>1, JobsAssumption DEF AvatarInv, StoreInv, ReferenceInv
    <3>3. QED
      BY <1>1, <1>2, <3>1, <3>2
  <2>2. QED
    BY <1>1, <2>1 DEF AvatarInv, ViewInv, VoterFindsPicture
<1>5. QED
  BY <1>3, <1>4

-----------------------------------------------------------------------------
\* Nothing stored, nothing named, nobody looking.
LEMMA AvatarInitInv == Init => AvatarInv
<1> SUFFICES ASSUME Init PROVE AvatarInv
  OBVIOUS
<1>1. ElectionsInv /\ RosterInv
  BY ElectionsInitInv, RosterInitInv DEF Init
<1>2. StoreInv
  BY DEF Init, NoJob, Job, StoreInv, StoreTypeOK, StoredInv, ReferenceInv, ReplacedInv,
         OrphansAccountedFor
<1>3. ViewInv
  BY DEF Init, NoView, View, ViewInv, VoterFindsPicture
<1>4. QED
  BY <1>1, <1>2, <1>3 DEF AvatarInv

\* Every step of the system keeps the invariant.
LEMMA AvatarNextInv == AvatarInv /\ [Next]_vars => AvatarInv'
<1> SUFFICES ASSUME AvatarInv, [Next]_vars PROVE AvatarInv'
  OBVIOUS
<1>1. ASSUME UNCHANGED rosterVars
      PROVE  RosterInv'
  BY <1>1 DEF AvatarInv, RosterInv, RosterTypeOK, rosterVars
<1>2. ASSUME UNCHANGED <<rosterVars, avatarVars>>
      PROVE  StoreInv'
  BY <1>2 DEF AvatarInv, StoreInv, StoreTypeOK, StoredInv, ReferenceInv, ReplacedInv,
              OrphansAccountedFor, Referenced, rosterVars, avatarVars
<1>3. ASSUME UNCHANGED electionVars
      PROVE  ElectionsInv'
  BY <1>3 DEF electionVars, AvatarInv, ElectionsInv, ElectionsTypeOK, OneOpenElection, IdxOneOpen,
              OpenHasWindow, OpenElections
<1>4. ASSUME UNCHANGED <<election, rosterVars, avatarVars, view>>
      PROVE  ViewInv'
  BY <1>4 DEF AvatarInv, ViewInv, VoterFindsPicture, ElectionOf, rosterVars, avatarVars
<1>5. CASE Tick /\ UNCHANGED <<rosterVars, avatarVars, view>>
  BY <1>1, <1>2, <1>4, <1>5, TickInv DEF AvatarInv, Tick
<1>6. ASSUME NEW e \in ElectionIds, ChangeElection(e), Redraft, UNCHANGED <<rosterVars, avatarVars>>
      PROVE  AvatarInv'
  <2>1. ElectionsInv'
    BY <1>6, EditElectionInv, TransitionInv DEF ChangeElection, Inputs, AvatarInv
  <2>2. QED
    BY <1>1, <1>2, <1>6, <2>1, ChangeElectionViews DEF AvatarInv
<1>7. ASSUME NEW e \in ElectionIds, EditRoster(e), UNCHANGED <<electionVars, avatarVars, view>>
      PROVE  AvatarInv'
  BY <1>3, <1>7, EditRosterInv, EditRosterViews DEF AvatarInv
<1>8. ASSUME NEW j \in JobIds, ChangePicture(j), UNCHANGED <<electionVars, rosterVars, view>>
      PROVE  AvatarInv'
  <2>1. StoreInv'
    BY <1>8, ChangePictureStore DEF AvatarInv, rosterVars
  <2>2. QED
    BY <1>1, <1>3, <1>8, <2>1, ChangePictureViews DEF AvatarInv
<1>9. ASSUME NEW v \in ViewIds, Look(v), UNCHANGED <<electionVars, rosterVars, avatarVars>>
      PROVE  AvatarInv'
  BY <1>1, <1>2, <1>3, <1>9, LookInv DEF AvatarInv
<1>10. CASE UNCHANGED vars
  BY <1>1, <1>2, <1>3, <1>4, <1>10 DEF AvatarInv, vars, electionVars
<1>11. QED
  BY <1>5, <1>6, <1>7, <1>8, <1>9, <1>10 DEF Next

\* The invariant of the picture store, for any candidates, requests and viewers.
THEOREM AvatarInvariant == Spec => []AvatarInv
<1>1. QED
  BY AvatarInitInv, AvatarNextInv, PTL DEF Spec

\* Rows, objects, requests and viewers always have their types.
THEOREM AvatarTypeCorrect == Spec => []AvatarTypeOK
<1>1. AvatarInv => AvatarTypeOK
  BY DEF AvatarInv, ElectionsInv, RosterInv, StoreInv, StoreTypeOK, ViewInv, AvatarTypeOK
<1>2. QED
  BY <1>1, AvatarInvariant, PTL

\* A row names a missing picture only when the upload was misled about its commit.
THEOREM NoDanglingReferenceCorrect == Spec => []NoDanglingReference
<1>1. AvatarInv => NoDanglingReference
  BY DEF AvatarInv, StoreInv, ReferenceInv, NoDanglingReference, Referenced
<1>2. QED
  BY <1>1, AvatarInvariant, PTL

\* No picture is forgotten unless a call has failed.
THEOREM OrphansCorrect == Spec => []OrphansAccountedFor
<1>1. AvatarInv => OrphansAccountedFor
  BY DEF AvatarInv, StoreInv
<1>2. QED
  BY <1>1, AvatarInvariant, PTL

\* A voter who was given a reference finds the picture.
THEOREM VoterFindsPictureCorrect == Spec => []VoterFindsPicture
<1>1. AvatarInv => VoterFindsPicture
  BY DEF AvatarInv, ViewInv
<1>2. QED
  BY <1>1, AvatarInvariant, PTL

-----------------------------------------------------------------------------
(* The order of positions. First, the extremes of finite sets. *)

\* Every non-empty finite set of integers has a least and a greatest element: a
\* smallest subset without one would have one element, or an element to spare.
LEMMA ExtremesExist ==
  ASSUME NEW S, S \subseteq Int, S # {}, IsFiniteSet(S)
  PROVE  /\ \E m \in S : \A n \in S : m <= n
         /\ \E m \in S : \A n \in S : n <= m
<1> DEFINE Bounded(X) == (\E m \in X : \A n \in X : m <= n) /\ (\E m \in X : \A n \in X : n <= m)
           Bad == {X \in SUBSET S : X # {} /\ ~Bounded(X)}
<1>1. SUFFICES ASSUME S \in Bad PROVE FALSE
  OBVIOUS
<1>2. IsWellFoundedOn(StrictSubsetOrdering(S), FiniteSubsetsOf(S)) /\ FiniteSubsetsOf(S) = SUBSET S
  BY FS_StrictSubsetOrderingWellFounded, FS_FiniteSubsetsOfFinite
<1>3. PICK X \in Bad : \A Y \in Bad : ~(<<Y, X>> \in StrictSubsetOrdering(S))
  <2>1. Bad \subseteq FiniteSubsetsOf(S) /\ Bad # {}
    BY <1>1, <1>2
  <2> HIDE DEF Bad
  <2>2. QED
    BY <1>2, <2>1, WFMin
<1>4. PICK x \in X : TRUE
  OBVIOUS
<1> DEFINE Y == X \ {x}
<1>5. X \in SUBSET S /\ Y \in SUBSET S /\ x \in Int /\ <<Y, X>> \in StrictSubsetOrdering(S)
  BY <1>4 DEF StrictSubsetOrdering
<1>6. CASE Y = {}
  <2>1. X = {x}
    BY <1>4, <1>6
  <2>2. QED
    BY <1>5, <2>1
<1>7. CASE Y # {}
  <2>1. Bounded(Y)
    BY <1>3, <1>5, <1>7
  <2>2. PICK low, high \in Y : \A n \in Y : low <= n /\ n <= high
    BY <2>1
  <2>3. \E m \in X : \A n \in X : m <= n
    <3>1. CASE x <= low
      <4>1. \A n \in X : x <= n
        BY <1>5, <2>2, <3>1
      <4>2. QED
        BY <1>4, <4>1
    <3>2. CASE low <= x
      <4>1. \A n \in X : low <= n
        BY <1>5, <2>2, <3>2
      <4>2. QED
        BY <2>2, <4>1
    <3>3. QED
      BY <1>5, <2>2, <3>1, <3>2
  <2>4. \E m \in X : \A n \in X : n <= m
    <3>1. CASE high <= x
      <4>1. \A n \in X : n <= x
        BY <1>5, <2>2, <3>1
      <4>2. QED
        BY <1>4, <4>1
    <3>2. CASE x <= high
      <4>1. \A n \in X : n <= high
        BY <1>5, <2>2, <3>2
      <4>2. QED
        BY <2>2, <4>1
    <3>3. QED
      BY <1>5, <2>2, <3>1, <3>2
  <2>5. QED
    BY <1>3, <2>3, <2>4
<1>8. QED
  BY <1>6, <1>7

\* MIN and MAX are among the values and bound them.
LEMMA ExtremesChosen ==
  ASSUME NEW S, S \subseteq Int, S # {}, IsFiniteSet(S)
  PROVE  /\ Least(S) \in S /\ \A n \in S : Least(S) <= n
         /\ Greatest(S) \in S /\ \A n \in S : n <= Greatest(S)
  BY ExtremesExist DEF Least, Greatest

-----------------------------------------------------------------------------
(* The table of positions. *)

OrdersInv ==
  /\ displayOrder \in [PositionIds -> Int \union {Null}]
  /\ \A p \in PositionIds : displayOrder[p] # Null <=> p \in Listed
  /\ IsFiniteSet(Listed)
  /\ \A e \in ElectionIds : IdxDisplayOrder(displayOrder, e)

OrderInv == ElectionsInv /\ RosterInv /\ OrdersInv

\* A position is listed by one election at a time.
LEMMA ListsApart ==
  ASSUME RosterTypeOK
  PROVE  /\ \A e \in ElectionIds : ListByElection(e) \subseteq Listed
         /\ \A e, f \in ElectionIds : e # f => ListByElection(e) \intersect ListByElection(f) = {}
  BY DEF RosterTypeOK, PositionRow, ListByElection, Listed

\* The list of an election is finite, and its positions have orders.
LEMMA ListOK ==
  ASSUME OrderInv, NEW e \in ElectionIds
  PROVE  /\ ListByElection(e) \subseteq PositionIds
         /\ IsFiniteSet(ListByElection(e)) /\ Cardinality(ListByElection(e)) \in Nat
         /\ \A p \in ListByElection(e) : displayOrder[p] \in Int
<1>1. ListByElection(e) \subseteq Listed /\ Listed \subseteq PositionIds
  BY ListsApart DEF OrderInv, RosterInv, Listed
<1>2. QED
  BY <1>1, FS_Subset, FS_CardinalityType DEF OrderInv, OrdersInv

\* The orders of a finite set of positions are a finite set of integers.
LEMMA OrdersFinite ==
  ASSUME OrderInv, NEW S, S \subseteq Listed, S # {}
  PROVE  OrdersOf(S) \subseteq Int /\ OrdersOf(S) # {} /\ IsFiniteSet(OrdersOf(S))
<1>1. IsFiniteSet(S)
  BY FS_Subset DEF OrderInv, OrdersInv
<1>2. OrdersOf(S) \subseteq Int /\ OrdersOf(S) # {}
  BY DEF OrderInv, OrdersInv, OrdersOf, Listed
<1> DEFINE f == [p \in S |-> displayOrder[p]]
<1>3. f \in Surjection(S, OrdersOf(S))
  BY DEF Surjection, OrdersOf
<1>4. QED
  BY <1>1, <1>2, <1>3, FS_Surjection

\* The lowest order in the table.
LEMMA MinOrderLowest ==
  ASSUME OrderInv
  PROVE  MinOrder \in Int /\ \A p \in Listed : MinOrder <= displayOrder[p]
<1>1. CASE Listed = {}
  BY <1>1 DEF MinOrder
<1>2. CASE Listed # {}
  <2>1. /\ Least(OrdersOf(Listed)) \in OrdersOf(Listed)
        /\ OrdersOf(Listed) \subseteq Int
        /\ \A n \in OrdersOf(Listed) : Least(OrdersOf(Listed)) <= n
    BY <1>2, OrdersFinite, ExtremesChosen
  <2>2. QED
    BY <1>2, <2>1 DEF MinOrder, OrdersOf
<1>3. QED
  BY <1>1, <1>2

\* The order after the last one of a list is an integer.
LEMMA NextOrderType ==
  ASSUME OrderInv, NEW e \in ElectionIds
  PROVE  NextOrder(e) \in Int
<1>1. CASE ListByElection(e) = {}
  BY <1>1 DEF NextOrder
<1>2. CASE ListByElection(e) # {}
  <2>1. ListByElection(e) \subseteq Listed
    BY ListsApart DEF OrderInv, RosterInv
  <2>2. Greatest(OrdersOf(ListByElection(e))) \in Int
    BY <1>2, <2>1, OrdersFinite, ExtremesChosen
  <2>3. QED
    BY <1>2, <2>2 DEF NextOrder
<1>3. QED
  BY <1>1, <1>2

-----------------------------------------------------------------------------
(* A reorder. *)

\* A valid request lists the election's positions, each once.
LEMMA ValidRequest ==
  ASSUME OrderInv, NEW e \in ElectionIds, NEW ids \in Orderings(e), Permutation(ids, e)
  PROVE  /\ Len(ids) \in Nat /\ DOMAIN ids = 1..Len(ids)
         /\ \A i \in 1..Len(ids) : ids[i] \in ListByElection(e)
         /\ \A i, j \in 1..Len(ids) : ids[i] = ids[j] => i = j
         /\ \A p \in ListByElection(e) : \E i \in 1..Len(ids) : ids[i] = p
<1> DEFINE N == Cardinality(ListByElection(e))
<1>1. N \in Nat /\ ids \in [1..N -> ListByElection(e)]
  BY ListOK DEF Orderings
<1> HIDE DEF N
<1>2. ids \in Seq(ListByElection(e)) /\ Len(ids) = N
  BY <1>1
<1>3. QED
  BY <1>1, <1>2 DEF Permutation

\* A pass numbers the first n positions of the request and leaves the others.
LEMMA PassNumbers ==
  ASSUME NEW order, NEW ids, NEW start \in Int, NEW n \in Nat,
         \A i, j \in 1..n : ids[i] = ids[j] => i = j
  PROVE  /\ \A i \in 1..n : ids[i] \in PositionIds =>
              AfterUpdates(order, ids, start, n)[ids[i]] = start + i - 1
         /\ \A p \in PositionIds : (\A i \in 1..n : ids[i] # p) =>
              AfterUpdates(order, ids, start, n)[p] = order[p]
<1>1. ASSUME NEW i \in 1..n, ids[i] \in PositionIds
      PROVE  AfterUpdates(order, ids, start, n)[ids[i]] = start + i - 1
  <2>1. (CHOOSE j \in 1..n : ids[j] = ids[i]) = i
    OBVIOUS
  <2>2. QED
    BY <1>1, <2>1 DEF AfterUpdates
<1>2. QED
  BY <1>1 DEF AfterUpdates

\* What the two passes leave behind.
LEMMA ReorderNumbers ==
  ASSUME OrderInv, NEW e \in ElectionIds, NEW ids \in Orderings(e), Permutation(ids, e)
  PROVE  /\ TemporaryStart(ids) \in Int
         /\ \A i \in 1..Len(ids) : /\ Parked(ids)[ids[i]] = TemporaryStart(ids) + i - 1
                                   /\ Reordered(ids)[ids[i]] = i - 1
         /\ \A p \in PositionIds \ ListByElection(e) : Reordered(ids)[p] = displayOrder[p]
         /\ Reordered(ids) = [p \in PositionIds |-> Reordered(ids)[p]]
<1>1. /\ Len(ids) \in Nat /\ \A i \in 1..Len(ids) : ids[i] \in ListByElection(e)
      /\ \A i, j \in 1..Len(ids) : ids[i] = ids[j] => i = j
  BY ValidRequest
<1>2. TemporaryStart(ids) \in Int
  BY <1>1, MinOrderLowest DEF TemporaryStart
<1>3. \A i \in 1..Len(ids) : ids[i] \in PositionIds
  BY <1>1 DEF ListByElection
<1> DEFINE T == TemporaryStart(ids)
           L == Len(ids)
<1>4. \A p \in PositionIds \ ListByElection(e) : \A i \in 1..L : ids[i] # p
  BY <1>1
<1>5. /\ \A i \in 1..L : Parked(ids)[ids[i]] = T + i - 1
      /\ \A p \in PositionIds \ ListByElection(e) : Parked(ids)[p] = displayOrder[p]
  <2> HIDE DEF T, L
  <2>1. /\ \A i \in 1..L : ids[i] \in PositionIds =>
             AfterUpdates(displayOrder, ids, T, L)[ids[i]] = T + i - 1
        /\ \A p \in PositionIds : (\A i \in 1..L : ids[i] # p) =>
             AfterUpdates(displayOrder, ids, T, L)[p] = displayOrder[p]
    BY <1>1, <1>2, PassNumbers DEF T, L
  <2>2. QED
    BY <1>3, <1>4, <2>1 DEF Parked, T, L
<1>6. /\ \A i \in 1..L : Reordered(ids)[ids[i]] = i - 1
      /\ \A p \in PositionIds \ ListByElection(e) : Reordered(ids)[p] = Parked(ids)[p]
  <2> HIDE DEF L
  <2>1. /\ \A i \in 1..L : ids[i] \in PositionIds =>
             AfterUpdates(Parked(ids), ids, 0, L)[ids[i]] = 0 + i - 1
        /\ \A p \in PositionIds : (\A i \in 1..L : ids[i] # p) =>
             AfterUpdates(Parked(ids), ids, 0, L)[p] = Parked(ids)[p]
    BY <1>1, PassNumbers DEF L
  <2>2. \A i \in 1..L : i \in Int
    BY <1>1 DEF L
  <2>3. QED
    BY <1>3, <1>4, <2>1, <2>2 DEF Reordered, L
<1>7. QED
  BY <1>2, <1>5, <1>6 DEF Reordered, AfterUpdates

\* No temporary order collides: the first pass always succeeds.
LEMMA ParkingSucceeds ==
  ASSUME OrderInv, NEW e \in ElectionIds, NEW ids \in Orderings(e), Permutation(ids, e)
  PROVE  PassSucceeds(displayOrder, ids, TemporaryStart(ids), e)
<1> DEFINE T == TemporaryStart(ids)
<1>1. /\ Len(ids) \in Nat /\ \A i \in 1..Len(ids) : ids[i] \in ListByElection(e)
      /\ \A i, j \in 1..Len(ids) : ids[i] = ids[j] => i = j
  BY ValidRequest
<1>2. MinOrder \in Int /\ T = MinOrder - Len(ids) /\ T \in Int
  BY <1>1, MinOrderLowest DEF TemporaryStart
<1>3. \A p \in ListByElection(e) : p \in PositionIds /\ displayOrder[p] \in Int /\ MinOrder <= displayOrder[p]
  BY ListOK, MinOrderLowest, ListsApart DEF OrderInv, RosterInv
<1> HIDE DEF T
<1> SUFFICES ASSUME NEW n \in 1..Len(ids), NEW p \in ListByElection(e), NEW q \in ListByElection(e),
                    AfterUpdates(displayOrder, ids, T, n)[p] = AfterUpdates(displayOrder, ids, T, n)[q]
             PROVE  p = q
  BY DEF PassSucceeds, IdxDisplayOrder, T
<1> DEFINE after == AfterUpdates(displayOrder, ids, T, n)
<1>4. /\ \A i \in 1..n : after[ids[i]] = T + i - 1
      /\ \A r \in PositionIds : (\A i \in 1..n : ids[i] # r) => after[r] = displayOrder[r]
  BY <1>1, <1>2, <1>3, PassNumbers
<1> HIDE DEF after
<1>5. ASSUME NEW i \in 1..n PROVE T + i - 1 < MinOrder
  BY <1>1, <1>2
<1>6. QED
  <2>1. CASE \E i, j \in 1..n : p = ids[i] /\ q = ids[j]
    BY <1>1, <1>2, <1>4, <2>1 DEF after
  <2>2. CASE (\A i \in 1..n : ids[i] # p) /\ (\A i \in 1..n : ids[i] # q)
    BY <1>3, <1>4, <2>2 DEF after, OrderInv, OrdersInv, IdxDisplayOrder
  <2>3. ASSUME NEW i \in 1..n, p = ids[i], \A j \in 1..n : ids[j] # q PROVE FALSE
    BY <1>2, <1>3, <1>4, <1>5, <2>3 DEF after
  <2>4. ASSUME NEW i \in 1..n, q = ids[i], \A j \in 1..n : ids[j] # p PROVE FALSE
    BY <1>2, <1>3, <1>4, <1>5, <2>4 DEF after
  <2>5. QED
    BY <2>1, <2>2, <2>3, <2>4

\* The second pass collides just when the parked orders reach into the final ones.
LEMMA NumberingSucceeds ==
  ASSUME OrderInv, NEW e \in ElectionIds, NEW ids \in Orderings(e), Permutation(ids, e)
  PROVE  PassSucceeds(Parked(ids), ids, 0, e) <=> MinOrder \notin 1..(Len(ids) - 1)
<1> DEFINE L == Len(ids)
           T == TemporaryStart(ids)
           after(n) == AfterUpdates(Parked(ids), ids, 0, n)
<1>1. /\ L \in Nat /\ \A i \in 1..L : ids[i] \in ListByElection(e)
      /\ \A i, j \in 1..L : ids[i] = ids[j] => i = j
      /\ \A p \in ListByElection(e) : \E i \in 1..L : ids[i] = p
  BY ValidRequest
<1>2. MinOrder \in Int /\ T = MinOrder - L /\ \A i \in 1..L : Parked(ids)[ids[i]] = T + i - 1
  BY MinOrderLowest, ReorderNumbers DEF TemporaryStart
<1>3. \A i \in 1..L : ids[i] \in PositionIds
  BY <1>1 DEF ListByElection
<1>4. ASSUME NEW n \in 1..L
      PROVE  /\ \A i \in 1..n : after(n)[ids[i]] = i - 1
             /\ \A i \in (n + 1)..L : after(n)[ids[i]] = T + i - 1
  <2>1. n \in Nat /\ \A i, j \in 1..n : ids[i] = ids[j] => i = j
    BY <1>1
  <2>2. /\ \A i \in 1..n : ids[i] \in PositionIds => after(n)[ids[i]] = 0 + i - 1
        /\ \A p \in PositionIds : (\A i \in 1..n : ids[i] # p) => after(n)[p] = Parked(ids)[p]
    BY <2>1, PassNumbers
  <2> HIDE DEF after, T, L
  <2>3. ASSUME NEW i \in (n + 1)..L PROVE after(n)[ids[i]] = T + i - 1
    <3>1. i \in 1..L /\ \A j \in 1..n : j \in 1..L /\ j # i
      BY <1>1
    <3>2. \A j \in 1..n : ids[j] # ids[i]
      BY <1>1, <3>1
    <3>3. after(n)[ids[i]] = Parked(ids)[ids[i]]
      BY <1>3, <2>2, <3>1, <3>2
    <3>4. QED
      BY <1>2, <3>1, <3>3
  <2>4. QED
    BY <1>1, <1>3, <2>2, <2>3
<1> HIDE DEF L, T, after
<1>5. ASSUME NEW n \in 1..L, ~IdxDisplayOrder(after(n), e) PROVE MinOrder \in 1..(L - 1)
  <2>1. PICK p, q \in ListByElection(e) : after(n)[p] = after(n)[q] /\ p # q
    BY <1>5 DEF IdxDisplayOrder
  <2>2. PICK i, j \in 1..L : ids[i] = p /\ ids[j] = q
    BY <1>1
  <2>3. i # j /\ after(n)[ids[i]] = after(n)[ids[j]]
    BY <2>1, <2>2
  <2>4. i \in 1..n \/ i \in (n + 1)..L
    BY <1>1
  <2>5. j \in 1..n \/ j \in (n + 1)..L
    BY <1>1
  <2>6. i \in Int /\ j \in Int /\ n \in Int /\ L \in Int /\ T = MinOrder - L /\ MinOrder \in Int
    BY <1>1, <1>2
  <2>7. CASE i \in 1..n /\ j \in (n + 1)..L
    BY <1>4, <2>3, <2>6, <2>7
  <2>8. CASE j \in 1..n /\ i \in (n + 1)..L
    BY <1>4, <2>3, <2>6, <2>8
  <2>9. CASE i \in 1..n /\ j \in 1..n
    BY <1>4, <2>3, <2>6, <2>9
  <2>10. CASE i \in (n + 1)..L /\ j \in (n + 1)..L
    BY <1>4, <2>3, <2>6, <2>10
  <2>11. QED
    BY <2>4, <2>5, <2>7, <2>8, <2>9, <2>10
<1>6. ASSUME MinOrder \in 1..(L - 1) PROVE 1 \in 1..L /\ ~IdxDisplayOrder(after(1), e)
  <2> DEFINE j == L - MinOrder + 1
  <2>1. 1 \in 1..L /\ 1 \in 1..1 /\ j \in (1 + 1)..L /\ j \in 1..L /\ j # 1
    BY <1>1, <1>2, <1>6
  <2>2. after(1)[ids[1]] = 1 - 1 /\ after(1)[ids[j]] = T + j - 1
    BY <1>4, <2>1
  <2>3. 1 - 1 = T + j - 1
    BY <1>1, <1>2
  <2>4. ids[1] # ids[j] /\ ids[1] \in ListByElection(e) /\ ids[j] \in ListByElection(e)
    BY <1>1, <2>1
  <2> HIDE DEF j
  <2>5. QED
    BY <2>1, <2>2, <2>3, <2>4 DEF IdxDisplayOrder
<1>7. QED
  BY <1>5, <1>6 DEF PassSucceeds, after, L

-----------------------------------------------------------------------------
(* Every step keeps the orders. *)

\* One order is rewritten, added or removed; the unique index is checked where it is
\* not a removal.
LEMMA WriteOrder ==
  ASSUME OrderInv, RosterTypeOK', NEW e \in ElectionIds, NEW p \in PositionIds, NEW order,
         displayOrder' = [displayOrder EXCEPT ![p] = order],
         order # Null => order \in Int,
         order # Null <=> p \in Listed',
         \A q \in PositionIds \ {p} : position'[q] = position[q],
         p \in Listed' => p \in ListByElection(e)' /\ IdxDisplayOrder(displayOrder, e)'
  PROVE  OrdersInv'
<1>1. displayOrder' \in [PositionIds -> Int \union {Null}]
  BY DEF OrderInv, OrdersInv
<1>2. Listed' \subseteq Listed \union {p}
  BY DEF Listed
<1>3. IsFiniteSet(Listed')
  <2>1. IsFiniteSet(Listed \union {p})
    BY FS_AddElement DEF OrderInv, OrdersInv
  <2>2. QED
    BY <1>2, <2>1, FS_Subset
<1>4. \A q \in PositionIds : displayOrder'[q] # Null <=> q \in Listed'
  <2>1. \A q \in PositionIds \ {p} : displayOrder'[q] = displayOrder[q] /\ (q \in Listed' <=> q \in Listed)
    BY DEF OrderInv, OrdersInv, Listed
  <2>2. displayOrder'[p] = order
    BY DEF OrderInv, OrdersInv
  <2>3. QED
    BY <2>1, <2>2 DEF OrderInv, OrdersInv
<1>5. ASSUME NEW f \in ElectionIds PROVE IdxDisplayOrder(displayOrder, f)'
  <2>1. CASE f = e /\ p \in Listed'
    BY <2>1
  <2>2. CASE ~(f = e /\ p \in Listed')
    <3>1. p \notin ListByElection(f)'
      BY <2>2 DEF RosterTypeOK, PositionRow, ListByElection, Listed
    <3>2. \A q \in ListByElection(f)' : q \in ListByElection(f) /\ displayOrder'[q] = displayOrder[q]
      BY <3>1 DEF ListByElection, OrderInv, OrdersInv
    <3>3. QED
      BY <3>2 DEF IdxDisplayOrder, OrderInv, OrdersInv
  <2>3. QED
    BY <2>1, <2>2
<1>6. QED
  BY <1>1, <1>3, <1>4, <1>5 DEF OrdersInv

\* The final orders are distinct, and no other list is touched.
LEMMA ReorderOrders ==
  ASSUME OrderInv, NEW e \in ElectionIds, NEW ids \in Orderings(e), Reorder(e, ids)
  PROVE  OrdersInv'
<1>1. /\ Permutation(ids, e) /\ displayOrder' = Reordered(ids) /\ UNCHANGED rosterVars
  BY DEF Reorder
<1>2. /\ Listed' = Listed /\ \A f \in ElectionIds : ListByElection(f)' = ListByElection(f)
  BY <1>1 DEF rosterVars, Listed, ListByElection
<1>3. /\ \A i \in 1..Len(ids) : displayOrder'[ids[i]] = i - 1
      /\ \A p \in PositionIds \ ListByElection(e) : displayOrder'[p] = displayOrder[p]
      /\ displayOrder' = [p \in PositionIds |-> displayOrder'[p]]
  BY <1>1, ReorderNumbers
<1>4. /\ \A i \in 1..Len(ids) : i \in Int /\ i - 1 \in Int
      /\ \A p \in ListByElection(e) : \E i \in 1..Len(ids) : ids[i] = p
  BY <1>1, ValidRequest
<1>5. \A p \in ListByElection(e) : displayOrder'[p] \in Int /\ p \in Listed
  BY <1>3, <1>4, ListsApart DEF OrderInv, RosterInv
<1>6. \A p \in PositionIds : displayOrder'[p] \in Int \union {Null} /\ (displayOrder'[p] # Null <=> p \in Listed)
  BY <1>3, <1>5, NullAssumption DEF OrderInv, OrdersInv
<1>7. ASSUME NEW f \in ElectionIds PROVE IdxDisplayOrder(displayOrder', f)
  <2>1. CASE f = e
    <3> SUFFICES ASSUME NEW p \in ListByElection(e), NEW q \in ListByElection(e),
                        displayOrder'[p] = displayOrder'[q]
                 PROVE  p = q
      BY <2>1 DEF IdxDisplayOrder
    <3>1. PICK i \in 1..Len(ids), j \in 1..Len(ids) : ids[i] = p /\ ids[j] = q
      BY <1>4
    <3>2. i - 1 = j - 1 /\ i \in Int /\ j \in Int
      BY <1>3, <1>4, <3>1
    <3>3. QED
      BY <3>1, <3>2
  <2>2. CASE f # e
    <3>1. \A p \in ListByElection(f) : p \in PositionIds \ ListByElection(e)
      BY <2>2, ListsApart DEF OrderInv, RosterInv, ListByElection
    <3>2. QED
      BY <1>3, <3>1 DEF IdxDisplayOrder, OrderInv, OrdersInv
  <2>3. QED
    BY <2>1, <2>2
<1>8. displayOrder' \in [PositionIds -> Int \union {Null}]
  BY <1>3, <1>6
<1>9. QED
  BY <1>2, <1>6, <1>7, <1>8 DEF OrdersInv, OrderInv, IdxDisplayOrder

\* Changing the list of an election keeps the orders unique.
LEMMA ChangeOrderInv ==
  ASSUME OrderInv, NEW e \in ElectionIds, ChangeOrder(e)
  PROVE  RosterInv' /\ OrdersInv'
<1>1. position \in [PositionIds -> PositionRow] /\ RosterTypeOK
  BY DEF OrderInv, RosterInv, RosterTypeOK
<1>2. ASSUME NEW p \in PositionIds, NEW asked \in Orders \union {Null}, CreatePositionAt(p, e, asked)
      PROVE  RosterInv' /\ OrdersInv'
  <2> DEFINE order == IF asked = Null THEN NextOrder(e) ELSE asked
  <2>1. CreatePosition(p, e) /\ IdxDisplayOrder(displayOrder, e)'
        /\ displayOrder' = [displayOrder EXCEPT ![p] = order]
    BY <1>2 DEF CreatePositionAt
  <2>2. order \in Int /\ order # Null
    BY NextOrderType, OrdersAssumption, NullAssumption
  <2> HIDE DEF order
  <2>3. RosterInv' /\ RosterTypeOK'
    BY <2>1, EditRosterInv DEF OrderInv, EditRoster, RosterInv
  <2>4. /\ position' = [position EXCEPT ![p] = [state |-> "listed", election |-> e]]
        /\ \A q \in PositionIds \ {p} : position'[q] = position[q]
    BY <1>1, <2>1 DEF CreatePosition
  <2>5. p \in Listed' /\ p \in ListByElection(e)'
    BY <1>1, <2>4 DEF Listed, ListByElection
  <2>6. QED
    BY <2>1, <2>2, <2>3, <2>4, <2>5, WriteOrder
<1>3. ASSUME NEW p \in PositionIds, NEW asked \in Orders, UpdateDisplayOrder(p, e, asked)
      PROVE  RosterInv' /\ OrdersInv'
  <2>1. /\ p \in ListByElection(e) /\ UNCHANGED <<position, candidate>>
        /\ displayOrder' = [displayOrder EXCEPT ![p] = asked] /\ IdxDisplayOrder(displayOrder', e)
    BY <1>3 DEF UpdateDisplayOrder, rosterVars
  <2>2. asked \in Int /\ asked # Null
    BY OrdersAssumption, NullAssumption
  <2>3. RosterInv' /\ RosterTypeOK'
    BY <2>1 DEF OrderInv, RosterInv, RosterTypeOK
  <2>4. /\ p \in Listed' /\ p \in ListByElection(e)' /\ IdxDisplayOrder(displayOrder, e)'
        /\ \A q \in PositionIds \ {p} : position'[q] = position[q]
    BY <1>1, <2>1, ListsApart DEF Listed, ListByElection, IdxDisplayOrder
  <2>5. QED
    BY <2>1, <2>2, <2>3, <2>4, WriteOrder
<1>4. ASSUME NEW p \in PositionIds, DeletePositionRow(p, e)
      PROVE  RosterInv' /\ OrdersInv'
  <2>1. DeletePosition(p, e) /\ displayOrder' = [displayOrder EXCEPT ![p] = Null]
    BY <1>4 DEF DeletePositionRow
  <2>2. RosterInv' /\ RosterTypeOK'
    BY <2>1, EditRosterInv DEF OrderInv, EditRoster, RosterInv
  <2>3. p \notin Listed' /\ \A q \in PositionIds \ {p} : position'[q] = position[q]
    BY <1>1, <2>1 DEF DeletePosition, Listed, PositionRow
  <2>4. QED
    BY <2>1, <2>2, <2>3, WriteOrder
<1>5. ASSUME NEW ids \in Orderings(e), Reorder(e, ids)
      PROVE  RosterInv' /\ OrdersInv'
  <2>1. RosterInv'
    BY <1>5 DEF Reorder, rosterVars, OrderInv, RosterInv, RosterTypeOK
  <2>2. QED
    BY <1>5, <2>1, ReorderOrders
<1>6. QED
  BY <1>2, <1>3, <1>4, <1>5 DEF ChangeOrder

\* Nothing else lists or orders a position.
LEMMA OrdersUntouched ==
  ASSUME OrderInv, UNCHANGED <<position, displayOrder>>
  PROVE  OrdersInv'
  BY DEF OrderInv, OrdersInv, Listed, ListByElection, IdxDisplayOrder

\* Every step, of the lifecycle too, keeps the invariant.
LEMMA PositionOrderNextInv == OrderInv /\ [PositionOrderNext]_orderVars => OrderInv'
<1> SUFFICES ASSUME OrderInv, [PositionOrderNext]_orderVars PROVE OrderInv'
  OBVIOUS
<1>1. UNCHANGED electionVars => ElectionsInv'
  BY DEF OrderInv, ElectionsInv, ElectionsTypeOK, OneOpenElection, IdxOneOpen, OpenHasWindow,
         OpenElections, electionVars
<1>2. UNCHANGED rosterVars => RosterInv'
  BY DEF OrderInv, RosterInv, RosterTypeOK, rosterVars
<1>3. ASSUME NEW e \in ElectionIds, ChangeOrder(e), UNCHANGED electionVars PROVE OrderInv'
  BY <1>1, <1>3, ChangeOrderInv DEF OrderInv
<1>4. ASSUME NEW e \in ElectionIds, ChangeCandidates(e), UNCHANGED <<electionVars, displayOrder>>
      PROVE  OrderInv'
  <2>1. EditRoster(e) /\ UNCHANGED position
    BY <1>4 DEF ChangeCandidates, EditRoster, CreateCandidate, DeactivateCandidate
  <2>2. QED
    BY <1>1, <1>4, <2>1, EditRosterInv, OrdersUntouched DEF OrderInv
<1>5. ASSUME NEW e \in ElectionIds, ChangeLifecycle(e), UNCHANGED <<rosterVars, displayOrder>>
      PROVE  OrderInv'
  <2>1. ElectionsInv'
    BY <1>5, EditElectionInv, TransitionInv DEF ChangeLifecycle, Inputs, OrderInv
  <2>2. QED
    BY <1>2, <1>5, <2>1, OrdersUntouched DEF OrderInv, rosterVars
<1>6. CASE UNCHANGED orderVars
  BY <1>1, <1>2, <1>6, OrdersUntouched DEF OrderInv, orderVars, rosterVars
<1>7. QED
  BY <1>3, <1>4, <1>5, <1>6 DEF PositionOrderNext

\* No position, no order.
LEMMA OrderInitInv == PositionOrderInit => OrderInv
<1> SUFFICES ASSUME PositionOrderInit PROVE OrderInv
  OBVIOUS
<1>1. ElectionsInv /\ RosterInv
  BY ElectionsInitInv, RosterInitInv DEF PositionOrderInit
<1>2. Listed = {} /\ \A e \in ElectionIds : ListByElection(e) = {}
  BY DEF PositionOrderInit, RosterInit, Listed, ListByElection
<1>3. QED
  BY <1>1, <1>2, FS_EmptySet DEF OrderInv, OrdersInv, PositionOrderInit, IdxDisplayOrder

\* What the invariant says: a reorder does as asked, collides exactly when it must, and
\* candidates' positions have orders.
LEMMA OrdersShow == OrderInv => OrderCorrect /\ ReorderCollidesExactly
<1> SUFFICES ASSUME OrderInv PROVE OrderCorrect /\ ReorderCollidesExactly
  OBVIOUS
<1>1. PositionOrderTypeOK
  BY DEF OrderInv, ElectionsInv, RosterInv, OrdersInv, PositionOrderTypeOK
<1>2. ReorderAsAsked
  BY ReorderNumbers, ValidRequest DEF ReorderAsAsked
<1>3. ReorderCollidesExactly
  BY ParkingSucceeds, NumberingSucceeds DEF ReorderCollidesExactly, ReorderSucceeds
<1>4. CandidatesListed
  BY DEF OrderInv, OrdersInv, RosterInv, CandidatesListed, Listed
<1>5. QED
  BY <1>1, <1>2, <1>3, <1>4 DEF OrderCorrect

\* The invariant of the table of positions.
THEOREM PositionOrderInvariant == PositionOrderSpec => []OrderInv
<1>1. QED
  BY OrderInitInv, PositionOrderNextInv, PTL DEF PositionOrderSpec

\* Whatever orders earlier requests have left behind, a reorder that goes through
\* numbers the positions as asked, and touches no other election's list
\* (PositionRepository.reorder); and a position with a candidate keeps its row and order
\* (position-lifecycle-coordinator.ts).
THEOREM OrderIsCorrect == PositionOrderSpec => []OrderCorrect
<1>1. QED
  BY OrdersShow, PositionOrderInvariant, PTL

\* A valid reorder violates the unique index just when the lowest order in the table is
\* positive and below the length of the list, for lists of any length.
THEOREM ReorderCollidesCorrect == PositionOrderSpec => []ReorderCollidesExactly
<1>1. QED
  BY OrdersShow, PositionOrderInvariant, PTL

-----------------------------------------------------------------------------
(* Orders and pictures together. *)

PreparationInv == AvatarInv /\ OrderInv

\* What is done to an order is a change of the form, or none of it.
LEMMA ChangeOrderEdits ==
  ASSUME NEW e \in ElectionIds, ChangeOrder(e)
  PROVE  EditRoster(e) \/ UNCHANGED rosterVars
  BY DEF ChangeOrder, CreatePositionAt, UpdateDisplayOrder, DeletePositionRow, Reorder, EditRoster

\* The candidates' changes are changes of the form that leave the positions alone.
LEMMA ChangeCandidatesEdits ==
  ASSUME NEW e \in ElectionIds, ChangeCandidates(e)
  PROVE  EditRoster(e) /\ UNCHANGED position
  BY DEF ChangeCandidates, EditRoster, CreateCandidate, DeactivateCandidate

\* Every step is one of the pictures, or leaves them and what they depend on alone.
LEMMA PicturesStep == [PreparationNext]_preparationVars => [Next]_vars
<1> SUFFICES ASSUME [PreparationNext]_preparationVars PROVE [Next]_vars
  OBVIOUS
<1>1. ASSUME NEW e \in ElectionIds, ChangeOrder(e), UNCHANGED <<electionVars, pictureVars>>
      PROVE  [Next]_vars
  BY <1>1, ChangeOrderEdits DEF Next, vars, pictureVars
<1>2. ASSUME NEW e \in ElectionIds, ChangeCandidates(e),
             UNCHANGED <<electionVars, displayOrder, pictureVars>>
      PROVE  [Next]_vars
  BY <1>2, ChangeCandidatesEdits DEF Next, pictureVars
<1>3. ASSUME NEW e \in ElectionIds, ChangeElection(e), Redraft,
             UNCHANGED <<rosterVars, displayOrder, avatarVars>>
      PROVE  [Next]_vars
  BY <1>3 DEF Next
<1>4. CASE Tick /\ UNCHANGED <<rosterVars, displayOrder, pictureVars>>
  BY <1>4 DEF Next, pictureVars
<1>5. ASSUME NEW j \in JobIds, ChangePicture(j), UNCHANGED <<orderVars, view>>
      PROVE  [Next]_vars
  BY <1>5 DEF Next, orderVars
<1>6. ASSUME NEW v \in ViewIds, Look(v), UNCHANGED <<orderVars, avatarVars>>
      PROVE  [Next]_vars
  BY <1>6 DEF Next, orderVars
<1>7. CASE UNCHANGED preparationVars
  BY <1>7 DEF preparationVars, orderVars, pictureVars, vars
<1>8. QED
  BY <1>1, <1>2, <1>3, <1>4, <1>5, <1>6, <1>7 DEF PreparationNext, PrepareElection

\* Only what is done to an order changes one.
LEMMA OrdersStep ==
  ASSUME OrderInv, [PreparationNext]_preparationVars
  PROVE  OrdersInv'
<1>1. ASSUME NEW e \in ElectionIds, ChangeOrder(e)
      PROVE  OrdersInv'
  BY <1>1, ChangeOrderInv
<1>2. ASSUME NEW e \in ElectionIds, ChangeCandidates(e), UNCHANGED displayOrder
      PROVE  OrdersInv'
  BY <1>2, ChangeCandidatesEdits, OrdersUntouched
<1>3. ASSUME UNCHANGED <<rosterVars, displayOrder>>
      PROVE  OrdersInv'
  BY <1>3, OrdersUntouched DEF rosterVars
<1>4. QED
  BY <1>1, <1>2, <1>3 DEF PreparationNext, PrepareElection, preparationVars, orderVars

\* The invariant of everything that is prepared, through every interleaving.
THEOREM PreparationInvariant == PreparationSpec => []PreparationInv
<1>1. PreparationInit => PreparationInv
  BY AvatarInitInv, OrderInitInv DEF PreparationInit, PreparationInv
<1>2. PreparationInv /\ [PreparationNext]_preparationVars => PreparationInv'
  <2> SUFFICES ASSUME PreparationInv, [PreparationNext]_preparationVars PROVE PreparationInv'
    OBVIOUS
  <2>1. AvatarInv'
    BY PicturesStep, AvatarNextInv DEF PreparationInv
  <2>2. OrderInv'
    BY <2>1, OrdersStep DEF PreparationInv, AvatarInv, OrderInv
  <2>3. QED
    BY <2>1, <2>2 DEF PreparationInv
<1>3. QED
  BY <1>1, <1>2, PTL DEF PreparationSpec

\* With everybody at once, pictures and their viewers are as AvatarStore has them: what the
\* requests for positions and orders do to the form is what it expects.
THEOREM PreparationImplementsPictures == PreparationSpec => Spec
<1>1. PreparationInit => Init
  BY DEF PreparationInit
<1>2. QED
  BY <1>1, PicturesStep, PTL DEF PreparationSpec, Spec

\* What holds of orders and of pictures on their own holds of both at once, while time passes.
THEOREM PreparationCorrect ==
  PreparationSpec =>
    [](/\ OrderCorrect /\ ReorderCollidesExactly
       /\ NoDanglingReference /\ OrphansAccountedFor /\ VoterFindsPicture)
<1>1. PreparationInv => OrderCorrect /\ ReorderCollidesExactly
  BY OrdersShow DEF PreparationInv
<1>2. QED
  BY <1>1, PreparationImplementsPictures, PreparationInvariant, NoDanglingReferenceCorrect, OrphansCorrect,
     VoterFindsPictureCorrect, PTL
=============================================================================
