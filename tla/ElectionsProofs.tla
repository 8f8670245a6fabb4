--------------------------- MODULE ElectionsProofs ---------------------------
(***************************************************************************)
(* The lifecycle of elections, for any number of elections, any times and  *)
(* any clock skew, and what editing the ballot form preserves, for any     *)
(* positions and candidates. ElectionsNext leaves free what the other      *)
(* tables say, so the lemmas about single actions are also what            *)
(* VotingProofs and DraftingProofs rest on.                                *)
(***************************************************************************)
EXTENDS Roster, TLAPS

ElectionsInv == ElectionsTypeOK /\ OneOpenElection /\ OpenHasWindow

\* The inputs of a transition, as ElectionsNext and TransitionElection take them.
Inputs(to, opens, closes, t) ==
  /\ to \in Statuses
  /\ opens \in OpenTimes \union {Null} /\ closes \in CloseTimes \union {Null}
  /\ t \in WorkerClock

-----------------------------------------------------------------------------
\* Writing the row of one election keeps the invariant when the row is well
\* formed and either is not open or was already, with a window.
LEMMA WriteRowInv ==
  ASSUME ElectionsInv, NEW e \in ElectionIds, NEW row \in Row,
         row.status = "open" => /\ election[e].status = "open"
                                /\ row.opensAt # Null /\ row.closesAt # Null
                                /\ row.opensAt < row.closesAt,
         election' = [election EXCEPT ![e] = row], UNCHANGED now
  PROVE  ElectionsInv'
<1>1. \A f \in ElectionIds : election'[f] = IF f = e THEN row ELSE election[f]
  BY DEF ElectionsInv, ElectionsTypeOK
<1>2. ElectionsTypeOK'
  BY DEF ElectionsInv, ElectionsTypeOK
<1>3. OneOpenElection'
  BY <1>1 DEF ElectionsInv, OneOpenElection, IdxOneOpen
<1>4. OpenHasWindow'
  BY <1>1 DEF ElectionsInv, OpenHasWindow, OpenElections
<1>5. QED
  BY <1>2, <1>3, <1>4 DEF ElectionsInv

\* An edit of one election (create, update, extend) keeps the invariant.
LEMMA EditElectionInv ==
  ASSUME ElectionsInv, NEW e \in ElectionIds, EditElection(e)
  PROVE  ElectionsInv'
<1> USE NullAssumption, ClockAssumption
<1>0. election \in [ElectionIds -> Row] /\ election[e] \in Row
  BY DEF ElectionsInv, ElectionsTypeOK
<1>1. ASSUME NEW opens \in OpenTimes \union {Null}, NEW closes \in CloseTimes \union {Null},
             CreateElection(e, opens, closes)
      PROVE  ElectionsInv'
  <2> DEFINE row == [status |-> "draft", opensAt |-> opens, closesAt |-> closes]
  <2>1. row \in Row
    BY DEF Row, Statuses
  <2>2. election' = [election EXCEPT ![e] = row] /\ UNCHANGED now /\ row.status # "open"
    BY <1>1 DEF CreateElection
  <2> HIDE DEF row
  <2>3. QED
    BY <2>1, <2>2, WriteRowInv
<1>2. ASSUME NEW opens \in OpenTimes \union {Null, election[e].opensAt},
             NEW closes \in CloseTimes \union {Null, election[e].closesAt},
             UpdateMetadata(e, opens, closes)
      PROVE  ElectionsInv'
  <2> DEFINE row == [election[e] EXCEPT !.opensAt = opens, !.closesAt = closes]
  <2>1. opens \in Int \union {Null} /\ closes \in Int \union {Null}
    BY <1>0 DEF Row
  <2>2. row \in Row /\ row.status = "draft"
    BY <1>0, <1>2, <2>1 DEF Row, UpdateMetadata, IsElectionEditable
  <2>3. election' = [election EXCEPT ![e] = row] /\ UNCHANGED now
    BY <1>2 DEF UpdateMetadata
  <2> HIDE DEF row
  <2>4. QED
    BY <2>2, <2>3, WriteRowInv
<1>3. ASSUME NEW closes \in CloseTimes, NEW t \in WorkerClock, ExtendClosingTime(e, closes, t)
      PROVE  ElectionsInv'
  <2> DEFINE row == [election[e] EXCEPT !.closesAt = closes]
  <2>1. row \in Row
    BY <1>0 DEF Row
  <2>2. election' = [election EXCEPT ![e] = row] /\ UNCHANGED now
    BY <1>0, <1>3 DEF ExtendClosingTime, Row
  <2>3. /\ election[e].status = "open" /\ election[e].opensAt # Null
        /\ election[e].opensAt < election[e].closesAt /\ election[e].closesAt < closes
        /\ election[e].opensAt \in Int /\ election[e].closesAt \in Int /\ closes \in Int
    BY <1>0, <1>3 DEF ExtendClosingTime, InWindow, ElectionsInv, OpenHasWindow, OpenElections, Row
  <2>4. row.opensAt < row.closesAt /\ row.opensAt # Null /\ row.closesAt # Null
    BY <1>0, <2>3 DEF Row
  <2> HIDE DEF row
  <2>5. QED
    BY <2>1, <2>2, <2>3, <2>4, WriteRowInv
<1>4. QED
  BY <1>1, <1>2, <1>3 DEF EditElection

\* An edit creates a draft, or leaves every status as it is.
LEMMA EditElectionStatus ==
  ASSUME ElectionsInv, NEW e \in ElectionIds, EditElection(e), NEW f \in ElectionIds
  PROVE  election'[f].status = election[f].status \/ election[f].status = "absent"
<1>0. election \in [ElectionIds -> Row]
  BY DEF ElectionsInv, ElectionsTypeOK
<1>1. CASE \E opens \in OpenTimes \union {Null}, closes \in CloseTimes \union {Null} :
             CreateElection(e, opens, closes)
  BY <1>0, <1>1 DEF CreateElection
<1>2. ASSUME NEW opens, NEW closes, UpdateMetadata(e, opens, closes)
      PROVE  election'[f].status = election[f].status
  <2> DEFINE row == [election[e] EXCEPT !.opensAt = opens, !.closesAt = closes]
  <2>1. row.status = election[e].status
    BY <1>0 DEF Row
  <2>2. election' = [election EXCEPT ![e] = row]
    BY <1>2 DEF UpdateMetadata
  <2> HIDE DEF row
  <2>3. QED
    BY <1>0, <2>1, <2>2
<1>3. CASE \E closes \in CloseTimes, t \in WorkerClock : ExtendClosingTime(e, closes, t)
  BY <1>0, <1>3 DEF ExtendClosingTime, Row
<1>4. QED
  BY <1>1, <1>2, <1>3 DEF EditElection

\* So does a transition, whatever it is told of the form and the ballots.
LEMMA TransitionInv ==
  ASSUME ElectionsInv, NEW e \in ElectionIds,
         NEW to, NEW opens, NEW closes, NEW t, Inputs(to, opens, closes, t),
         NEW ready, NEW hasBallots,
         Transition(e, to, opens, closes, t, ready, hasBallots)
  PROVE  ElectionsInv'
<1> DEFINE row == election[e]
           opensAt == ResolvedOpensAt(row, to, opens)
           closesAt == ResolvedClosesAt(row, to, closes, t)
<1> USE NullAssumption, ClockAssumption
<1>1. row \in Row
  BY DEF ElectionsInv, ElectionsTypeOK
<1>2. t \in Int
  BY DEF Inputs, WorkerClock, ElectionsInv, ElectionsTypeOK
<1>3. opensAt \in Int \union {Null} /\ closesAt \in Int \union {Null}
  BY <1>1, <1>2 DEF Inputs, ResolvedOpensAt, ResolvedClosesAt, Row
<1>4. election' = [f \in ElectionIds |->
                     IF f = e THEN [status |-> to, opensAt |-> opensAt, closesAt |-> closesAt]
                     ELSE IF f \in Superseded(e, to) THEN [election[f] EXCEPT !.status = "closed"]
                     ELSE election[f]]
  BY DEF Transition
<1>5. ElectionsTypeOK'
  <2> HIDE DEF opensAt, closesAt
  <2>1. [status |-> to, opensAt |-> opensAt, closesAt |-> closesAt] \in Row
    BY <1>3 DEF Inputs, Row
  <2>2. \A f \in ElectionIds : [election[f] EXCEPT !.status = "closed"] \in Row
    BY DEF ElectionsInv, ElectionsTypeOK, Row, Statuses
  <2>3. election' \in [ElectionIds -> Row]
    BY <1>4, <2>1, <2>2 DEF ElectionsInv, ElectionsTypeOK
  <2>4. QED
    BY <2>3 DEF ElectionsInv, ElectionsTypeOK, Transition
<1>6. OneOpenElection'
  BY DEF Transition, OneOpenElection
<1>7. OpenHasWindow'
  <2> SUFFICES ASSUME NEW f \in ElectionIds, election'[f].status = "open"
               PROVE  /\ election'[f].opensAt # Null /\ election'[f].closesAt # Null
                      /\ election'[f].opensAt < election'[f].closesAt
    BY DEF OpenHasWindow, OpenElections
  <2>1. CASE f = e
    <3>1. to = "open" /\ MayOpen(opensAt, closesAt, ready)
      BY <1>4, <2>1 DEF Transition
    <3> HIDE DEF opensAt, closesAt
    <3>2. QED
      BY <1>3, <1>4, <2>1, <3>1 DEF MayOpen
  <2>2. CASE f # e
    <3> HIDE DEF opensAt, closesAt
    <3>1. election'[f] = election[f]
      BY <1>4, <2>2 DEF ElectionsInv, ElectionsTypeOK, Row
    <3>2. QED
      BY <3>1 DEF ElectionsInv, OpenHasWindow, OpenElections
  <2>3. QED
    BY <2>1, <2>2
<1>8. QED
  BY <1>5, <1>6, <1>7 DEF ElectionsInv

\* The clock moves and the rows stay.
LEMMA TickInv == ASSUME ElectionsInv, Tick PROVE ElectionsInv'
  BY ClockAssumption DEF ElectionsInv, ElectionsTypeOK, OneOpenElection, IdxOneOpen, OpenHasWindow,
         OpenElections, Tick

\* Every step of the lifecycle keeps the invariant.
LEMMA ElectionsNextInv == ElectionsInv /\ [ElectionsNext]_electionVars => ElectionsInv'
<1> SUFFICES ASSUME ElectionsInv, [ElectionsNext]_electionVars PROVE ElectionsInv'
  OBVIOUS
<1>1. CASE Tick
  BY <1>1, TickInv
<1>2. ASSUME NEW e \in ElectionIds, EditElection(e) PROVE ElectionsInv'
  BY <1>2, EditElectionInv
<1>3. ASSUME NEW e \in ElectionIds, NEW to \in Statuses,
             NEW opens \in OpenTimes \union {Null}, NEW closes \in CloseTimes \union {Null},
             NEW t \in WorkerClock, NEW ready \in BOOLEAN, NEW hasBallots \in BOOLEAN,
             Transition(e, to, opens, closes, t, ready, hasBallots)
      PROVE  ElectionsInv'
  BY <1>3, TransitionInv DEF Inputs
<1>4. CASE UNCHANGED electionVars
  BY <1>4 DEF electionVars, ElectionsInv, ElectionsTypeOK, OneOpenElection, IdxOneOpen,
              OpenHasWindow, OpenElections
<1>5. QED
  BY <1>1, <1>2, <1>3, <1>4 DEF ElectionsNext

\* The empty table satisfies the invariant.
LEMMA ElectionsInitInv == ElectionsInit => ElectionsInv
  BY ClockAssumption DEF ElectionsInit, ElectionsInv, ElectionsTypeOK, OneOpenElection, IdxOneOpen, OpenHasWindow,
     OpenElections, Row, NoRow, Statuses

\* The invariant holds of the lifecycle on its own.
THEOREM ElectionsInvariant == ElectionsSpec => []ElectionsInv
<1>1. QED
  BY ElectionsInitInv, ElectionsNextInv, PTL DEF ElectionsSpec

\* Rows stay well formed (the columns and CHECK constraints of the elections table).
THEOREM ElectionsTypeCorrect == ElectionsSpec => []ElectionsTypeOK
<1>1. ElectionsInv => ElectionsTypeOK
  BY DEF ElectionsInv
<1>2. QED
  BY <1>1, ElectionsInvariant, PTL

\* An open election has a window that is not empty, for any number of elections
\* and any clock skew (assertTransition on the times that are stored).
THEOREM WindowCorrect == ElectionsSpec => []OpenHasWindow
<1>1. ElectionsInv => OpenHasWindow
  BY DEF ElectionsInv
<1>2. QED
  BY <1>1, ElectionsInvariant, PTL

\* Voting that has ended does not resume in a step, except back to draft.
LEMMA EditElectionKeepsEnded ==
  ASSUME ElectionsInv, NEW e \in ElectionIds, EditElection(e),
         NEW f \in ElectionIds, Ended(f)
  PROVE  Ended(f)'
<1> USE NullAssumption, ClockAssumption
<1>1. election \in [ElectionIds -> Row] /\ now \in Int /\ UNCHANGED now
  <2>1. UNCHANGED now
    BY DEF EditElection, CreateElection, UpdateMetadata, ExtendClosingTime
  <2>2. QED
    BY <2>1 DEF ElectionsInv, ElectionsTypeOK
<1>2. election'[f] = election[f]
  <2>1. CASE \E opens \in OpenTimes \union {Null}, closes \in CloseTimes \union {Null} :
               CreateElection(e, opens, closes)
    BY <1>1, <2>1 DEF CreateElection, Ended
  <2>2. CASE \E opens \in OpenTimes \union {Null, election[e].opensAt},
                closes \in CloseTimes \union {Null, election[e].closesAt} :
               UpdateMetadata(e, opens, closes)
    <3>1. f # e
      BY <2>2 DEF UpdateMetadata, IsElectionEditable, Ended
    <3>2. QED
      BY <1>1, <2>2, <3>1 DEF UpdateMetadata
  <2>3. CASE \E closes \in CloseTimes, t \in WorkerClock : ExtendClosingTime(e, closes, t)
    <3>1. f # e
      <4> SUFFICES ASSUME f = e PROVE FALSE
        OBVIOUS
      <4>1. election[f].status = "open" /\ now > election[f].closesAt
        BY <2>3 DEF ExtendClosingTime, InWindow, Ended
      <4>2. now <= election[f].closesAt /\ election[f].closesAt \in Int
        BY <1>1, <2>3 DEF ExtendClosingTime, InWindow, Row
      <4>3. QED
        BY <1>1, <4>1, <4>2
    <3>2. QED
      BY <1>1, <2>3, <3>1 DEF ExtendClosingTime
  <2>4. QED
    BY <2>1, <2>2, <2>3 DEF EditElection
<1>3. QED
  BY <1>1, <1>2 DEF Ended

\* Nor in a transition, except that an election without ballots returns to
\* draft.
LEMMA TransitionKeepsEnded ==
  ASSUME ElectionsInv, NEW e \in ElectionIds,
         NEW to, NEW opens, NEW closes, NEW t, Inputs(to, opens, closes, t),
         NEW ready, NEW hasBallots,
         Transition(e, to, opens, closes, t, ready, hasBallots),
         NEW f \in ElectionIds, Ended(f)
  PROVE  Ended(f)' \/ (f = e /\ to = "draft" /\ ~hasBallots /\ election'[f].status = "draft")
<1>1. election \in [ElectionIds -> Row] /\ UNCHANGED now
  BY DEF ElectionsInv, ElectionsTypeOK, Transition
<1>2. CASE f = e
  <2>1. election'[f].status = to /\ CanTransition(election[f].status, to)
    BY <1>2 DEF Transition
  <2>2. to \in {"closed", "archived", "draft"}
    BY <2>1 DEF CanTransition, TRANSITIONS, Ended
  <2>3. to = "draft" => ~hasBallots
    BY DEF Transition
  <2>4. QED
    BY <1>2, <2>1, <2>2, <2>3 DEF Ended
<1>3. CASE f # e /\ f \in Superseded(e, to)
  <2>1. election'[f].status = "closed"
    BY <1>1, <1>3 DEF Transition, Row
  <2>2. QED
    BY <2>1 DEF Ended
<1>4. CASE f # e /\ f \notin Superseded(e, to)
  <2>1. election'[f] = election[f]
    BY <1>4 DEF Transition
  <2>2. QED
    BY <1>1, <2>1 DEF Ended
<1>5. QED
  BY <1>2, <1>3, <1>4

\* Nor by the passing of time.
LEMMA TickKeepsEnded ==
  ASSUME ElectionsInv, Tick, NEW f \in ElectionIds, Ended(f)
  PROVE  Ended(f)'
<1>1. now \in Int /\ now' = now + 1 /\ election' = election
  BY ClockAssumption DEF ElectionsInv, ElectionsTypeOK, Tick
<1>2. CASE election[f].status \in {"closed", "archived"}
  BY <1>1, <1>2 DEF Ended
<1>3. CASE election[f].status = "open" /\ now > election[f].closesAt
  <2>1. election[f].closesAt \in Int
    BY <1>3, NullAssumption DEF ElectionsInv, ElectionsTypeOK, OpenHasWindow, OpenElections, Row
  <2>2. QED
    BY <1>1, <1>3, <2>1 DEF Ended
<1>4. QED
  BY <1>2, <1>3 DEF Ended

\* An election whose voting has ended resumes only by way of draft, however far
\* the Workers' clocks are off (ExtendClosingTime races the deadline).
THEOREM NoSilentResumeCorrect == ElectionsSpec => NoSilentResume
<1> DEFINE Resumes == \A e \in ElectionIds :
             Ended(e) /\ ~Ended(e)' => election'[e].status = "draft"
<1>1. ElectionsInv /\ [ElectionsNext]_electionVars => [Resumes]_electionVars
  <2> SUFFICES ASSUME ElectionsInv, ElectionsNext, NEW f \in ElectionIds, Ended(f), ~Ended(f)'
               PROVE  election'[f].status = "draft"
    OBVIOUS
  <2>1. CASE Tick
    BY <2>1, TickKeepsEnded
  <2>2. ASSUME NEW e \in ElectionIds, EditElection(e) PROVE FALSE
    BY <2>2, EditElectionKeepsEnded
  <2>3. ASSUME NEW e \in ElectionIds, NEW to \in Statuses,
               NEW opens \in OpenTimes \union {Null}, NEW closes \in CloseTimes \union {Null},
               NEW t \in WorkerClock, NEW ready \in BOOLEAN, NEW hasBallots \in BOOLEAN,
               Transition(e, to, opens, closes, t, ready, hasBallots)
        PROVE  election'[f].status = "draft"
    BY <2>3, TransitionKeepsEnded DEF Inputs
  <2>4. QED
    BY <2>1, <2>2, <2>3 DEF ElectionsNext
<1>2. QED
  BY <1>1, ElectionsInvariant, PTL DEF ElectionsSpec, NoSilentResume

\* Opening an election closes another one only when that one's window has passed
\* by the clock of a Worker (findOpen and the test of its effective status in
\* the transaction of the transition).
THEOREM NoEarlyDisplacementCorrect == ElectionsSpec => NoEarlyDisplacement
<1> DEFINE Spares == \A e, f \in ElectionIds :
             /\ e # f
             /\ election[f].status = "open" /\ election'[f].status # "open"
             /\ election[e].status # "open" /\ election'[e].status = "open"
             => now + Skew > election[f].closesAt
<1>1. ElectionsInv /\ [ElectionsNext]_electionVars => [Spares]_electionVars
  <2> SUFFICES ASSUME ElectionsInv, ElectionsNext,
                      NEW e \in ElectionIds, NEW f \in ElectionIds, e # f,
                      election[f].status = "open", election'[f].status # "open",
                      election[e].status # "open", election'[e].status = "open"
               PROVE  now + Skew > election[f].closesAt
    OBVIOUS
  <2>0. election \in [ElectionIds -> Row] /\ now \in Int
    BY DEF ElectionsInv, ElectionsTypeOK
  <2>1. CASE Tick
    BY <2>1 DEF Tick
  <2>2. ASSUME NEW g \in ElectionIds, EditElection(g) PROVE FALSE
    <3>1. g = e
      BY <2>0, <2>2 DEF EditElection, CreateElection, UpdateMetadata, ExtendClosingTime
    <3>2. election'[e].status # "open"
      BY <2>0, <2>2, <3>1 DEF EditElection, CreateElection, UpdateMetadata, IsElectionEditable,
         ExtendClosingTime, InWindow, Row
    <3>3. QED
      BY <3>2
  <2>3. ASSUME NEW g \in ElectionIds, NEW to \in Statuses,
               NEW opens \in OpenTimes \union {Null}, NEW closes \in CloseTimes \union {Null},
               NEW t \in WorkerClock, NEW ready \in BOOLEAN, NEW hasBallots \in BOOLEAN,
               Transition(g, to, opens, closes, t, ready, hasBallots)
        PROVE  now + Skew > election[f].closesAt
    <3>1. g = e
      BY <2>0, <2>3 DEF Transition, Row
    <3>2. f \in Superseded(g, to)
      BY <2>0, <2>3, <3>1 DEF Transition
    <3>3. EffectiveStatus(election[f], t) = "closed"
      BY <2>3, <3>2 DEF Transition
    <3>4. t > election[f].closesAt /\ election[f].closesAt \in Int
      BY <2>0, <3>3 DEF EffectiveStatus, Row
    <3>5. t \in Int /\ t <= now + Skew
      BY <2>0, ClockAssumption DEF WorkerClock
    <3>6. QED
      BY <2>0, <3>4, <3>5, ClockAssumption
  <2>4. QED
    BY <2>1, <2>2, <2>3 DEF ElectionsNext
<1>2. QED
  BY <1>1, ElectionsInvariant, PTL DEF ElectionsSpec, NoEarlyDisplacement

-----------------------------------------------------------------------------
\* Whoever has been put up, active or not, stands for a position that is listed.
RosterInv ==
  /\ RosterTypeOK
  /\ \A k \in CandidateIds :
       candidate[k].state # "unborn" =>
         /\ candidate[k].position \in PositionIds
         /\ position[candidate[k].position].state = "listed"

\* Rows of positions and candidates keep their types.
LEMMA EditRosterType ==
  ASSUME RosterTypeOK, NEW e \in ElectionIds, EditRoster(e)
  PROVE  RosterTypeOK'
<1> PICK p \in PositionIds :
      \/ CreatePosition(p, e)
      \/ DeletePosition(p, e)
      \/ \E k \in CandidateIds : CreateCandidate(k, p, e) \/ DeactivateCandidate(k, p, e)
  BY DEF EditRoster
<1> USE DEF RosterTypeOK, PositionRow, CandidateRow
<1>1. CASE CreatePosition(p, e)
  BY <1>1 DEF CreatePosition
<1>2. CASE DeletePosition(p, e)
  BY <1>2 DEF DeletePosition
<1>3. ASSUME NEW k \in CandidateIds, CreateCandidate(k, p, e) PROVE RosterTypeOK'
  BY <1>3 DEF CreateCandidate
<1>4. ASSUME NEW k \in CandidateIds, DeactivateCandidate(k, p, e) PROVE RosterTypeOK'
  BY <1>4 DEF DeactivateCandidate
<1>5. QED
  BY <1>1, <1>2, <1>3, <1>4

\* A candidate stands for the same position of the same election for good, and the
\* position stays on the list.
LEMMA EditRosterKeeps ==
  ASSUME RosterInv, NEW e \in ElectionIds, EditRoster(e),
         NEW k \in CandidateIds, candidate[k].state # "unborn"
  PROVE  /\ candidate'[k].state # "unborn"
         /\ candidate'[k].position = candidate[k].position
         /\ position'[candidate[k].position].election = position[candidate[k].position].election
         /\ position'[candidate[k].position].state = "listed"
<1> DEFINE q == candidate[k].position
<1>1. q \in PositionIds /\ position[q].state = "listed"
  BY DEF RosterInv
<1> HIDE DEF q
<1> PICK p \in PositionIds :
      \/ CreatePosition(p, e)
      \/ DeletePosition(p, e)
      \/ \E c \in CandidateIds : CreateCandidate(c, p, e) \/ DeactivateCandidate(c, p, e)
  BY DEF EditRoster
<1>2. position \in [PositionIds -> PositionRow] /\ candidate \in [CandidateIds -> CandidateRow]
  BY DEF RosterInv, RosterTypeOK
<1> USE DEF PositionRow, CandidateRow
<1>3. position'[q].election = position[q].election /\ position'[q].state = "listed"
  <2>1. CASE CreatePosition(p, e)
    BY <1>1, <1>2, <2>1 DEF CreatePosition
  <2>2. CASE DeletePosition(p, e)
    <3>1. p # q
      BY <2>2 DEF DeletePosition, q
    <3>2. QED
      BY <1>1, <1>2, <2>2, <3>1 DEF DeletePosition
  <2>3. CASE UNCHANGED position
    BY <1>1, <2>3
  <2>4. QED
    BY <2>1, <2>2, <2>3 DEF CreateCandidate, DeactivateCandidate
<1>4. candidate'[k].state # "unborn" /\ candidate'[k].position = candidate[k].position
  <2>1. ASSUME NEW c \in CandidateIds, CreateCandidate(c, p, e)
        PROVE  candidate'[k] = candidate[k]
    BY <1>2, <2>1 DEF CreateCandidate
  <2>2. ASSUME NEW c \in CandidateIds, DeactivateCandidate(c, p, e)
        PROVE  candidate'[k].state # "unborn" /\ candidate'[k].position = candidate[k].position
    BY <1>2, <2>2 DEF DeactivateCandidate
  <2>3. CASE UNCHANGED candidate
    BY <2>3
  <2>4. QED
    BY <2>1, <2>2, <2>3 DEF CreatePosition, DeletePosition
<1>5. QED
  BY <1>3, <1>4 DEF q

\* Editing the form keeps every candidate on a position that is listed.
LEMMA EditRosterInv ==
  ASSUME RosterInv, NEW e \in ElectionIds, EditRoster(e)
  PROVE  RosterInv'
<1>1. RosterTypeOK'
  BY EditRosterType DEF RosterInv
<1>2. ASSUME NEW k \in CandidateIds, candidate'[k].state # "unborn"
      PROVE  /\ candidate'[k].position \in PositionIds
             /\ position'[candidate'[k].position].state = "listed"
  <2>1. CASE candidate[k].state # "unborn"
    BY <2>1, EditRosterKeeps DEF RosterInv
  <2>2. CASE candidate[k].state = "unborn"
    <3>1. PICK p \in PositionIds : CreateCandidate(k, p, e)
      BY <1>2, <2>2 DEF EditRoster, CreatePosition, DeletePosition, CreateCandidate,
                        DeactivateCandidate, ActiveFor, RosterInv, RosterTypeOK, CandidateRow
    <3>2. QED
      BY <3>1 DEF CreateCandidate, ListByElection, RosterInv, RosterTypeOK, CandidateRow, PositionRow
  <2>3. QED
    BY <2>1, <2>2
<1>3. QED
  BY <1>1, <1>2 DEF RosterInv

\* So does the empty form.
LEMMA RosterInitInv == RosterInit => RosterInv
  BY DEF RosterInit, RosterInv, RosterTypeOK, PositionRow, CandidateRow
=============================================================================
