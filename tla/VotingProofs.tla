---------------------------- MODULE VotingProofs -----------------------------
(***************************************************************************)
(* Theorems about casting a ballot, for any number of elections, accounts, *)
(* requests and secrets; and what voters and administrators may conclude   *)
(* from what they are told: that a ballot is in the box, that it was       *)
(* filled in on the form, by one of the electorate, that the turnout       *)
(* counts the ballots, and that the results stay as they are.              *)
(***************************************************************************)
EXTENDS Voting, ElectionsProofs, FiniteSetTheorems

-----------------------------------------------------------------------------
(* The row of a request. *)

\* A reply keeps who asked for what, and forgets what was read.
LEMMA FinishedRow ==
  ASSUME NEW row \in CastRow, NEW outcome \in Outcomes \union {"ready"}
  PROVE  /\ Finished(row, outcome) \in CastRow
         /\ Finished(row, outcome).phase = outcome
         /\ Finished(row, outcome).account = row.account
         /\ Finished(row, outcome).election = row.election
         /\ Finished(row, outcome).key = row.key
         /\ Finished(row, outcome).selections = row.selections
         /\ Finished(row, outcome).opening = row.opening
  BY DEF Finished, CastRow, Phases

\* A request that goes on to its next reads keeps what it has learned.
LEMMA AwaitRow ==
  ASSUME NEW row \in CastRow, NEW phase \in Phases, NEW reads \in SUBSET Reads
  PROVE  /\ Await(row, phase, reads) \in CastRow
         /\ Await(row, phase, reads).phase = phase
         /\ Await(row, phase, reads).pending = reads
         /\ Await(row, phase, reads).account = row.account
         /\ Await(row, phase, reads).election = row.election
         /\ Await(row, phase, reads).key = row.key
         /\ Await(row, phase, reads).voted = row.voted
  BY DEF Await, CastRow

-----------------------------------------------------------------------------
(* Type correctness. *)

\* A request that arrives has the form of one.
LEMMA ReceiveType ==
  ASSUME TypeOK, NEW c \in CastIds, NEW a \in AccountIds, NEW e \in ElectionIds,
         NEW selections \in Submissions, NEW t \in WorkerClock, Receive(c, a, e, selections, t)
  PROVE  cast' \in [CastIds -> CastRow]
<1> DEFINE row == [phase |-> "received", account |-> a, election |-> e, selections |-> selections,
                   at |-> t, key |-> key, opening |-> openings[e],
                   pending |-> {}, voted |-> FALSE, active |-> {}, listed |-> {}]
<1>1. t \in Int
  BY ClockAssumption DEF WorkerClock, TypeOK, ElectionsTypeOK
<1>2. row \in CastRow
  BY <1>1, KeyAssumption DEF TypeOK, CastRow, Phases
<1>3. cast' = [cast EXCEPT ![c] = row]
  BY DEF Receive
<1> HIDE DEF row
<1>4. QED
  BY <1>2, <1>3 DEF TypeOK

\* It keeps that form when its student is resolved.
LEMMA ResolveStudentType ==
  ASSUME TypeOK, NEW c \in CastIds, ResolveStudent(c)
  PROVE  cast' \in [CastIds -> CastRow]
<1>1. cast[c] \in CastRow
  BY DEF TypeOK
<1>2. Await(cast[c], "resolved", {}) \in CastRow
  BY <1>1, AwaitRow DEF Phases
<1>3. Finished(cast[c], "USER_NOT_FOUND") \in CastRow
  BY <1>1, FinishedRow DEF Outcomes
<1>4. QED
  BY <1>2, <1>3 DEF TypeOK, ResolveStudent

\* It keeps that form when it has read the election.
LEMMA ReadElectionType ==
  ASSUME TypeOK, NEW c \in CastIds, ReadElection(c)
  PROVE  cast' \in [CastIds -> CastRow]
<1>1. cast[c] \in CastRow
  BY DEF TypeOK
<1>2. Await(cast[c], "admitted", {"link", "hash"}) \in CastRow
  BY <1>1, AwaitRow DEF Phases, Reads
<1>3. /\ Finished(cast[c], "ELECTION_NOT_FOUND") \in CastRow
      /\ Finished(cast[c], "ELECTION_NOT_OPEN") \in CastRow
  BY <1>1, FinishedRow DEF Outcomes
<1>4. QED
  BY <1>2, <1>3 DEF TypeOK, ReadElection

\* A read of the participation is recorded in `voted' and `pending' and nowhere
\* else.
LEMMA InformedRow ==
  ASSUME TypeOK, NEW c \in CastIds, NEW read \in Reads
  PROVE  /\ Informed(c, read) \in CastRow
         /\ Informed(c, read).phase = cast[c].phase
         /\ Informed(c, read).pending = cast[c].pending \ {read}
         /\ Informed(c, read).voted = (cast[c].voted \/ HasVoted(cast[c], read))
         /\ Informed(c, read).account = cast[c].account
         /\ Informed(c, read).election = cast[c].election
         /\ Informed(c, read).key = cast[c].key
<1> DEFINE seen == (cast[c].voted \/ HasVoted(cast[c], read))
<1>1. seen \in BOOLEAN /\ cast[c] \in CastRow
  BY DEF TypeOK
<1>2. Informed(c, read) = [cast[c] EXCEPT !.pending = @ \ {read}, !.voted = seen]
  BY DEF Informed
<1> HIDE DEF seen
<1>3. /\ Informed(c, read) \in CastRow
      /\ Informed(c, read).phase = cast[c].phase
      /\ Informed(c, read).pending = cast[c].pending \ {read}
      /\ Informed(c, read).voted = seen
      /\ Informed(c, read).account = cast[c].account
      /\ Informed(c, read).election = cast[c].election
      /\ Informed(c, read).key = cast[c].key
  BY <1>1, <1>2 DEF CastRow
<1>4. QED
  BY <1>3 DEF seen

\* A request keeps its form when it has read the participation.
LEMMA ReadParticipationType ==
  ASSUME TypeOK, NEW c \in CastIds, NEW read \in Reads, ReadParticipation(c, read)
  PROVE  cast' \in [CastIds -> CastRow]
<1> DEFINE row == Informed(c, read)
<1>1. row \in CastRow
  BY InformedRow
<1>2. cast' = [cast EXCEPT ![c] =
                 IF row.pending # {} THEN row
                 ELSE IF row.voted THEN Finished(row, "VOTE_ALREADY_CAST")
                 ELSE IF row.selections = {} THEN Finished(row, "BALLOT_REFUSED")
                 ELSE Await(row, "unvoted", {"candidates", "positions"})]
  BY DEF ReadParticipation
<1> HIDE DEF row
<1>3. /\ Finished(row, "VOTE_ALREADY_CAST") \in CastRow
      /\ Finished(row, "BALLOT_REFUSED") \in CastRow
  BY <1>1, FinishedRow DEF Outcomes
<1>4. Await(row, "unvoted", {"candidates", "positions"}) \in CastRow
  BY <1>1, AwaitRow DEF Phases, Reads
<1>5. QED
  BY <1>1, <1>2, <1>3, <1>4 DEF TypeOK

\* A read of the form leaves account, election, secret and phase alone.
LEMMA ShownFormRow ==
  ASSUME TypeOK, NEW c \in CastIds, NEW read \in Reads
  PROVE  /\ ShownForm(c, read) \in CastRow
         /\ ShownForm(c, read).phase = cast[c].phase
         /\ ShownForm(c, read).account = cast[c].account
         /\ ShownForm(c, read).election = cast[c].election
         /\ ShownForm(c, read).key = cast[c].key
<1> DEFINE active == {s.candidate : s \in cast[c].selections}
                       \intersect {k \in CandidateIds : candidate[k].state = "active"}
           listed == ListByElection(cast[c].election)
           left == cast[c].pending \ {read}
<1>1. active \in SUBSET CandidateIds /\ listed \in SUBSET PositionIds
  BY DEF ListByElection
<1>2. cast[c] \in CastRow
  BY DEF TypeOK
<1>3. left \in SUBSET Reads
  BY <1>2 DEF CastRow
<1>4. ShownForm(c, read) = IF read = "candidates"
                             THEN [cast[c] EXCEPT !.pending = left, !.active = active]
                             ELSE [cast[c] EXCEPT !.pending = left, !.listed = listed]
  BY DEF ShownForm
<1> HIDE DEF active, listed, left
<1>5. QED
  BY <1>1, <1>2, <1>3, <1>4 DEF CastRow

\* A request keeps its form when it has read a part of the ballot form.
LEMMA ReadFormType ==
  ASSUME TypeOK, NEW c \in CastIds, NEW read \in Reads, ReadForm(c, read)
  PROVE  cast' \in [CastIds -> CastRow]
<1> DEFINE row == ShownForm(c, read)
<1>1. row \in CastRow
  BY ShownFormRow
<1>2. cast' = [cast EXCEPT ![c] =
                 IF row.pending # {} THEN row
                 ELSE IF ValidBallot(row.selections, row.active, row.listed)
                   THEN Finished(row, "ready")
                 ELSE Finished(row, "BALLOT_REFUSED")]
  BY DEF ReadForm
<1> HIDE DEF row
<1>3. Finished(row, "ready") \in CastRow /\ Finished(row, "BALLOT_REFUSED") \in CastRow
  BY <1>1, FinishedRow DEF Outcomes
<1>4. QED
  BY <1>1, <1>2, <1>3 DEF TypeOK

\* A request keeps its form when it ends.
LEMMA ReplyType ==
  ASSUME TypeOK, NEW c \in CastIds, NEW outcome \in Outcomes, Reply(c, outcome)
  PROVE  cast' \in [CastIds -> CastRow]
<1>1. Finished(cast[c], outcome) \in CastRow
  BY FinishedRow DEF TypeOK
<1>2. QED
  BY <1>1 DEF TypeOK, Reply

\* The participation table gets well-formed hashes only because a request comes
\* from an account that has a student, so the two facts go together.
TypeInv == TypeOK /\ AccountsKnown

\* A request that has arrived is of an account that exists, hence of a student.
LEMMA KnownStudent ==
  ASSUME TypeInv, NEW c \in CastIds, cast[c].phase # "idle"
  PROVE  /\ cast[c].account \in AccountIds /\ cast[c].election \in ElectionIds
         /\ account[cast[c].account].state # "unborn"
         /\ StudentOf(c) \in StudentIds
  BY DEF TypeInv, AccountsKnown, StudentOf

\* What a step of a request leaves alone, and how its own row may change.
RequestStep(c) ==
  /\ UNCHANGED <<electionVars, rosterVars, electorateVars, key, openings, ballotVars, legacy>>
  /\ cast' \in [CastIds -> CastRow]
  /\ \A d \in CastIds \ {c} : cast'[d] = cast[d]
  /\ cast[c].phase \notin Outcomes /\ cast'[c].phase # "idle"

\* Arrival changes the row of the request only.
LEMMA ReceiveIsRequestStep ==
  ASSUME TypeInv, NEW c \in CastIds, CastStep(c), NEW a \in AccountIds, NEW e \in ElectionIds,
         NEW selections \in Submissions, NEW t \in WorkerClock, Receive(c, a, e, selections, t)
  PROVE  /\ RequestStep(c)
         /\ cast'[c].phase = "received" /\ cast'[c].account = a /\ cast'[c].election = e
         /\ cast'[c].key = key
         /\ account[a].state = "active"
<1>1. cast' \in [CastIds -> CastRow]
  BY ReceiveType DEF TypeInv
<1>2. \A d \in CastIds \ {c} : cast'[d] = cast[d]
  BY DEF Receive, TypeInv, TypeOK
<1>3. /\ cast'[c].phase = "received" /\ cast'[c].account = a /\ cast'[c].election = e
      /\ cast'[c].key = key
  BY DEF Receive, TypeInv, TypeOK
<1>4. UNCHANGED <<electionVars, rosterVars, electorateVars, key, openings, ballotVars, legacy>>
  BY DEF CastStep, Receive
<1>5. cast[c].phase = "idle" /\ account[a].state = "active"
  BY DEF Receive
<1>6. QED
  BY <1>1, <1>2, <1>3, <1>4, <1>5 DEF RequestStep, Outcomes

\* Every later read keeps whose request it is.
Continues(c) ==
  /\ cast'[c].account = cast[c].account /\ cast'[c].election = cast[c].election
  /\ cast'[c].key = cast[c].key
  /\ InFlight(c)

\* Resolving the student changes the row of the request only.
LEMMA ResolveStudentStep ==
  ASSUME TypeInv, NEW c \in CastIds, CastStep(c), ResolveStudent(c)
  PROVE  RequestStep(c) /\ Continues(c) /\ cast'[c].phase \in {"resolved", "USER_NOT_FOUND"}
<1>1. cast[c] \in CastRow
  BY DEF TypeInv, TypeOK
<1>2. cast'[c] \in {Await(cast[c], "resolved", {}), Finished(cast[c], "USER_NOT_FOUND")}
  BY DEF ResolveStudent, TypeInv, TypeOK
<1>3. /\ cast'[c].phase \in {"resolved", "USER_NOT_FOUND"}
      /\ cast'[c].account = cast[c].account /\ cast'[c].election = cast[c].election
      /\ cast'[c].key = cast[c].key
  BY <1>1, <1>2, AwaitRow, FinishedRow DEF Phases, Outcomes
<1>4. cast' \in [CastIds -> CastRow] /\ \A d \in CastIds \ {c} : cast'[d] = cast[d]
  BY ResolveStudentType DEF ResolveStudent, TypeInv, TypeOK
<1>5. UNCHANGED <<electionVars, rosterVars, electorateVars, key, openings, ballotVars, legacy>>
  BY DEF CastStep, ResolveStudent
<1>6. cast[c].phase = "received"
  BY DEF ResolveStudent
<1>7. QED
  BY <1>3, <1>4, <1>5, <1>6 DEF RequestStep, Continues, InFlight, Phases, Outcomes

\* So does the read of the election; an admitted request has both participation
\* reads to make.
LEMMA ReadElectionStep ==
  ASSUME TypeInv, NEW c \in CastIds, CastStep(c), ReadElection(c)
  PROVE  /\ RequestStep(c) /\ Continues(c)
         /\ cast'[c].phase \in {"admitted", "ELECTION_NOT_FOUND", "ELECTION_NOT_OPEN"}
         /\ cast'[c].phase = "admitted" => cast'[c].pending = {"link", "hash"}
<1> DEFINE rows == {Finished(cast[c], "ELECTION_NOT_FOUND"), Finished(cast[c], "ELECTION_NOT_OPEN"),
                    Await(cast[c], "admitted", {"link", "hash"})}
<1>1. cast[c] \in CastRow
  BY DEF TypeInv, TypeOK
<1>2. cast'[c] \in rows
  BY DEF ReadElection, TypeInv, TypeOK
<1>3. /\ cast'[c].phase \in {"admitted", "ELECTION_NOT_FOUND", "ELECTION_NOT_OPEN"}
      /\ cast'[c].phase = "admitted" => cast'[c].pending = {"link", "hash"}
      /\ cast'[c].account = cast[c].account /\ cast'[c].election = cast[c].election
      /\ cast'[c].key = cast[c].key
  <2>1. CASE cast'[c] = Await(cast[c], "admitted", {"link", "hash"})
    BY <1>1, <2>1, AwaitRow DEF Phases, Reads
  <2>2. CASE cast'[c] = Finished(cast[c], "ELECTION_NOT_FOUND")
    BY <1>1, <2>2, FinishedRow DEF Outcomes
  <2>3. CASE cast'[c] = Finished(cast[c], "ELECTION_NOT_OPEN")
    BY <1>1, <2>3, FinishedRow DEF Outcomes
  <2>4. QED
    BY <1>2, <2>1, <2>2, <2>3
<1>4. cast' \in [CastIds -> CastRow] /\ \A d \in CastIds \ {c} : cast'[d] = cast[d]
  BY ReadElectionType DEF ReadElection, TypeInv, TypeOK
<1>5. UNCHANGED <<electionVars, rosterVars, electorateVars, key, openings, ballotVars, legacy>>
  BY DEF CastStep, ReadElection
<1>6. cast[c].phase = "resolved"
  BY DEF ReadElection
<1>7. QED
  BY <1>3, <1>4, <1>5, <1>6 DEF RequestStep, Continues, InFlight, Phases, Outcomes

\* So does a read of the participation; a request passes the check only when
\* neither read found a record.
LEMMA ReadParticipationStep ==
  ASSUME TypeInv, NEW c \in CastIds, CastStep(c), NEW read \in {"link", "hash"},
         ReadParticipation(c, read)
  PROVE  /\ RequestStep(c) /\ Continues(c)
         /\ cast[c].phase = "admitted" /\ read \in cast[c].pending
         /\ \/ /\ cast'[c].phase = "admitted"
               /\ cast'[c].pending = cast[c].pending \ {read}
               /\ cast'[c].voted = (cast[c].voted \/ HasVoted(cast[c], read))
            \/ /\ cast'[c].phase = "VOTE_ALREADY_CAST"
               /\ cast[c].voted \/ HasVoted(cast[c], read)
            \/ /\ cast'[c].phase \in {"unvoted", "BALLOT_REFUSED"}
               /\ cast[c].pending = {read}
               /\ ~cast[c].voted /\ ~HasVoted(cast[c], read)
<1> DEFINE row == Informed(c, read)
<1>0. read \in Reads
  BY DEF Reads
<1>1. /\ row \in CastRow /\ row.phase = cast[c].phase /\ row.pending = cast[c].pending \ {read}
      /\ row.voted = (cast[c].voted \/ HasVoted(cast[c], read))
      /\ row.account = cast[c].account /\ row.election = cast[c].election
      /\ row.key = cast[c].key
  BY <1>0, InformedRow DEF TypeInv
<1>2. cast[c].phase = "admitted" /\ read \in cast[c].pending
  BY DEF ReadParticipation
<1>3. cast'[c] = IF row.pending # {} THEN row
                 ELSE IF row.voted THEN Finished(row, "VOTE_ALREADY_CAST")
                 ELSE IF row.selections = {} THEN Finished(row, "BALLOT_REFUSED")
                 ELSE Await(row, "unvoted", {"candidates", "positions"})
  BY DEF ReadParticipation, TypeInv, TypeOK
<1>4. cast' \in [CastIds -> CastRow] /\ \A d \in CastIds \ {c} : cast'[d] = cast[d]
  BY <1>0, ReadParticipationType DEF ReadParticipation, TypeInv, TypeOK
<1>5. UNCHANGED <<electionVars, rosterVars, electorateVars, key, openings, ballotVars, legacy>>
  BY DEF CastStep, ReadParticipation
<1> HIDE DEF row
<1>6. CASE row.pending # {}
  <2>1. cast'[c] = row
    BY <1>3, <1>6
  <2>2. QED
    BY <1>1, <1>2, <1>4, <1>5, <2>1 DEF RequestStep, Continues, InFlight, Phases, Outcomes
<1>7. CASE row.pending = {} /\ row.voted
  <2>1. cast'[c] = Finished(row, "VOTE_ALREADY_CAST")
    BY <1>3, <1>7
  <2>2. /\ cast'[c].phase = "VOTE_ALREADY_CAST"
        /\ cast'[c].account = row.account /\ cast'[c].election = row.election
        /\ cast'[c].key = row.key
    BY <1>1, <2>1, FinishedRow DEF Outcomes
  <2>3. cast[c].voted \/ HasVoted(cast[c], read)
    BY <1>1, <1>7
  <2>4. QED
    BY <1>1, <1>2, <1>4, <1>5, <2>2, <2>3 DEF RequestStep, Continues, InFlight, Phases, Outcomes
<1>8. CASE row.pending = {} /\ ~row.voted
  <2>1. \/ cast'[c] = Finished(row, "BALLOT_REFUSED")
        \/ cast'[c] = Await(row, "unvoted", {"candidates", "positions"})
    BY <1>3, <1>8
  <2>2. /\ cast'[c].phase \in {"unvoted", "BALLOT_REFUSED"}
        /\ cast'[c].account = row.account /\ cast'[c].election = row.election
        /\ cast'[c].key = row.key
    <3>1. CASE cast'[c] = Finished(row, "BALLOT_REFUSED")
      BY <1>1, <3>1, FinishedRow DEF Outcomes
    <3>2. CASE cast'[c] = Await(row, "unvoted", {"candidates", "positions"})
      BY <1>1, <3>2, AwaitRow DEF Phases, Reads
    <3>3. QED
      BY <2>1, <3>1, <3>2
  <2>3. ~cast[c].voted /\ ~HasVoted(cast[c], read)
    BY <1>1, <1>8
  <2>4. cast[c].pending = {read}
    BY <1>1, <1>2, <1>8
  <2>5. QED
    BY <1>1, <1>2, <1>4, <1>5, <2>2, <2>3, <2>4
       DEF RequestStep, Continues, InFlight, Phases, Outcomes
<1>9. QED
  BY <1>6, <1>7, <1>8

\* So does a read of the form.
LEMMA ReadFormStep ==
  ASSUME TypeInv, NEW c \in CastIds, CastStep(c), NEW read \in {"candidates", "positions"},
         ReadForm(c, read)
  PROVE  /\ RequestStep(c) /\ Continues(c) /\ cast[c].phase = "unvoted"
         /\ cast'[c].phase \in {"unvoted", "ready", "BALLOT_REFUSED"}
<1> DEFINE row == ShownForm(c, read)
<1>0. read \in Reads
  BY DEF Reads
<1>1. /\ row \in CastRow /\ row.phase = cast[c].phase
      /\ row.account = cast[c].account /\ row.election = cast[c].election
      /\ row.key = cast[c].key
  BY <1>0, ShownFormRow DEF TypeInv
<1>2. cast[c].phase = "unvoted"
  BY DEF ReadForm
<1>3. cast'[c] \in {row, Finished(row, "ready"), Finished(row, "BALLOT_REFUSED")}
  BY DEF ReadForm, TypeInv, TypeOK
<1>4. cast' \in [CastIds -> CastRow] /\ \A d \in CastIds \ {c} : cast'[d] = cast[d]
  BY <1>0, ReadFormType DEF ReadForm, TypeInv, TypeOK
<1>5. UNCHANGED <<electionVars, rosterVars, electorateVars, key, openings, ballotVars, legacy>>
  BY DEF CastStep, ReadForm
<1> HIDE DEF row
<1>6. /\ cast'[c].phase \in {"unvoted", "ready", "BALLOT_REFUSED"}
      /\ cast'[c].account = row.account /\ cast'[c].election = row.election
      /\ cast'[c].key = row.key
  <2>1. CASE cast'[c] = row
    BY <1>1, <1>2, <2>1
  <2>2. CASE cast'[c] = Finished(row, "ready")
    BY <1>1, <2>2, FinishedRow
  <2>3. CASE cast'[c] = Finished(row, "BALLOT_REFUSED")
    BY <1>1, <2>3, FinishedRow DEF Outcomes
  <2>4. QED
    BY <1>3, <2>1, <2>2, <2>3
<1>7. QED
  BY <1>1, <1>2, <1>4, <1>5, <1>6 DEF RequestStep, Continues, InFlight, Phases, Outcomes

\* A batch that fails changes the row of the request only, and is a duplicate
\* only if its hash is on record.
LEMMA AbortStep ==
  ASSUME TypeInv, NEW c \in CastIds, CastStep(c), AbortNotOpen(c) \/ AbortDuplicate(c)
  PROVE  /\ RequestStep(c) /\ Continues(c) /\ cast[c].phase = "ready"
         /\ \/ cast'[c].phase = "ELECTION_NOT_OPEN"
            \/ /\ cast'[c].phase = "VOTE_ALREADY_CAST"
               /\ CurrentHash(c) \in participation[cast[c].election]
<1>1. cast[c].phase = "ready" /\ cast[c] \in CastRow
  BY DEF AbortNotOpen, AbortDuplicate, TypeInv, TypeOK
<1>2. UNCHANGED <<electionVars, rosterVars, electorateVars, key, openings, ballotVars, legacy>>
  BY DEF CastStep, AbortNotOpen, AbortDuplicate
<1>3. \/ Reply(c, "ELECTION_NOT_OPEN")
      \/ Reply(c, "VOTE_ALREADY_CAST") /\ CurrentHash(c) \in participation[cast[c].election]
  BY DEF AbortNotOpen, AbortDuplicate
<1>4. \/ cast'[c] = Finished(cast[c], "ELECTION_NOT_OPEN")
      \/ /\ cast'[c] = Finished(cast[c], "VOTE_ALREADY_CAST")
         /\ CurrentHash(c) \in participation[cast[c].election]
  BY <1>3 DEF Reply, TypeInv, TypeOK
<1>5. cast' \in [CastIds -> CastRow] /\ \A d \in CastIds \ {c} : cast'[d] = cast[d]
  BY <1>3, ReplyType DEF Reply, Outcomes, TypeInv, TypeOK
<1>6. QED
  BY <1>1, <1>2, <1>4, <1>5, FinishedRow DEF RequestStep, Continues, InFlight, Phases, Outcomes

\* A batch that commits ends its request as counted.
LEMMA CommitStep ==
  ASSUME TypeInv, NEW c \in CastIds, CommitBallot(c)
  PROVE  /\ cast[c].phase = "ready" /\ cast'[c].phase = "counted" /\ Continues(c)
         /\ cast' \in [CastIds -> CastRow] /\ \A d \in CastIds \ {c} : cast'[d] = cast[d]
<1>1. cast[c].phase = "ready" /\ cast[c] \in CastRow /\ Reply(c, "counted")
  BY DEF CommitBallot, TypeInv, TypeOK
<1>2. cast'[c] = Finished(cast[c], "counted")
  BY <1>1 DEF Reply, TypeInv, TypeOK
<1>3. cast' \in [CastIds -> CastRow] /\ \A d \in CastIds \ {c} : cast'[d] = cast[d]
  BY <1>1, ReplyType DEF Reply, Outcomes, TypeInv, TypeOK
<1>4. QED
  BY <1>1, <1>2, <1>3, FinishedRow DEF Continues, InFlight, Phases, Outcomes

-----------------------------------------------------------------------------
(* The accounts. *)

\* What managing accounts can do to one account: nothing, create it for a
\* student who has none, or move it between its states.
AccountMoves(a) ==
  \/ account'[a] = account[a]
  \/ /\ account[a].state = "unborn" /\ account'[a].state = "active"
     /\ account'[a].student \in StudentIds
     /\ \A b \in AccountIds : HasUserRow(b) => account[b].student # account'[a].student
  \/ /\ account[a].state \in {"active", "archived"} /\ account'[a].student = account[a].student
     /\ \/ account'[a].state \in {"active", "archived"}
        \/ account'[a].state = "deleted" /\ \E t \in WorkerClock : ElectorateMutable(t)

\* One account changes at a time.
LEMMA ManageAccountsMoves ==
  ASSUME TypeInv, ManageAccounts
  PROVE  /\ account' \in [AccountIds -> AccountRow] /\ UNCHANGED electorate
         /\ \E a \in AccountIds : AccountMoves(a) /\ \A b \in AccountIds \ {a} : account'[b] = account[b]
<1> PICK a \in AccountIds, t \in WorkerClock :
      \/ \E s \in StudentIds, bySuperAdmin \in BOOLEAN : CreateAccount(a, s, bySuperAdmin, t)
      \/ SoftDelete(a, t)
      \/ Restore(a, t)
      \/ HardDelete(a, t)
  BY DEF ManageAccounts
<1> USE DEF TypeInv, TypeOK, ElectorateTypeOK
<1>1. ASSUME NEW s \in StudentIds, NEW bySuperAdmin \in BOOLEAN, CreateAccount(a, s, bySuperAdmin, t)
      PROVE  /\ account' \in [AccountIds -> AccountRow] /\ UNCHANGED electorate
             /\ AccountMoves(a) /\ \A b \in AccountIds \ {a} : account'[b] = account[b]
  <2> DEFINE row == [state |-> "active", student |-> s, bySuperAdmin |-> bySuperAdmin]
  <2>1. row \in AccountRow /\ row.state = "active" /\ row.student = s
    BY DEF AccountRow
  <2>2. account' = [account EXCEPT ![a] = row]
    BY <1>1 DEF CreateAccount
  <2>3. account'[a] = row
    BY <2>2
  <2> HIDE DEF row
  <2>4. AccountMoves(a)
    BY <1>1, <2>1, <2>3 DEF CreateAccount, AccountMoves
  <2>5. QED
    BY <1>1, <2>1, <2>2, <2>4 DEF CreateAccount
<1>2. CASE SoftDelete(a, t)
  <2>1. /\ account' \in [AccountIds -> AccountRow] /\ UNCHANGED electorate
        /\ \A b \in AccountIds \ {a} : account'[b] = account[b]
        /\ account'[a].state = "archived" /\ account'[a].student = account[a].student
    BY <1>2 DEF SoftDelete, AccountRow
  <2>2. QED
    BY <1>2, <2>1 DEF SoftDelete, AccountMoves
<1>3. CASE Restore(a, t)
  <2>1. /\ account' \in [AccountIds -> AccountRow] /\ UNCHANGED electorate
        /\ \A b \in AccountIds \ {a} : account'[b] = account[b]
        /\ account'[a].state = "active" /\ account'[a].student = account[a].student
    BY <1>3 DEF Restore, AccountRow
  <2>2. QED
    BY <1>3, <2>1 DEF Restore, AccountMoves
<1>4. CASE HardDelete(a, t)
  <2>1. /\ account' \in [AccountIds -> AccountRow] /\ UNCHANGED electorate
        /\ \A b \in AccountIds \ {a} : account'[b] = account[b]
        /\ account'[a].state = "deleted" /\ account'[a].student = account[a].student
    BY <1>4 DEF HardDelete, AccountRow
  <2>2. QED
    BY <1>4, <2>1 DEF HardDelete, HasUserRow, AccountMoves
<1>5. QED
  BY <1>1, <1>2, <1>3, <1>4

\* An account never forgets its student.
LEMMA StudentsStay ==
  ASSUME TypeInv, ManageAccounts, NEW a \in AccountIds, account[a].state # "unborn"
  PROVE  account'[a].state # "unborn" /\ account'[a].student = account[a].student
  BY ManageAccountsMoves DEF AccountMoves

-----------------------------------------------------------------------------
(* Type correctness of the other steps. *)

\* Every step of a request keeps the types.
LEMMA CastStepType ==
  ASSUME TypeInv, NEW c \in CastIds, CastStep(c)
  PROVE  TypeInv'
<1>1. ASSUME RequestStep(c), cast'[c].account \in AccountIds, cast'[c].election \in ElectionIds,
             account[cast'[c].account].state # "unborn"
      PROVE  TypeInv'
  BY <1>1 DEF RequestStep, TypeInv, TypeOK, AccountsKnown, ElectionsTypeOK, RosterTypeOK,
              ElectorateTypeOK, electionVars, rosterVars, electorateVars, ballotVars
<1>2. ASSUME RequestStep(c), Continues(c) PROVE TypeInv'
  <2>1. cast[c].phase # "idle"
    BY <1>2 DEF Continues, InFlight
  <2>2. QED
    BY <1>1, <1>2, <2>1, KnownStudent DEF Continues
<1>3. ASSUME NEW a \in AccountIds, NEW e \in ElectionIds, NEW selections \in Submissions,
             NEW t \in WorkerClock, Receive(c, a, e, selections, t)
      PROVE  TypeInv'
  BY <1>1, <1>3, ReceiveIsRequestStep
<1>4. CASE ResolveStudent(c)
  BY <1>2, <1>4, ResolveStudentStep
<1>5. CASE ReadElection(c)
  BY <1>2, <1>5, ReadElectionStep
<1>6. ASSUME NEW read \in {"link", "hash"}, ReadParticipation(c, read) PROVE TypeInv'
  BY <1>2, <1>6, ReadParticipationStep
<1>7. ASSUME NEW read \in {"candidates", "positions"}, ReadForm(c, read) PROVE TypeInv'
  BY <1>2, <1>7, ReadFormStep
<1>8. CASE AbortNotOpen(c) \/ AbortDuplicate(c)
  BY <1>2, <1>8, AbortStep
<1>9. CASE CommitBallot(c)
  <2>1. /\ cast[c].phase = "ready" /\ cast'[c].phase = "counted" /\ Continues(c)
        /\ cast' \in [CastIds -> CastRow] /\ \A d \in CastIds \ {c} : cast'[d] = cast[d]
    BY <1>9, CommitStep
  <2>2. /\ cast[c].account \in AccountIds /\ cast[c].election \in ElectionIds
        /\ account[cast[c].account].state # "unborn" /\ StudentOf(c) \in StudentIds
    BY <2>1, KnownStudent
  <2>3. UNCHANGED <<electionVars, rosterVars, electorateVars, key, openings, legacy>>
    BY <1>9 DEF CastStep, CommitBallot
  <2>4. CurrentHash(c) \in Hashes
    BY <2>2 DEF CurrentHash, Hashes, TypeInv, TypeOK, CastRow
  <2>5. /\ votes' \in [ElectionIds -> SUBSET CastIds]
        /\ snapshots' \in [ElectionIds -> SUBSET CastIds]
        /\ participation' \in [ElectionIds -> SUBSET Hashes]
    BY <1>9, <2>2, <2>4 DEF CommitBallot, TypeInv, TypeOK
  <2>6. AccountsKnown'
    BY <2>1, <2>2, <2>3 DEF TypeInv, AccountsKnown, Continues, electorateVars
  <2>7. QED
    BY <2>1, <2>3, <2>5, <2>6 DEF TypeInv, TypeOK, ElectionsTypeOK, RosterTypeOK,
       ElectorateTypeOK, electionVars, rosterVars, electorateVars
<1>10. QED
  BY <1>3, <1>4, <1>5, <1>6, <1>7, <1>8, <1>9 DEF CastStep

-----------------------------------------------------------------------------
(* One ballot per student: the inductive invariant, step by step. *)

IInv == ElectionsInv /\ TypeInv /\ ParticipationInv

\* A request reads, or is refused.
LEMMA RequestStepInv ==
  ASSUME IInv, NEW c \in CastIds, RequestStep(c), TypeInv',
         InFlight(c)' => cast'[c].key = key,
         PassedHashCheck(c)' =>
           \A h \in participation[cast'[c].election] : h[2] = StudentOf(c)' => h[1] = cast'[c].key,
         PassedLinkCheck(c)' => legacy[cast'[c].election][cast'[c].account] # "linked",
         InFlight(c)' => \A e \in ElectionIds : \A a \in LegacyVoters(e, {"linked"}) :
                           account[a].student = StudentOf(c)' => a = cast'[c].account
  PROVE  IInv'
<1>1. /\ UNCHANGED <<now, election, account, key, votes, snapshots, participation, legacy>>
      /\ \A d \in CastIds \ {c} : cast'[d] = cast[d]
      /\ cast[c].phase \notin Outcomes
  BY DEF RequestStep, electionVars, electorateVars, ballotVars
<1>2. \A e \in ElectionIds : votes[e] \subseteq CastIds \ {c}
  BY <1>1 DEF IInv, ParticipationInv, BallotsRecorded, Outcomes, TypeInv, TypeOK
<1>3. \A d \in CastIds \ {c} : StudentOf(d)' = StudentOf(d)
  BY <1>1 DEF StudentOf
<1>4. ElectionsInv'
  BY <1>1 DEF IInv, ElectionsInv, ElectionsTypeOK, OneOpenElection, IdxOneOpen, OpenHasWindow,
              OpenElections
<1>5. OneBallotPerStudent'
  BY <1>1, <1>2, <1>3
     DEF IInv, ParticipationInv, OneBallotPerStudent, VotersByCast, VotersByLink, LegacyVoters
<1>6. SecretsAgree'
  BY <1>1 DEF IInv, ParticipationInv, SecretsAgree, InFlight
<1>7. OnlyOwnHash'
  <2> SUFFICES ASSUME NEW d \in CastIds, PassedHashCheck(d)'
               PROVE  \A h \in participation'[cast'[d].election] :
                        h[2] = StudentOf(d)' => h[1] = cast'[d].key
    BY DEF OnlyOwnHash
  <2>1. CASE d = c
    BY <1>1, <2>1
  <2>2. CASE d # c
    BY <1>1, <1>3, <2>2 DEF IInv, ParticipationInv, OnlyOwnHash, PassedHashCheck
  <2>3. QED
    BY <2>1, <2>2
<1>8. NoOwnLink'
  BY <1>1 DEF IInv, ParticipationInv, NoOwnLink, PassedLinkCheck
<1>9. LinksAreOwn'
  <2> SUFFICES ASSUME NEW d \in CastIds, NEW e \in ElectionIds,
                      NEW a \in LegacyVoters(e, {"linked"})', InFlight(d)',
                      account'[a].student = StudentOf(d)'
               PROVE  a = cast'[d].account
    BY DEF LinksAreOwn
  <2>1. a \in LegacyVoters(e, {"linked"}) /\ account[a].student = StudentOf(d)'
    BY <1>1 DEF LegacyVoters
  <2>2. CASE d = c
    BY <2>1, <2>2
  <2>3. CASE d # c
    BY <1>1, <1>3, <2>1, <2>3 DEF IInv, ParticipationInv, LinksAreOwn, InFlight
  <2>4. QED
    BY <2>2, <2>3
<1>10. BallotsRecorded'
  BY <1>1, <1>2, <1>3
     DEF IInv, ParticipationInv, BallotsRecorded, LegacyVoters, HasUserRow, Ended
<1>11. AccountsUnique' /\ BallotsHoldElection'
  BY <1>1 DEF IInv, ParticipationInv, AccountsUnique, HasUserRow, BallotsHoldElection, HasBallots,
              LegacyVoters
<1>12. QED
  BY <1>4, <1>5, <1>6, <1>7, <1>8, <1>9, <1>10, <1>11 DEF IInv, ParticipationInv, TypeInv

\* A request that goes on without passing a check keeps what it knew.
LEMMA ContinuesInv ==
  ASSUME IInv, NEW c \in CastIds, RequestStep(c), Continues(c), TypeInv',
         PassedHashCheck(c)' => PassedHashCheck(c),
         PassedLinkCheck(c)' => PassedLinkCheck(c)
  PROVE  IInv'
<1>1. UNCHANGED <<account, key, participation, legacy>> /\ StudentOf(c)' = StudentOf(c)
  BY DEF RequestStep, Continues, electorateVars, ballotVars, StudentOf
<1>2. /\ cast'[c].key = cast[c].key /\ cast'[c].election = cast[c].election
      /\ cast'[c].account = cast[c].account /\ InFlight(c)
  BY DEF Continues
<1>3. cast'[c].key = key
  BY <1>2 DEF IInv, ParticipationInv, SecretsAgree
<1>4. PassedHashCheck(c)' =>
        \A h \in participation[cast'[c].election] : h[2] = StudentOf(c)' => h[1] = cast'[c].key
  BY <1>1, <1>2 DEF IInv, ParticipationInv, OnlyOwnHash
<1>5. PassedLinkCheck(c)' => legacy[cast'[c].election][cast'[c].account] # "linked"
  BY <1>2 DEF IInv, ParticipationInv, NoOwnLink
<1>6. \A e \in ElectionIds : \A a \in LegacyVoters(e, {"linked"}) :
        account[a].student = StudentOf(c)' => a = cast'[c].account
  BY <1>1, <1>2 DEF IInv, ParticipationInv, LinksAreOwn
<1>7. QED
  BY <1>3, <1>4, <1>5, <1>6, RequestStepInv

\* A read that found nothing rules out every hash of the student, under the
\* current secret and the retained ones.
LEMMA NoHashFound ==
  ASSUME IInv, NEW c \in CastIds, InFlight(c), ~HasVoted(cast[c], "hash"),
         NEW h \in participation[cast[c].election]
  PROVE  h[2] # StudentOf(c)
<1>1. cast[c].phase # "idle"
  BY DEF InFlight
<1>2. cast[c].election \in ElectionIds
  BY <1>1, KnownStudent DEF IInv
<1>3. h \in Hashes /\ h[1] <= cast[c].key
  BY <1>2 DEF IInv, ParticipationInv, SecretsAgree, TypeInv, TypeOK
<1>4. h = <<h[1], h[2]>> /\ h[1] \in 0..cast[c].key
  BY <1>3 DEF Hashes, IInv, TypeInv, TypeOK, CastRow
<1>5. \A k \in 0..cast[c].key : <<k, StudentOf(c)>> \notin participation[cast[c].election]
  BY DEF HasVoted, StudentOf
<1>6. QED
  BY <1>4, <1>5

\* Arrival keeps the invariant: the request takes the secret of now.
LEMMA ReceiveInv ==
  ASSUME IInv, NEW c \in CastIds, CastStep(c), TypeInv',
         NEW a \in AccountIds, NEW e \in ElectionIds, NEW selections \in Submissions,
         NEW t \in WorkerClock, Receive(c, a, e, selections, t)
  PROVE  IInv'
<1>1. /\ RequestStep(c) /\ cast'[c].phase = "received" /\ cast'[c].account = a
      /\ cast'[c].key = key /\ account[a].state = "active"
  BY ReceiveIsRequestStep DEF IInv
<1>2. ~PassedHashCheck(c)' /\ ~PassedLinkCheck(c)'
  BY <1>1 DEF PassedHashCheck, PassedLinkCheck
<1>3. StudentOf(c)' = account[a].student
  BY <1>1 DEF StudentOf, RequestStep, electorateVars
<1>4. ASSUME NEW f \in ElectionIds, NEW b \in LegacyVoters(f, {"linked"}),
             account[b].student = StudentOf(c)'
      PROVE  b = a
  <2>1. HasUserRow(b) /\ b \in AccountIds
    BY DEF IInv, ParticipationInv, BallotsRecorded, LegacyVoters
  <2>2. HasUserRow(a)
    BY <1>1 DEF HasUserRow
  <2>3. QED
    BY <1>3, <1>4, <2>1, <2>2 DEF IInv, ParticipationInv, AccountsUnique
<1>5. QED
  BY <1>1, <1>2, <1>4, RequestStepInv

\* A participation read keeps the invariant: what it did not find is not there.
LEMMA ReadParticipationInv ==
  ASSUME IInv, NEW c \in CastIds, CastStep(c), TypeInv', NEW read \in {"link", "hash"},
         ReadParticipation(c, read)
  PROVE  IInv'
<1>1. /\ RequestStep(c) /\ Continues(c)
      /\ cast[c].phase = "admitted" /\ read \in cast[c].pending
      /\ \/ /\ cast'[c].phase = "admitted"
            /\ cast'[c].pending = cast[c].pending \ {read}
            /\ cast'[c].voted = (cast[c].voted \/ HasVoted(cast[c], read))
         \/ /\ cast'[c].phase = "VOTE_ALREADY_CAST"
            /\ cast[c].voted \/ HasVoted(cast[c], read)
         \/ /\ cast'[c].phase \in {"unvoted", "BALLOT_REFUSED"}
            /\ cast[c].pending = {read}
            /\ ~cast[c].voted /\ ~HasVoted(cast[c], read)
  BY ReadParticipationStep DEF IInv
<1>2. UNCHANGED <<account, key, participation, legacy>> /\ StudentOf(c)' = StudentOf(c)
  BY <1>1 DEF RequestStep, Continues, electorateVars, ballotVars, StudentOf
<1>3. /\ cast'[c].key = cast[c].key /\ cast'[c].election = cast[c].election
      /\ cast'[c].account = cast[c].account /\ InFlight(c)
  BY <1>1 DEF Continues
<1>4. cast'[c].key = key
  BY <1>3 DEF IInv, ParticipationInv, SecretsAgree
<1>5. ASSUME PassedHashCheck(c)', NEW h \in participation[cast'[c].election],
             h[2] = StudentOf(c)'
      PROVE  h[1] = cast'[c].key
  <2>1. PassedHashCheck(c) \/ (read = "hash" /\ ~HasVoted(cast[c], read))
    BY <1>1, <1>5 DEF PassedHashCheck
  <2>2. CASE PassedHashCheck(c)
    BY <1>2, <1>3, <1>5, <2>2 DEF IInv, ParticipationInv, OnlyOwnHash
  <2>3. CASE read = "hash" /\ ~HasVoted(cast[c], read)
    BY <1>2, <1>3, <1>5, <2>3, NoHashFound
  <2>4. QED
    BY <2>1, <2>2, <2>3
<1>6. ASSUME PassedLinkCheck(c)'
      PROVE  legacy[cast'[c].election][cast'[c].account] # "linked"
  <2>1. PassedLinkCheck(c) \/ (read = "link" /\ ~HasVoted(cast[c], read))
    BY <1>1, <1>6 DEF PassedLinkCheck
  <2>2. QED
    BY <1>3, <2>1 DEF IInv, ParticipationInv, NoOwnLink, HasVoted
<1>7. \A e \in ElectionIds : \A a \in LegacyVoters(e, {"linked"}) :
        account[a].student = StudentOf(c)' => a = cast'[c].account
  BY <1>2, <1>3 DEF IInv, ParticipationInv, LinksAreOwn
<1>8. QED
  BY <1>1, <1>4, <1>5, <1>6, <1>7, RequestStepInv

\* No ballot of the student is in the box when the batch of the request commits.
LEMMA CommitIsFirst ==
  ASSUME IInv, NEW c \in CastIds, CommitBallot(c)
  PROVE  /\ StudentOf(c) \notin VotersByCast(cast[c].election)
         /\ StudentOf(c) \notin VotersByLink(cast[c].election)
<1> DEFINE e == cast[c].election
<1>1. /\ cast[c].phase = "ready" /\ InWindow(e) /\ CurrentHash(c) \notin participation[e]
  BY DEF CommitBallot
<1>2. InFlight(c) /\ PassedHashCheck(c) /\ PassedLinkCheck(c)
  BY <1>1 DEF InFlight, Phases, Outcomes, PassedHashCheck, PassedLinkCheck
<1>3. e \in ElectionIds
  BY <1>1, KnownStudent DEF IInv
<1>4. ASSUME NEW h \in participation[e], h[2] = StudentOf(c) PROVE FALSE
  <2>1. h[1] = cast[c].key
    BY <1>2, <1>4 DEF IInv, ParticipationInv, OnlyOwnHash
  <2>2. h = <<h[1], h[2]>>
    BY <1>3 DEF Hashes, IInv, TypeInv, TypeOK
  <2>3. QED
    BY <1>1, <1>4, <2>1, <2>2 DEF CurrentHash
<1>5. StudentOf(c) \notin VotersByCast(e)
  BY <1>3, <1>4 DEF VotersByCast, IInv, ParticipationInv, BallotsRecorded
<1>6. ASSUME NEW a \in LegacyVoters(e, LegacyStates \ {"none"}), account[a].student = StudentOf(c)
      PROVE  FALSE
  <2>1. a \in AccountIds /\ legacy[e][a] \in {"linked", "unlinked", "anonymised"}
    BY DEF LegacyVoters, LegacyStates
  <2>2. CASE legacy[e][a] = "linked"
    <3>1. a = cast[c].account
      BY <1>2, <1>3, <1>6, <2>1, <2>2 DEF IInv, ParticipationInv, LinksAreOwn, LegacyVoters
    <3>2. QED
      BY <1>2, <2>2, <3>1 DEF IInv, ParticipationInv, NoOwnLink
  <2>3. CASE legacy[e][a] = "anonymised"
    BY <1>3, <1>4, <1>6, <2>1, <2>3 DEF IInv, ParticipationInv, BallotsRecorded, LegacyVoters
  <2>4. CASE legacy[e][a] = "unlinked"
    <3>1. Ended(e)
      BY <1>3, <2>1, <2>4 DEF IInv, ParticipationInv, BallotsRecorded, LegacyVoters, LegacyStates
    <3>2. election[e].status = "open" /\ now <= election[e].closesAt /\ election[e].closesAt \in Int
      BY <1>1, <1>3 DEF InWindow, IInv, ElectionsInv, ElectionsTypeOK, Row
    <3>3. now \in Int
      BY DEF IInv, ElectionsInv, ElectionsTypeOK
    <3>4. QED
      BY <3>1, <3>2, <3>3 DEF Ended
  <2>5. QED
    BY <2>1, <2>2, <2>3, <2>4
<1>7. StudentOf(c) \notin VotersByLink(e)
  BY <1>6 DEF VotersByLink
<1>8. QED
  BY <1>5, <1>7

\* The batch keeps the invariant: it adds one ballot and its own hash, which was
\* not on record.
LEMMA CommitInv ==
  ASSUME IInv, NEW c \in CastIds, CastStep(c), TypeInv', CommitBallot(c)
  PROVE  IInv'
<1> DEFINE e == cast[c].election
<1>1. /\ cast[c].phase = "ready" /\ cast'[c].phase = "counted" /\ Continues(c)
      /\ \A d \in CastIds \ {c} : cast'[d] = cast[d]
  BY CommitStep DEF IInv
<1>2. /\ UNCHANGED <<now, election, account, key, legacy>>
      /\ \A d \in CastIds : StudentOf(d)' = StudentOf(d)
  <2>1. UNCHANGED <<now, election, account, key, legacy>>
    BY DEF CastStep, CommitBallot, electionVars, electorateVars
  <2>2. QED
    BY <1>1, <2>1 DEF StudentOf, Continues
<1>3. e \in ElectionIds /\ InWindow(e) /\ InFlight(c)
  BY <1>1, KnownStudent DEF IInv, CommitBallot, Continues
<1>4. /\ votes' = [votes EXCEPT ![e] = @ \union {c}]
      /\ snapshots' = [snapshots EXCEPT ![e] = @ \union {c}]
      /\ participation' = [participation EXCEPT ![e] = @ \union {CurrentHash(c)}]
  BY DEF CommitBallot
<1>5. \A f \in ElectionIds :
        /\ votes'[f] = IF f = e THEN votes[e] \union {c} ELSE votes[f]
        /\ participation'[f] = IF f = e THEN participation[e] \union {CurrentHash(c)}
                               ELSE participation[f]
  BY <1>4 DEF IInv, TypeInv, TypeOK
<1>6. CurrentHash(c)[1] = cast[c].key /\ CurrentHash(c)[2] = StudentOf(c) /\ cast[c].key = key
  BY <1>3 DEF CurrentHash, IInv, ParticipationInv, SecretsAgree
<1>7. StudentOf(c) \notin VotersByCast(e) /\ StudentOf(c) \notin VotersByLink(e)
  BY CommitIsFirst
<1>8. \A d \in CastIds : InFlight(d)' => d # c /\ InFlight(d) /\ cast'[d] = cast[d]
  BY <1>1 DEF InFlight, Outcomes
<1>9. key \in Int
  BY KeyAssumption DEF IInv, TypeInv, TypeOK
<1>10. ElectionsInv'
  BY <1>2 DEF IInv, ElectionsInv, ElectionsTypeOK, OneOpenElection, IdxOneOpen, OpenHasWindow,
              OpenElections
<1>11. OneBallotPerStudent'
  <2> SUFFICES ASSUME NEW f \in ElectionIds
               PROVE  /\ \A d, g \in votes'[f] : StudentOf(d)' = StudentOf(g)' => d = g
                      /\ \A a, b \in LegacyVoters(f, LegacyStates \ {"none"})' :
                           account'[a].student = account'[b].student => a = b
                      /\ VotersByCast(f)' \intersect VotersByLink(f)' = {}
    BY DEF OneBallotPerStudent
  <2>1. /\ LegacyVoters(f, LegacyStates \ {"none"})' = LegacyVoters(f, LegacyStates \ {"none"})
        /\ VotersByLink(f)' = VotersByLink(f)
    BY <1>2 DEF LegacyVoters, VotersByLink
  <2>2. votes[f] \subseteq CastIds
    BY DEF IInv, TypeInv, TypeOK
  <2> DEFINE voters == LegacyVoters(f, LegacyStates \ {"none"})
  <2>3. /\ \A d, g \in votes[f] : StudentOf(d) = StudentOf(g) => d = g
        /\ \A a, b \in voters : account[a].student = account[b].student => a = b
        /\ VotersByCast(f) \intersect VotersByLink(f) = {}
    BY DEF IInv, ParticipationInv, OneBallotPerStudent
  <2>4. \A a, b \in voters' : account'[a].student = account'[b].student => a = b
    BY <1>2, <2>1, <2>3
  <2>5. CASE f # e
    <3>1. votes'[f] = votes[f]
      BY <1>5, <2>5
    <3>2. VotersByCast(f)' = VotersByCast(f)
      BY <1>2, <2>2, <3>1 DEF VotersByCast
    <3>3. \A d, g \in votes'[f] : StudentOf(d)' = StudentOf(g)' => d = g
      BY <1>2, <2>2, <2>3, <3>1
    <3>4. QED
      BY <2>1, <2>3, <2>4, <3>2, <3>3
  <2>6. CASE f = e
    <3>1. votes'[f] = votes[f] \union {c}
      BY <1>5, <2>6
    <3>2. VotersByCast(f)' = VotersByCast(f) \union {StudentOf(c)}
      BY <1>2, <2>2, <3>1 DEF VotersByCast
    <3>3. \A d \in votes[f] : StudentOf(d) # StudentOf(c)
      BY <1>7, <2>6 DEF VotersByCast
    <3>4. \A d, g \in votes'[f] : StudentOf(d)' = StudentOf(g)' => d = g
      BY <1>2, <2>2, <2>3, <3>1, <3>3
    <3>5. StudentOf(c) \notin VotersByLink(f)
      BY <1>7, <2>6
    <3>6. VotersByCast(f)' \intersect VotersByLink(f)' = {}
      BY <2>1, <2>3, <3>2, <3>5
    <3>7. QED
      BY <2>4, <3>4, <3>6
  <2>7. QED
    BY <2>5, <2>6
<1>12. SecretsAgree'
  BY <1>2, <1>5, <1>6, <1>8, <1>9 DEF IInv, ParticipationInv, SecretsAgree
<1>13. OnlyOwnHash'
  <2> SUFFICES ASSUME NEW d \in CastIds, PassedHashCheck(d)',
                      NEW h \in participation'[cast'[d].election], h[2] = StudentOf(d)'
               PROVE  h[1] = cast'[d].key
    BY DEF OnlyOwnHash
  <2>1. InFlight(d)'
    BY DEF PassedHashCheck, InFlight, Phases, Outcomes
  <2>2. d # c /\ InFlight(d) /\ cast'[d] = cast[d] /\ PassedHashCheck(d)
    BY <1>8, <2>1 DEF PassedHashCheck
  <2>3. cast[d].election \in ElectionIds /\ cast[d].key = key
    BY <2>2, KnownStudent DEF IInv, ParticipationInv, SecretsAgree, InFlight
  <2>4. h = CurrentHash(c) \/ h \in participation[cast[d].election]
    BY <1>5, <2>2, <2>3
  <2>5. QED
    BY <1>2, <1>6, <2>2, <2>3, <2>4 DEF IInv, ParticipationInv, OnlyOwnHash
<1>14. NoOwnLink'
  BY <1>2, <1>1 DEF IInv, ParticipationInv, NoOwnLink, PassedLinkCheck
<1>15. LinksAreOwn'
  BY <1>2, <1>8 DEF IInv, ParticipationInv, LinksAreOwn, LegacyVoters
<1>16. BallotsRecorded'
  <2> SUFFICES ASSUME NEW f \in ElectionIds
               PROVE  /\ \A d \in votes'[f] :
                           /\ cast'[d].phase = "counted" /\ cast'[d].election = f
                           /\ \E h \in participation'[f] : h[2] = StudentOf(d)'
                      /\ \A a \in LegacyVoters(f, {"anonymised"})' :
                           \E h \in participation'[f] : h[2] = account'[a].student
    BY <1>2 DEF IInv, ParticipationInv, BallotsRecorded, LegacyVoters, HasUserRow, Ended
  <2>1. participation[f] \subseteq participation'[f]
    BY <1>5
  <2>2. ASSUME NEW d \in votes'[f]
        PROVE  /\ cast'[d].phase = "counted" /\ cast'[d].election = f
               /\ \E h \in participation'[f] : h[2] = StudentOf(d)'
    <3>1. CASE d = c /\ f = e
      <4>1. CurrentHash(c) \in participation'[f]
        BY <1>5, <3>1
      <4>2. QED
        BY <1>1, <1>2, <1>3, <1>6, <3>1, <4>1 DEF Continues
    <3>2. CASE d \in votes[f]
      <4>1. d # c /\ d \in CastIds
        BY <1>1, <3>2 DEF IInv, ParticipationInv, BallotsRecorded, TypeInv, TypeOK
      <4>2. QED
        BY <1>1, <1>2, <2>1, <3>2, <4>1 DEF IInv, ParticipationInv, BallotsRecorded
    <3>3. QED
      BY <1>5, <3>1, <3>2
  <2>3. \A a \in LegacyVoters(f, {"anonymised"})' :
          \E h \in participation'[f] : h[2] = account'[a].student
    BY <1>2, <2>1 DEF IInv, ParticipationInv, BallotsRecorded, LegacyVoters
  <2>4. QED
    BY <2>2, <2>3
<1>17. AccountsUnique'
  BY <1>2 DEF IInv, ParticipationInv, AccountsUnique, HasUserRow
<1>18. BallotsHoldElection'
  <2> SUFFICES ASSUME NEW f \in ElectionIds, HasBallots(f)'
               PROVE  election'[f].status \notin {"absent", "draft"}
    BY DEF BallotsHoldElection
  <2>1. CASE f = e
    BY <1>2, <1>3, <2>1 DEF InWindow
  <2>2. CASE f # e
    <3>1. HasBallots(f)
      BY <1>2, <1>4, <2>2 DEF HasBallots, LegacyVoters, IInv, TypeInv, TypeOK
    <3>2. QED
      BY <1>2, <3>1 DEF IInv, ParticipationInv, BallotsHoldElection
  <2>3. QED
    BY <2>1, <2>2
<1>19. QED
  BY <1>10, <1>11, <1>12, <1>13, <1>14, <1>15, <1>16, <1>17, <1>18
     DEF IInv, ParticipationInv, TypeInv

\* Every step of a request keeps the invariant.
LEMMA CastStepInv ==
  ASSUME IInv, NEW c \in CastIds, CastStep(c)
  PROVE  IInv'
<1> TypeInv'
  BY CastStepType DEF IInv
<1>1. ASSUME NEW a \in AccountIds, NEW e \in ElectionIds, NEW selections \in Submissions,
             NEW t \in WorkerClock, Receive(c, a, e, selections, t)
      PROVE  IInv'
  BY <1>1, ReceiveInv
<1>2. CASE ResolveStudent(c)
  <2>1. /\ RequestStep(c) /\ Continues(c) /\ cast'[c].phase \in {"resolved", "USER_NOT_FOUND"}
    BY <1>2, ResolveStudentStep DEF IInv
  <2>2. ~PassedHashCheck(c)' /\ ~PassedLinkCheck(c)'
    BY <2>1 DEF PassedHashCheck, PassedLinkCheck
  <2>3. QED
    BY <2>1, <2>2, ContinuesInv
<1>3. CASE ReadElection(c)
  <2>1. /\ RequestStep(c) /\ Continues(c)
        /\ cast'[c].phase \in {"admitted", "ELECTION_NOT_FOUND", "ELECTION_NOT_OPEN"}
        /\ cast'[c].phase = "admitted" => cast'[c].pending = {"link", "hash"}
    BY <1>3, ReadElectionStep DEF IInv
  <2>2. ~PassedHashCheck(c)' /\ ~PassedLinkCheck(c)'
    BY <2>1 DEF PassedHashCheck, PassedLinkCheck
  <2>3. QED
    BY <2>1, <2>2, ContinuesInv
<1>4. ASSUME NEW read \in {"link", "hash"}, ReadParticipation(c, read) PROVE IInv'
  BY <1>4, ReadParticipationInv
<1>5. ASSUME NEW read \in {"candidates", "positions"}, ReadForm(c, read) PROVE IInv'
  <2>1. /\ RequestStep(c) /\ Continues(c) /\ cast[c].phase = "unvoted"
    BY <1>5, ReadFormStep DEF IInv
  <2>2. PassedHashCheck(c) /\ PassedLinkCheck(c)
    BY <2>1 DEF PassedHashCheck, PassedLinkCheck
  <2>3. QED
    BY <2>1, <2>2, ContinuesInv
<1>6. CASE AbortNotOpen(c) \/ AbortDuplicate(c)
  <2>1. /\ RequestStep(c) /\ Continues(c) /\ cast[c].phase = "ready"
    BY <1>6, AbortStep DEF IInv
  <2>2. PassedHashCheck(c) /\ PassedLinkCheck(c)
    BY <2>1 DEF PassedHashCheck, PassedLinkCheck
  <2>3. QED
    BY <2>1, <2>2, ContinuesInv
<1>7. CASE CommitBallot(c)
  BY <1>7, CommitInv
<1>8. QED
  BY <1>1, <1>2, <1>3, <1>4, <1>5, <1>6, <1>7 DEF CastStep

\* A step that touches neither accounts nor ballots nor requests keeps their
\* part, when it revives no ended voting and drafts no election with ballots.
LEMMA ElectionStepInv ==
  ASSUME IInv, ElectionsInv',
         position' \in [PositionIds -> PositionRow], candidate' \in [CandidateIds -> CandidateRow],
         electorate' \in [ElectionIds -> SUBSET AccountIds],
         openings' \in [ElectionIds -> 0..MaxOpenings],
         UNCHANGED <<account, castVars, key>>,
         \A e \in ElectionIds : HasBallots(e) =>
           /\ Ended(e) => Ended(e)'
           /\ election'[e].status \notin {"absent", "draft"}
  PROVE  IInv'
<1>1. UNCHANGED <<account, cast, votes, snapshots, participation, legacy, key>>
  BY DEF castVars
<1>2. TypeInv'
  BY <1>1 DEF IInv, ElectionsInv, TypeInv, TypeOK, AccountsKnown, RosterTypeOK, ElectorateTypeOK
<1>3. /\ OneBallotPerStudent' /\ SecretsAgree' /\ OnlyOwnHash' /\ NoOwnLink' /\ LinksAreOwn'
      /\ AccountsUnique'
  <2>1. OneBallotPerStudent'
    <3>1. \A d \in CastIds : StudentOf(d)' = StudentOf(d)
      BY <1>1 DEF StudentOf
    <3>2. \A e \in ElectionIds :
            /\ VotersByCast(e)' = VotersByCast(e) /\ VotersByLink(e)' = VotersByLink(e)
            /\ LegacyVoters(e, LegacyStates \ {"none"})' = LegacyVoters(e, LegacyStates \ {"none"})
      BY <1>1, <3>1 DEF VotersByCast, VotersByLink, LegacyVoters, IInv, TypeInv, TypeOK
    <3>3. ASSUME NEW e \in ElectionIds
          PROVE  /\ \A c, d \in votes'[e] : StudentOf(c)' = StudentOf(d)' => c = d
                 /\ \A a, b \in LegacyVoters(e, LegacyStates \ {"none"})' :
                      account'[a].student = account'[b].student => a = b
                 /\ VotersByCast(e)' \intersect VotersByLink(e)' = {}
      <4>1. /\ \A c, d \in votes[e] : StudentOf(c) = StudentOf(d) => c = d
            /\ \A a, b \in LegacyVoters(e, LegacyStates \ {"none"}) :
                 account[a].student = account[b].student => a = b
            /\ VotersByCast(e) \intersect VotersByLink(e) = {}
        BY DEF IInv, ParticipationInv, OneBallotPerStudent
      <4>2. \A c, d \in votes'[e] : StudentOf(c)' = StudentOf(d)' => c = d
        <5>1. votes'[e] = votes[e] /\ votes[e] \subseteq CastIds
          BY <1>1 DEF IInv, TypeInv, TypeOK
        <5>2. QED
          BY <3>1, <4>1, <5>1
      <4>3. \A a, b \in LegacyVoters(e, LegacyStates \ {"none"})' :
              account'[a].student = account'[b].student => a = b
        BY <1>1, <4>1 DEF LegacyVoters
      <4>4. VotersByCast(e)' \intersect VotersByLink(e)' = {}
        BY <3>2, <4>1
      <4>5. QED
        BY <4>2, <4>3, <4>4
    <3>4. QED
      BY <3>3 DEF OneBallotPerStudent
  <2>2. SecretsAgree' /\ NoOwnLink'
    BY <1>1 DEF IInv, ParticipationInv, SecretsAgree, InFlight, NoOwnLink, PassedLinkCheck
  <2>3. OnlyOwnHash'
    BY <1>1 DEF IInv, ParticipationInv, OnlyOwnHash, PassedHashCheck, StudentOf
  <2>4. LinksAreOwn' /\ AccountsUnique'
    BY <1>1 DEF IInv, ParticipationInv, LinksAreOwn, InFlight, StudentOf, LegacyVoters,
       AccountsUnique, HasUserRow
  <2>5. QED
    BY <2>1, <2>2, <2>3, <2>4
<1>4. \A e \in ElectionIds : HasBallots(e)' = HasBallots(e)
  BY <1>1 DEF HasBallots, LegacyVoters
<1>5. BallotsRecorded'
  <2>1. \A e \in ElectionIds : \A a \in LegacyVoters(e, LegacyStates \ {"none"}) : HasBallots(e)
    BY DEF HasBallots
  <2>2. \A e \in ElectionIds : \A a \in LegacyVoters(e, LegacyStates \ {"none"}) :
          LegacyBallots /\ (~HasUserRow(a) => Ended(e)')
    BY <2>1 DEF IInv, ParticipationInv, BallotsRecorded
  <2>3. QED
    BY <1>1, <2>2 DEF IInv, ParticipationInv, BallotsRecorded, LegacyVoters, HasUserRow, StudentOf
<1>6. BallotsHoldElection'
  BY <1>4 DEF BallotsHoldElection
<1>7. QED
  BY <1>2, <1>3, <1>5, <1>6 DEF IInv, ParticipationInv, TypeInv

\* The passing of time keeps the invariant.
LEMMA VotingTickInv ==
  ASSUME IInv, Tick, UNCHANGED <<rosterVars, electorateVars, castVars, key, openings>>
  PROVE  IInv'
<1>1. ElectionsInv'
  BY TickInv DEF IInv
<1>2. \A e \in ElectionIds : Ended(e) => Ended(e)'
  BY TickKeepsEnded DEF IInv
<1>3. \A e \in ElectionIds : HasBallots(e) => election'[e].status \notin {"absent", "draft"}
  BY DEF Tick, IInv, ParticipationInv, BallotsHoldElection
<1>4. QED
  BY <1>1, <1>2, <1>3, ElectionStepInv
     DEF IInv, TypeInv, TypeOK, RosterTypeOK, ElectorateTypeOK, rosterVars, electorateVars

\* The lifecycle calls keep the invariant: an election with ballots does not
\* return to draft.
LEMMA ChangeElectionInv ==
  ASSUME IInv, NEW e \in ElectionIds, ChangeElection(e)
  PROVE  IInv'
<1>1. ASSUME NEW to \in Statuses, NEW opens \in OpenTimes \union {Null},
             NEW closes \in CloseTimes \union {Null}, NEW t \in WorkerClock,
             TransitionElection(e, to, opens, closes, t)
      PROVE  IInv'
  <2>1. Transition(e, to, opens, closes, t, FormComplete(e), HasBallots(e))
    BY <1>1 DEF TransitionElection
  <2>2. Inputs(to, opens, closes, t)
    BY DEF Inputs
  <2>3. ElectionsInv'
    BY <2>1, <2>2, TransitionInv DEF IInv
  <2>4. ASSUME NEW f \in ElectionIds, HasBallots(f)
        PROVE  (Ended(f) => Ended(f)') /\ election'[f].status \notin {"absent", "draft"}
    <3>1. Ended(f) => Ended(f)'
      BY <2>1, <2>2, <2>4, TransitionKeepsEnded DEF IInv
    <3>2. election[f].status \notin {"absent", "draft"}
      BY <2>4 DEF IInv, ParticipationInv, BallotsHoldElection
    <3>3. CASE f = e
      <4>1. HasBallots(e)
        BY <2>4, <3>3
      <4>2. election'[e].status = to
        BY <2>1 DEF Transition
      <4>3. to # "draft"
        BY <2>1, <4>1 DEF Transition
      <4>4. QED
        BY <3>1, <3>3, <4>2, <4>3 DEF Statuses
    <3>4. CASE f # e
      <4>1. election'[f] = IF f \in Superseded(e, to) THEN [election[f] EXCEPT !.status = "closed"]
                           ELSE election[f]
        BY <2>1, <3>4 DEF Transition
      <4>2. election[f] \in Row
        BY DEF IInv, ElectionsInv, ElectionsTypeOK
      <4>3. election'[f] = election[f] \/ election'[f].status = "closed"
        BY <4>1, <4>2 DEF Row
      <4>4. QED
        BY <3>1, <3>2, <4>3
    <3>5. QED
      BY <3>3, <3>4
  <2>5. electorate' \in [ElectionIds -> SUBSET AccountIds] /\ UNCHANGED account
    BY <1>1 DEF TransitionElection, SnapshotElectorate, ActiveAccounts, IInv, TypeInv, TypeOK,
       ElectorateTypeOK
  <2>6. openings' \in [ElectionIds -> 0..MaxOpenings]
    BY <1>1, KeyAssumption DEF TransitionElection, IInv, TypeInv, TypeOK
  <2>7. UNCHANGED <<rosterVars, castVars, key>>
    BY <1>1 DEF TransitionElection
  <2>8. QED
    BY <2>3, <2>4, <2>5, <2>6, <2>7, ElectionStepInv
       DEF IInv, TypeInv, TypeOK, RosterTypeOK, rosterVars
<1>2. CASE EditElection(e) /\ UNCHANGED <<rosterVars, electorateVars, castVars, key, openings>>
  <2>1. ElectionsInv'
    BY <1>2, EditElectionInv DEF IInv
  <2>2. ASSUME NEW f \in ElectionIds, HasBallots(f)
        PROVE  (Ended(f) => Ended(f)') /\ election'[f].status \notin {"absent", "draft"}
    <3>1. Ended(f) => Ended(f)'
      BY <1>2, EditElectionKeepsEnded DEF IInv
    <3>2. election[f].status \notin {"absent", "draft"}
      BY <2>2 DEF IInv, ParticipationInv, BallotsHoldElection
    <3>3. election'[f].status = election[f].status
      BY <1>2, <3>2, EditElectionStatus DEF IInv
    <3>4. QED
      BY <3>1, <3>2, <3>3
  <2>3. QED
    BY <1>2, <2>1, <2>2, ElectionStepInv
       DEF IInv, TypeInv, TypeOK, RosterTypeOK, ElectorateTypeOK, rosterVars, electorateVars
<1>3. CASE EditRoster(e) /\ UNCHANGED <<electionVars, electorateVars, castVars, key, openings>>
  <2>1. RosterTypeOK'
    BY <1>3, EditRosterType DEF IInv, TypeInv, TypeOK
  <2>2. ElectionsInv'
    BY <1>3 DEF electionVars, IInv, ElectionsInv, ElectionsTypeOK, OneOpenElection, IdxOneOpen,
       OpenHasWindow, OpenElections
  <2>3. ASSUME NEW f \in ElectionIds, HasBallots(f)
        PROVE  (Ended(f) => Ended(f)') /\ election'[f].status \notin {"absent", "draft"}
    BY <1>3, <2>3 DEF electionVars, Ended, IInv, ParticipationInv, BallotsHoldElection
  <2>4. QED
    BY <1>3, <2>1, <2>2, <2>3, ElectionStepInv
       DEF IInv, TypeInv, TypeOK, RosterTypeOK, ElectorateTypeOK, electorateVars
<1>4. QED
  BY <1>1, <1>2, <1>3 DEF ChangeElection

\* When an account may be deleted, every election that has ballots has ended,
\* if the Worker's clock is exact.
LEMMA DeletionAfterVoting ==
  ASSUME IInv, Skew = 0, NEW t \in WorkerClock, ElectorateMutable(t),
         NEW e \in ElectionIds, HasBallots(e)
  PROVE  Ended(e)
<1>1. now \in Int /\ election[e] \in Row
  BY DEF IInv, ElectionsInv, ElectionsTypeOK
<1>2. t = now
  BY <1>1 DEF WorkerClock
<1>3. election[e].status \notin {"absent", "draft"}
  BY DEF IInv, ParticipationInv, BallotsHoldElection
<1>4. CASE election[e].status = "open"
  <2>1. EffectiveStatus(election[e], now) = "closed"
    BY <1>2, <1>4 DEF ElectorateMutable, OpenElections
  <2>2. now > election[e].closesAt
    BY <1>4, <2>1 DEF EffectiveStatus
  <2>3. QED
    BY <1>4, <2>2 DEF Ended
<1>5. CASE election[e].status # "open"
  BY <1>1, <1>3, <1>5 DEF Row, Statuses, Ended
<1>6. QED
  BY <1>4, <1>5

\* The account calls keep the invariant, as the freeze is exact where links
\* exist.
LEMMA ChangeAccountsInv ==
  ASSUME IInv, LegacyBallots => Skew = 0, ChangeAccounts
  PROVE  IInv'
<1>1. PICK a \in AccountIds :
        /\ AccountMoves(a) /\ \A b \in AccountIds \ {a} : account'[b] = account[b]
        /\ account' \in [AccountIds -> AccountRow] /\ UNCHANGED electorate
  BY ManageAccountsMoves DEF ChangeAccounts, IInv
<1>2. /\ UNCHANGED <<now, election, position, candidate, cast, votes, snapshots, participation,
                     key, openings>>
      /\ legacy' = [e \in ElectionIds |-> [b \in AccountIds |->
                      IF account'[b].state = "deleted" /\ legacy[e][b] = "linked"
                        THEN "unlinked" ELSE legacy[e][b]]]
  BY DEF ChangeAccounts, electionVars, rosterVars, ballotVars
<1>3. \A b \in AccountIds : account[b].state # "unborn" =>
        account'[b].state # "unborn" /\ account'[b].student = account[b].student
  BY StudentsStay DEF ChangeAccounts, IInv
<1>4. \A c \in CastIds : cast[c].phase # "idle" => StudentOf(c)' = StudentOf(c)
  BY <1>2, <1>3 DEF StudentOf, IInv, TypeInv, AccountsKnown
<1>5. \A e \in ElectionIds, b \in AccountIds :
        /\ legacy'[e][b] = IF account'[b].state = "deleted" /\ legacy[e][b] = "linked"
                           THEN "unlinked" ELSE legacy[e][b]
        /\ legacy'[e][b] # "none" <=> legacy[e][b] # "none"
  BY <1>2
<1>6. TypeInv'
  <2>1. legacy' \in [ElectionIds -> [AccountIds -> LegacyStates]]
    BY <1>2 DEF LegacyStates, IInv, TypeInv, TypeOK
  <2>2. \A b \in AccountIds : account'[b].state # "unborn" => account'[b].student \in StudentIds
    BY <1>1, <1>3 DEF AccountMoves, IInv, TypeInv, AccountsKnown
  <2>3. AccountsKnown'
    BY <1>2, <1>3, <1>5, <2>2 DEF IInv, TypeInv, AccountsKnown
  <2>4. QED
    BY <1>1, <1>2, <2>1, <2>3
       DEF IInv, TypeInv, TypeOK, ElectionsTypeOK, RosterTypeOK, ElectorateTypeOK
<1>7. ElectionsInv'
  BY <1>2 DEF IInv, ElectionsInv, ElectionsTypeOK, OneOpenElection, IdxOneOpen, OpenHasWindow,
              OpenElections
<1>8. \A e \in ElectionIds :
        LegacyVoters(e, LegacyStates \ {"none"})' = LegacyVoters(e, LegacyStates \ {"none"})
  BY <1>5, <1>6 DEF LegacyVoters, IInv, TypeInv, TypeOK
<1>9. OneBallotPerStudent'
  <2> SUFFICES ASSUME NEW e \in ElectionIds
               PROVE  /\ \A c, d \in votes'[e] : StudentOf(c)' = StudentOf(d)' => c = d
                      /\ \A b, d \in LegacyVoters(e, LegacyStates \ {"none"})' :
                           account'[b].student = account'[d].student => b = d
                      /\ VotersByCast(e)' \intersect VotersByLink(e)' = {}
    BY DEF OneBallotPerStudent
  <2>1. /\ \A c, d \in votes[e] : StudentOf(c) = StudentOf(d) => c = d
        /\ \A b, d \in LegacyVoters(e, LegacyStates \ {"none"}) :
             account[b].student = account[d].student => b = d
        /\ VotersByCast(e) \intersect VotersByLink(e) = {}
    BY DEF IInv, ParticipationInv, OneBallotPerStudent
  <2>2. votes'[e] = votes[e] /\ \A c \in votes[e] : StudentOf(c)' = StudentOf(c)
    BY <1>2, <1>4 DEF IInv, ParticipationInv, BallotsRecorded, TypeInv, TypeOK
  <2>3. \A b \in LegacyVoters(e, LegacyStates \ {"none"}) : account'[b].student = account[b].student
    BY <1>3 DEF LegacyVoters, IInv, TypeInv, AccountsKnown
  <2>4. VotersByCast(e)' = VotersByCast(e)
    BY <2>2 DEF VotersByCast
  <2>5. VotersByLink(e)' = VotersByLink(e)
    BY <1>8, <2>3 DEF VotersByLink
  <2>6. \A b, d \in LegacyVoters(e, LegacyStates \ {"none"})' :
          account'[b].student = account'[d].student => b = d
    BY <1>8, <2>1, <2>3
  <2>7. \A c, d \in votes'[e] : StudentOf(c)' = StudentOf(d)' => c = d
    BY <2>1, <2>2
  <2>8. VotersByCast(e)' \intersect VotersByLink(e)' = {}
    BY <2>1, <2>4, <2>5
  <2>9. QED
    BY <2>6, <2>7, <2>8
<1>10. SecretsAgree'
  BY <1>2 DEF IInv, ParticipationInv, SecretsAgree, InFlight
<1>11. OnlyOwnHash'
  <2> SUFFICES ASSUME NEW c \in CastIds, PassedHashCheck(c)',
                      NEW h \in participation'[cast'[c].election], h[2] = StudentOf(c)'
               PROVE  h[1] = cast'[c].key
    BY DEF OnlyOwnHash
  <2>1. PassedHashCheck(c) /\ cast[c].phase # "idle"
    BY <1>2 DEF PassedHashCheck
  <2>2. QED
    BY <1>2, <1>4, <2>1 DEF IInv, ParticipationInv, OnlyOwnHash
<1>12. NoOwnLink'
  <2> SUFFICES ASSUME NEW c \in CastIds, PassedLinkCheck(c)'
               PROVE  legacy'[cast'[c].election][cast'[c].account] # "linked"
    BY DEF NoOwnLink
  <2>1. PassedLinkCheck(c) /\ cast[c].phase # "idle"
    BY <1>2 DEF PassedLinkCheck
  <2>2. cast[c].account \in AccountIds /\ cast[c].election \in ElectionIds
    BY <2>1, KnownStudent DEF IInv
  <2>3. QED
    BY <1>2, <1>5, <2>1, <2>2 DEF IInv, ParticipationInv, NoOwnLink
<1>13. LinksAreOwn'
  <2> SUFFICES ASSUME NEW c \in CastIds, NEW e \in ElectionIds,
                      NEW b \in LegacyVoters(e, {"linked"})', InFlight(c)',
                      account'[b].student = StudentOf(c)'
               PROVE  b = cast'[c].account
    BY DEF LinksAreOwn
  <2>1. InFlight(c) /\ cast[c].phase # "idle"
    BY <1>2 DEF InFlight
  <2>2. b \in LegacyVoters(e, {"linked"})
    BY <1>5 DEF LegacyVoters
  <2>3. account'[b].student = account[b].student
    BY <1>3, <2>2 DEF LegacyVoters, IInv, TypeInv, AccountsKnown
  <2>4. QED
    BY <1>2, <1>4, <2>1, <2>2, <2>3 DEF IInv, ParticipationInv, LinksAreOwn
<1>14. BallotsRecorded'
  <2> SUFFICES ASSUME NEW e \in ElectionIds
               PROVE  /\ \A c \in votes'[e] :
                           /\ cast'[c].phase = "counted" /\ cast'[c].election = e
                           /\ \E h \in participation'[e] : h[2] = StudentOf(c)'
                      /\ \A b \in LegacyVoters(e, {"anonymised"})' :
                           \E h \in participation'[e] : h[2] = account'[b].student
                      /\ \A b \in LegacyVoters(e, {"linked"})' : HasUserRow(b)'
                      /\ \A b \in LegacyVoters(e, {"unlinked"})' : ~HasUserRow(b)'
                      /\ \A b \in LegacyVoters(e, LegacyStates \ {"none"})' :
                           LegacyBallots /\ (~HasUserRow(b)' => Ended(e)')
    BY DEF BallotsRecorded
  <2>1. \A c \in votes'[e] : /\ cast'[c].phase = "counted" /\ cast'[c].election = e
                             /\ \E h \in participation'[e] : h[2] = StudentOf(c)'
    BY <1>2, <1>4 DEF IInv, ParticipationInv, BallotsRecorded, TypeInv, TypeOK
  <2>2. \A b \in LegacyVoters(e, {"anonymised"})' :
          \E h \in participation'[e] : h[2] = account'[b].student
    <3>1. \A b \in LegacyVoters(e, {"anonymised"})' :
            b \in LegacyVoters(e, {"anonymised"}) /\ account'[b].student = account[b].student
      BY <1>3, <1>5 DEF LegacyVoters, IInv, TypeInv, AccountsKnown
    <3>2. QED
      BY <1>2, <3>1 DEF IInv, ParticipationInv, BallotsRecorded
  <2>3. \A b \in LegacyVoters(e, {"linked"})' : HasUserRow(b)'
    <3> SUFFICES ASSUME NEW b \in LegacyVoters(e, {"linked"})' PROVE HasUserRow(b)'
      OBVIOUS
    <3>1. b \in LegacyVoters(e, {"linked"}) /\ account'[b].state # "deleted" /\ b \in AccountIds
      BY <1>5 DEF LegacyVoters
    <3>2. HasUserRow(b)
      BY <3>1 DEF IInv, ParticipationInv, BallotsRecorded
    <3>3. QED
      BY <1>1, <3>1, <3>2 DEF HasUserRow, AccountMoves
  <2>4. \A b \in LegacyVoters(e, {"unlinked"})' : ~HasUserRow(b)'
    <3> SUFFICES ASSUME NEW b \in LegacyVoters(e, {"unlinked"})' PROVE ~HasUserRow(b)'
      OBVIOUS
    <3>1. CASE account'[b].state = "deleted"
      BY <3>1 DEF HasUserRow
    <3>2. CASE account'[b].state # "deleted"
      <4>1. b \in LegacyVoters(e, {"unlinked"}) /\ b \in AccountIds
        BY <1>5, <3>2 DEF LegacyVoters
      <4>2. ~HasUserRow(b) /\ account[b].state # "unborn"
        BY <4>1 DEF LegacyVoters, IInv, ParticipationInv, BallotsRecorded, TypeInv, AccountsKnown
      <4>3. account'[b] = account[b]
        BY <1>1, <4>1, <4>2 DEF HasUserRow, AccountMoves
      <4>4. QED
        BY <4>2, <4>3 DEF HasUserRow
    <3>3. QED
      BY <3>1, <3>2
  <2>5. ASSUME NEW b \in LegacyVoters(e, LegacyStates \ {"none"})
        PROVE  LegacyBallots /\ (~HasUserRow(b)' => Ended(e)')
    <3>1. LegacyBallots /\ (~HasUserRow(b) => Ended(e)) /\ b \in AccountIds
      BY DEF IInv, ParticipationInv, BallotsRecorded, LegacyVoters
    <3>2. Ended(e)' = Ended(e)
      BY <1>2 DEF Ended
    <3>3. CASE HasUserRow(b) /\ ~HasUserRow(b)'
      <4>1. PICK t \in WorkerClock : ElectorateMutable(t)
        BY <1>1, <3>1, <3>3 DEF HasUserRow, AccountMoves
      <4>2. HasBallots(e)
        BY DEF HasBallots
      <4>3. Ended(e)
        BY <3>1, <4>1, <4>2, DeletionAfterVoting
      <4>4. QED
        BY <3>1, <3>2, <4>3
    <3>4. QED
      BY <3>1, <3>2, <3>3
  <2>6. QED
    BY <1>8, <2>1, <2>2, <2>3, <2>4, <2>5
<1>15. AccountsUnique'
  <2> SUFFICES ASSUME NEW b \in AccountIds, NEW d \in AccountIds, HasUserRow(b)', HasUserRow(d)',
                      account'[b].student = account'[d].student
               PROVE  b = d
    BY DEF AccountsUnique
  <2>1. CASE account[a].state = "unborn" /\ account'[a] # account[a]
    BY <1>1, <2>1 DEF AccountMoves, HasUserRow, IInv, ParticipationInv, AccountsUnique
  <2>2. CASE account[a].state # "unborn" \/ account'[a] = account[a]
    BY <1>1, <2>2 DEF AccountMoves, HasUserRow, IInv, ParticipationInv, AccountsUnique
  <2>3. QED
    BY <2>1, <2>2
<1>16. BallotsHoldElection'
  BY <1>2, <1>8 DEF IInv, ParticipationInv, BallotsHoldElection, HasBallots
<1>17. QED
  BY <1>6, <1>7, <1>9, <1>10, <1>11, <1>12, <1>13, <1>14, <1>15, <1>16
     DEF IInv, ParticipationInv, TypeInv

\* The earlier writer keeps the invariant: it runs before the first request.
LEMMA LegacyVoteInv ==
  ASSUME IInv, NEW a \in AccountIds, NEW e \in ElectionIds, LegacyVote(a, e)
  PROVE  IInv'
<1>1. /\ UNCHANGED <<now, election, position, candidate, account, electorate, cast, votes, snapshots,
                     participation, key, openings>>
      /\ legacy' = [legacy EXCEPT ![e][a] = "linked"]
      /\ \A c \in CastIds : cast[c].phase = "idle"
      /\ LegacyBallots /\ InWindow(e) /\ account[a].state = "active" /\ legacy[e][a] = "none"
  BY DEF LegacyVote, electionVars, rosterVars, electorateVars, ballotVars
<1>2. \A f \in ElectionIds, b \in AccountIds :
        legacy'[f][b] = IF f = e /\ b = a THEN "linked" ELSE legacy[f][b]
  BY <1>1 DEF IInv, TypeInv, TypeOK
<1>3. TypeInv'
  <2>1. legacy' \in [ElectionIds -> [AccountIds -> LegacyStates]]
    BY <1>1 DEF LegacyStates, IInv, TypeInv, TypeOK
  <2>2. AccountsKnown'
    BY <1>1, <1>2 DEF IInv, TypeInv, AccountsKnown
  <2>3. QED
    BY <1>1, <2>1, <2>2 DEF IInv, TypeInv, TypeOK, ElectionsTypeOK, RosterTypeOK, ElectorateTypeOK
<1>4. ElectionsInv'
  BY <1>1 DEF IInv, ElectionsInv, ElectionsTypeOK, OneOpenElection, IdxOneOpen, OpenHasWindow,
              OpenElections
<1>5. \A f \in ElectionIds : votes[f] = {} /\ votes'[f] = {}
  BY <1>1 DEF IInv, ParticipationInv, BallotsRecorded, TypeInv, TypeOK
<1>6. ~Ended(e)
  <2>1. now \in Int /\ election[e].closesAt \in Int
    BY <1>1 DEF InWindow, IInv, ElectionsInv, ElectionsTypeOK, Row
  <2>2. QED
    BY <1>1, <2>1 DEF InWindow, Ended
<1>7. ASSUME NEW b \in LegacyVoters(e, LegacyStates \ {"none"}), account[b].student = account[a].student
      PROVE  FALSE
  <2>1. HasUserRow(b) /\ b \in AccountIds
    BY <1>6 DEF LegacyVoters, IInv, ParticipationInv, BallotsRecorded
  <2>2. a = b
    BY <1>1, <1>7, <2>1 DEF HasUserRow, IInv, ParticipationInv, AccountsUnique
  <2>3. QED
    BY <1>1, <2>2 DEF LegacyVoters
<1>8. OneBallotPerStudent'
  <2> SUFFICES ASSUME NEW f \in ElectionIds
               PROVE  \A b, d \in LegacyVoters(f, LegacyStates \ {"none"})' :
                        account'[b].student = account'[d].student => b = d
    BY <1>5 DEF OneBallotPerStudent, VotersByCast
  <2>1. \A b \in LegacyVoters(f, LegacyStates \ {"none"})' :
          b \in LegacyVoters(f, LegacyStates \ {"none"}) \/ (b = a /\ f = e)
    BY <1>2 DEF LegacyVoters
  <2>2. \A b, d \in LegacyVoters(f, LegacyStates \ {"none"}) :
          account[b].student = account[d].student => b = d
    BY DEF IInv, ParticipationInv, OneBallotPerStudent
  <2>3. QED
    BY <1>1, <1>7, <2>1, <2>2
<1>9. SecretsAgree' /\ OnlyOwnHash' /\ NoOwnLink' /\ LinksAreOwn'
  <2>1. SecretsAgree'
    BY <1>1 DEF IInv, ParticipationInv, SecretsAgree, InFlight
  <2>2. OnlyOwnHash' /\ NoOwnLink' /\ LinksAreOwn'
    BY <1>1 DEF OnlyOwnHash, PassedHashCheck, NoOwnLink, PassedLinkCheck, LinksAreOwn, InFlight
  <2>3. QED
    BY <2>1, <2>2
<1>10. BallotsRecorded'
  <2> SUFFICES ASSUME NEW f \in ElectionIds
               PROVE  /\ \A b \in LegacyVoters(f, {"anonymised"})' :
                           \E h \in participation'[f] : h[2] = account'[b].student
                      /\ \A b \in LegacyVoters(f, {"linked"})' : HasUserRow(b)'
                      /\ \A b \in LegacyVoters(f, {"unlinked"})' : ~HasUserRow(b)'
                      /\ \A b \in LegacyVoters(f, LegacyStates \ {"none"})' :
                           LegacyBallots /\ (~HasUserRow(b)' => Ended(f)')
    BY <1>5 DEF BallotsRecorded
  <2>1. Ended(f)' = Ended(f) /\ \A b \in AccountIds : HasUserRow(b)' = HasUserRow(b)
    BY <1>1 DEF Ended, HasUserRow
  <2>2. HasUserRow(a)
    BY <1>1 DEF HasUserRow
  <2>3. \A b \in LegacyVoters(f, {"anonymised"})' :
          \E h \in participation'[f] : h[2] = account'[b].student
    BY <1>1, <1>2 DEF LegacyVoters, IInv, ParticipationInv, BallotsRecorded
  <2>4. \A b \in LegacyVoters(f, {"linked"})' : HasUserRow(b)'
    BY <1>2, <2>1, <2>2 DEF LegacyVoters, IInv, ParticipationInv, BallotsRecorded
  <2>5. \A b \in LegacyVoters(f, {"unlinked"})' : ~HasUserRow(b)'
    BY <1>2, <2>1 DEF LegacyVoters, IInv, ParticipationInv, BallotsRecorded
  <2>6. \A b \in LegacyVoters(f, LegacyStates \ {"none"})' :
          LegacyBallots /\ (~HasUserRow(b)' => Ended(f)')
    BY <1>1, <1>2, <2>1, <2>2 DEF LegacyVoters, IInv, ParticipationInv, BallotsRecorded
  <2>7. QED
    BY <2>3, <2>4, <2>5, <2>6
<1>11. AccountsUnique'
  BY <1>1 DEF IInv, ParticipationInv, AccountsUnique, HasUserRow
<1>12. BallotsHoldElection'
  <2> SUFFICES ASSUME NEW f \in ElectionIds, HasBallots(f)'
               PROVE  election'[f].status \notin {"absent", "draft"}
    BY DEF BallotsHoldElection
  <2>1. CASE f = e
    BY <1>1, <2>1 DEF InWindow
  <2>2. CASE f # e
    <3>1. HasBallots(f)
      BY <1>1, <1>2, <2>2 DEF HasBallots, LegacyVoters
    <3>2. QED
      BY <1>1, <3>1 DEF IInv, ParticipationInv, BallotsHoldElection
  <2>3. QED
    BY <2>1, <2>2
<1>13. QED
  BY <1>3, <1>4, <1>8, <1>9, <1>10, <1>11, <1>12 DEF IInv, ParticipationInv, TypeInv

\* The backfill keeps the invariant: the hashes it adds are those of the links
\* it removes.
LEMMA AnonymizeVotesInv ==
  ASSUME IInv, AnonymizeVotes
  PROVE  IInv'
<1>1. /\ UNCHANGED <<now, election, position, candidate, account, electorate, cast, votes, snapshots,
                     key, openings>>
      /\ participation' = [e \in ElectionIds |-> participation[e] \union
                            {<<key, account[a].student>> : a \in LegacyVoters(e, {"linked"})}]
      /\ legacy' = [e \in ElectionIds |-> [a \in AccountIds |->
                     IF legacy[e][a] = "linked" THEN "anonymised" ELSE legacy[e][a]]]
  BY DEF AnonymizeVotes, electionVars, rosterVars, electorateVars
<1>2. \A e \in ElectionIds, a \in AccountIds :
        /\ legacy'[e][a] = IF legacy[e][a] = "linked" THEN "anonymised" ELSE legacy[e][a]
        /\ legacy'[e][a] # "none" <=> legacy[e][a] # "none"
  BY <1>1
<1>3. ASSUME NEW e \in ElectionIds
      PROVE  /\ participation[e] \subseteq participation'[e]
             /\ \A h \in participation'[e] : h \in participation[e] \/
                  \E a \in LegacyVoters(e, {"linked"}) : h[1] = key /\ h[2] = account[a].student
             /\ \A a \in LegacyVoters(e, {"linked"}) :
                  \E h \in participation'[e] : h[2] = account[a].student
  <2> DEFINE added == {<<key, account[a].student>> : a \in LegacyVoters(e, {"linked"})}
  <2>1. participation'[e] = participation[e] \union added
    BY <1>1
  <2>2. \A a \in LegacyVoters(e, {"linked"}) :
          /\ <<key, account[a].student>> \in added
          /\ <<key, account[a].student>>[2] = account[a].student
    OBVIOUS
  <2>3. \A h \in added : \E a \in LegacyVoters(e, {"linked"}) : h[1] = key /\ h[2] = account[a].student
    OBVIOUS
  <2> HIDE DEF added
  <2>4. QED
    BY <2>1, <2>2, <2>3
<1>4. TypeInv'
  <2>1. legacy' \in [ElectionIds -> [AccountIds -> LegacyStates]]
    BY <1>1 DEF LegacyStates, IInv, TypeInv, TypeOK
  <2>2. key \in 0..MaxKey
    BY KeyAssumption DEF IInv, TypeInv, TypeOK
  <2>3. \A e \in ElectionIds : \A a \in LegacyVoters(e, {"linked"}) : account[a].student \in StudentIds
    BY DEF LegacyVoters, IInv, TypeInv, AccountsKnown
  <2>4. participation' \in [ElectionIds -> SUBSET Hashes]
    BY <1>1, <2>2, <2>3 DEF Hashes, IInv, TypeInv, TypeOK
  <2>5. AccountsKnown'
    BY <1>1, <1>2 DEF IInv, TypeInv, AccountsKnown
  <2>6. QED
    BY <1>1, <2>1, <2>4, <2>5 DEF IInv, TypeInv, TypeOK, ElectionsTypeOK, RosterTypeOK, ElectorateTypeOK
<1>5. ElectionsInv'
  BY <1>1 DEF IInv, ElectionsInv, ElectionsTypeOK, OneOpenElection, IdxOneOpen, OpenHasWindow,
              OpenElections
<1>6. \A e \in ElectionIds :
        LegacyVoters(e, LegacyStates \ {"none"})' = LegacyVoters(e, LegacyStates \ {"none"})
  BY <1>2, <1>4 DEF LegacyVoters, IInv, TypeInv, TypeOK
<1>7. OneBallotPerStudent'
  <2>1. \A e \in ElectionIds : VotersByCast(e)' = VotersByCast(e)
    BY <1>1 DEF VotersByCast, StudentOf
  <2>2. \A e \in ElectionIds : VotersByLink(e)' = VotersByLink(e)
    BY <1>1, <1>6 DEF VotersByLink
  <2>3. \A e \in ElectionIds : \A c, d \in votes'[e] : StudentOf(c)' = StudentOf(d)' => c = d
    BY <1>1 DEF StudentOf, IInv, ParticipationInv, OneBallotPerStudent
  <2>4. \A e \in ElectionIds : \A a, b \in LegacyVoters(e, LegacyStates \ {"none"})' :
          account'[a].student = account'[b].student => a = b
    BY <1>1, <1>6 DEF IInv, ParticipationInv, OneBallotPerStudent
  <2>5. QED
    BY <2>1, <2>2, <2>3, <2>4 DEF IInv, ParticipationInv, OneBallotPerStudent
<1>8. SecretsAgree'
  <2>1. key \in Int
    BY KeyAssumption DEF IInv, TypeInv, TypeOK
  <2>2. QED
    BY <1>1, <1>3, <2>1 DEF IInv, ParticipationInv, SecretsAgree, InFlight
<1>9. OnlyOwnHash'
  <2> SUFFICES ASSUME NEW c \in CastIds, PassedHashCheck(c)',
                      NEW h \in participation'[cast'[c].election], h[2] = StudentOf(c)'
               PROVE  h[1] = cast'[c].key
    BY DEF OnlyOwnHash
  <2>1. PassedHashCheck(c) /\ InFlight(c) /\ cast[c].phase # "idle"
    BY <1>1 DEF PassedHashCheck, InFlight, Phases, Outcomes
  <2>2. cast[c].election \in ElectionIds /\ cast[c].key = key
    BY <2>1, KnownStudent DEF IInv, ParticipationInv, SecretsAgree
  <2>3. h \in participation[cast[c].election] \/ h[1] = key
    BY <1>1, <1>3, <2>2
  <2>4. QED
    BY <1>1, <2>1, <2>2, <2>3 DEF IInv, ParticipationInv, OnlyOwnHash, StudentOf
<1>10. NoOwnLink'
  <2> SUFFICES ASSUME NEW c \in CastIds, PassedLinkCheck(c)'
               PROVE  legacy'[cast'[c].election][cast'[c].account] # "linked"
    BY DEF NoOwnLink
  <2>1. PassedLinkCheck(c) /\ cast[c].phase # "idle"
    BY <1>1 DEF PassedLinkCheck
  <2>2. cast[c].account \in AccountIds /\ cast[c].election \in ElectionIds
    BY <2>1, KnownStudent DEF IInv
  <2>3. QED
    BY <1>1, <1>2, <2>2
<1>11. LinksAreOwn'
  BY <1>2 DEF LinksAreOwn, LegacyVoters
<1>12. BallotsRecorded'
  <2> SUFFICES ASSUME NEW e \in ElectionIds
               PROVE  /\ \A c \in votes'[e] :
                           /\ cast'[c].phase = "counted" /\ cast'[c].election = e
                           /\ \E h \in participation'[e] : h[2] = StudentOf(c)'
                      /\ \A b \in LegacyVoters(e, {"anonymised"})' :
                           \E h \in participation'[e] : h[2] = account'[b].student
                      /\ \A b \in LegacyVoters(e, {"linked"})' : HasUserRow(b)'
                      /\ \A b \in LegacyVoters(e, {"unlinked"})' : ~HasUserRow(b)'
                      /\ \A b \in LegacyVoters(e, LegacyStates \ {"none"})' :
                           LegacyBallots /\ (~HasUserRow(b)' => Ended(e)')
    BY DEF BallotsRecorded
  <2>1. \A c \in votes'[e] : /\ cast'[c].phase = "counted" /\ cast'[c].election = e
                             /\ \E h \in participation'[e] : h[2] = StudentOf(c)'
    BY <1>1, <1>3 DEF IInv, ParticipationInv, BallotsRecorded, StudentOf
  <2>2. \A b \in LegacyVoters(e, {"anonymised"})' :
          \E h \in participation'[e] : h[2] = account'[b].student
    <3> SUFFICES ASSUME NEW b \in LegacyVoters(e, {"anonymised"})'
                 PROVE  \E h \in participation'[e] : h[2] = account[b].student
      BY <1>1
    <3>1. b \in LegacyVoters(e, {"anonymised"}) \/ b \in LegacyVoters(e, {"linked"})
      BY <1>2 DEF LegacyVoters
    <3>2. QED
      BY <1>3, <3>1 DEF IInv, ParticipationInv, BallotsRecorded
  <2>3. \A b \in LegacyVoters(e, {"linked"})' : HasUserRow(b)'
    BY <1>2 DEF LegacyVoters
  <2>4. \A b \in LegacyVoters(e, {"unlinked"})' : ~HasUserRow(b)'
    BY <1>1, <1>2 DEF LegacyVoters, HasUserRow, IInv, ParticipationInv, BallotsRecorded
  <2>5. \A b \in LegacyVoters(e, LegacyStates \ {"none"}) :
          LegacyBallots /\ (~HasUserRow(b)' => Ended(e)')
    BY <1>1 DEF HasUserRow, Ended, IInv, ParticipationInv, BallotsRecorded
  <2>6. QED
    BY <1>6, <2>1, <2>2, <2>3, <2>4, <2>5
<1>13. AccountsUnique'
  BY <1>1 DEF IInv, ParticipationInv, AccountsUnique, HasUserRow
<1>14. BallotsHoldElection'
  BY <1>1, <1>6 DEF IInv, ParticipationInv, BallotsHoldElection, HasBallots
<1>15. QED
  BY <1>4, <1>5, <1>7, <1>8, <1>9, <1>10, <1>11, <1>12, <1>13, <1>14
     DEF IInv, ParticipationInv, TypeInv

\* A new secret keeps the invariant when no request is in flight.
LEMMA RotateSecretInv ==
  ASSUME IInv, ~RotateInFlight, RotateSecret
  PROVE  IInv'
<1>1. /\ UNCHANGED <<now, election, position, candidate, account, electorate, castVars, openings>>
      /\ UNCHANGED <<cast, votes, snapshots, participation, legacy>>
      /\ key < MaxKey /\ key' = key + 1
      /\ \A c \in CastIds : ~InFlight(c)
  BY DEF RotateSecret, electionVars, rosterVars, electorateVars, castVars
<1>2. key \in Nat /\ key' \in 1..MaxKey
  BY <1>1, KeyAssumption DEF IInv, TypeInv, TypeOK
<1>3. TypeInv'
  BY <1>1, <1>2 DEF IInv, TypeInv, TypeOK, ElectionsTypeOK, RosterTypeOK, ElectorateTypeOK, AccountsKnown
<1>4. ElectionsInv'
  BY <1>1 DEF IInv, ElectionsInv, ElectionsTypeOK, OneOpenElection, IdxOneOpen, OpenHasWindow,
              OpenElections
<1>5. OneBallotPerStudent'
  <2>1. \A e \in ElectionIds : VotersByCast(e)' = VotersByCast(e) /\ VotersByLink(e)' = VotersByLink(e)
    BY <1>1 DEF VotersByCast, VotersByLink, StudentOf, LegacyVoters
  <2>2. \A e \in ElectionIds : \A c, d \in votes'[e] : StudentOf(c)' = StudentOf(d)' => c = d
    BY <1>1 DEF StudentOf, IInv, ParticipationInv, OneBallotPerStudent
  <2>3. \A e \in ElectionIds : \A a, b \in LegacyVoters(e, LegacyStates \ {"none"})' :
          account'[a].student = account'[b].student => a = b
    BY <1>1 DEF LegacyVoters, IInv, ParticipationInv, OneBallotPerStudent
  <2>4. QED
    BY <2>1, <2>2, <2>3 DEF IInv, ParticipationInv, OneBallotPerStudent
<1>6. SecretsAgree'
  <2>1. \A e \in ElectionIds : \A h \in participation[e] : h[1] \in Int /\ h[1] <= key
    BY DEF IInv, ParticipationInv, SecretsAgree, TypeInv, TypeOK, Hashes
  <2>2. QED
    BY <1>1, <1>2, <2>1 DEF SecretsAgree, InFlight
<1>7. OnlyOwnHash' /\ NoOwnLink' /\ LinksAreOwn'
  BY <1>1 DEF OnlyOwnHash, PassedHashCheck, NoOwnLink, PassedLinkCheck, LinksAreOwn, InFlight,
              Phases, Outcomes
<1>8. BallotsRecorded'
  BY <1>1 DEF IInv, ParticipationInv, BallotsRecorded, LegacyVoters, HasUserRow, Ended, StudentOf
<1>9. AccountsUnique' /\ BallotsHoldElection'
  BY <1>1 DEF IInv, ParticipationInv, AccountsUnique, HasUserRow, BallotsHoldElection, HasBallots,
              LegacyVoters
<1>10. QED
  BY <1>3, <1>4, <1>5, <1>6, <1>7, <1>8, <1>9 DEF IInv, ParticipationInv, TypeInv

\* The invariant holds at the start.
LEMMA VotingInitInv == Init => IInv
<1> SUFFICES ASSUME Init PROVE IInv
  OBVIOUS
<1>1. ElectionsInv
  BY ElectionsInitInv DEF Init
<1>2. TypeOK
  <2>1. RosterTypeOK
    BY DEF Init, RosterInit, RosterTypeOK, PositionRow, CandidateRow
  <2>2. ElectorateTypeOK
    BY DEF Init, ElectorateTypeOK, AccountRow
  <2>3. cast \in [CastIds -> CastRow]
    BY KeyAssumption DEF Init, NoCast, CastRow, Phases
  <2>4. key \in 1..MaxKey /\ openings \in [ElectionIds -> 0..MaxOpenings]
    BY KeyAssumption DEF Init
  <2>5. QED
    BY <1>1, <2>1, <2>2, <2>3, <2>4 DEF Init, TypeOK, ElectionsInv, LegacyStates
<1>3. /\ \A c \in CastIds : cast[c].phase = "idle"
      /\ \A e \in ElectionIds, a \in AccountIds : legacy[e][a] = "none" /\ account[a].state = "unborn"
      /\ \A a \in AccountIds : account[a].state = "unborn"
      /\ \A e \in ElectionIds : votes[e] = {} /\ snapshots[e] = {} /\ participation[e] = {}
  BY DEF Init, NoCast
<1>4. AccountsKnown
  BY <1>3 DEF AccountsKnown
<1>5. \A e \in ElectionIds : LegacyVoters(e, LegacyStates \ {"none"}) = {}
  BY <1>3 DEF LegacyVoters
<1>6. OneBallotPerStudent
  BY <1>3, <1>5 DEF OneBallotPerStudent, VotersByCast
<1>7. SecretsAgree /\ OnlyOwnHash /\ NoOwnLink /\ LinksAreOwn
  BY <1>3 DEF SecretsAgree, OnlyOwnHash, NoOwnLink, LinksAreOwn, InFlight, PassedHashCheck,
              PassedLinkCheck
<1>8. BallotsRecorded
  BY <1>3 DEF BallotsRecorded, LegacyVoters
<1>9. AccountsUnique /\ BallotsHoldElection
  BY <1>3, <1>5 DEF AccountsUnique, HasUserRow, BallotsHoldElection, HasBallots
<1>10. QED
  BY <1>1, <1>2, <1>4, <1>6, <1>7, <1>8, <1>9 DEF IInv, ParticipationInv, TypeInv

\* Every step of the system keeps the invariant, under the two hypotheses.
LEMMA VotingNextInv ==
  ASSUME ~RotateInFlight, LegacyBallots => Skew = 0
  PROVE  IInv /\ [Next]_vars => IInv'
<1> SUFFICES ASSUME IInv, [Next]_vars PROVE IInv'
  OBVIOUS
<1>1. CASE Tick /\ UNCHANGED <<rosterVars, electorateVars, castVars, key, openings>>
  BY <1>1, VotingTickInv
<1>2. ASSUME NEW e \in ElectionIds, ChangeElection(e) PROVE IInv'
  BY <1>2, ChangeElectionInv
<1>3. ASSUME NEW e \in ElectionIds, NEW a \in AccountIds, LegacyVote(a, e) PROVE IInv'
  BY <1>3, LegacyVoteInv
<1>4. CASE ChangeAccounts
  BY <1>4, ChangeAccountsInv
<1>5. ASSUME NEW c \in CastIds, CastStep(c) PROVE IInv'
  BY <1>5, CastStepInv
<1>6. CASE AnonymizeVotes
  BY <1>6, AnonymizeVotesInv
<1>7. CASE RotateSecret
  BY <1>7, RotateSecretInv
<1>8. CASE UNCHANGED vars
  <2>1. /\ ElectionsInv' /\ UNCHANGED <<account, castVars, key>>
        /\ UNCHANGED <<now, election, position, candidate, electorate, openings>>
    BY <1>8 DEF vars, electionVars, rosterVars, electorateVars, IInv, ElectionsInv, ElectionsTypeOK,
       OneOpenElection, IdxOneOpen, OpenHasWindow, OpenElections
  <2>2. \A e \in ElectionIds : HasBallots(e) =>
          (Ended(e) => Ended(e)') /\ election'[e].status \notin {"absent", "draft"}
    BY <2>1 DEF Ended, IInv, ParticipationInv, BallotsHoldElection
  <2>3. QED
    BY <2>1, <2>2, ElectionStepInv DEF IInv, TypeInv, TypeOK, RosterTypeOK, ElectorateTypeOK
<1>9. QED
  BY <1>1, <1>2, <1>3, <1>4, <1>5, <1>6, <1>7, <1>8 DEF Next

-----------------------------------------------------------------------------
(* The theorems. *)

\* The invariant holds whenever secrets are rotated with no request in flight
\* and, if ballots were ever linked to users, the Workers' clocks are exact.
THEOREM VotingInvariant ==
  ASSUME ~RotateInFlight, LegacyBallots => Skew = 0
  PROVE  Spec => []IInv
<1>1. IInv /\ [Next]_vars => IInv'
  BY VotingNextInv
<1>2. QED
  BY <1>1, VotingInitInv, PTL DEF Spec

\* Hashes, links and requests account for each other in every state: the hash of
\* each ballot is on record, nothing is recorded behind the back of a request
\* that has made its checks, and ballots hold their election out of draft.
THEOREM ParticipationCorrect ==
  ASSUME ~RotateInFlight, LegacyBallots => Skew = 0
  PROVE  Spec => []ParticipationInv
<1>1. IInv => ParticipationInv
  BY DEF IInv
<1>2. QED
  BY <1>1, VotingInvariant, PTL

\* Every table, request and counter stays well formed.
THEOREM VotingTypeCorrect ==
  ASSUME ~RotateInFlight, LegacyBallots => Skew = 0
  PROVE  Spec => []TypeOK
<1>1. IInv => TypeOK
  BY DEF IInv, TypeInv
<1>2. QED
  BY <1>1, VotingInvariant, PTL

\* A student has at most one ballot in an election (DrizzleBallotCaster.cast and
\* idx_voter_election_participation_unique), with any number of requests,
\* accounts, secrets and elections.
THEOREM OneBallotCorrect ==
  ASSUME ~RotateInFlight, LegacyBallots => Skew = 0
  PROVE  Spec => []OneBallotPerStudent
<1>1. IInv => OneBallotPerStudent
  BY DEF IInv, ParticipationInv
<1>2. QED
  BY <1>1, VotingInvariant, PTL

-----------------------------------------------------------------------------
(* What may be concluded: all of it rests on the invariant above, and needs its   *)
(* hypotheses.                                                                     *)

Voters(e) == VotersByCast(e) \union VotersByLink(e)

-----------------------------------------------------------------------------
(* Nothing that was cast is taken back. *)

\* A request goes on for the account and the election it arrived with.
RequestsGoOn ==
  \A c \in CastIds : cast[c].phase # "idle" =>
    /\ cast'[c].phase # "idle"
    /\ cast'[c].account = cast[c].account /\ cast'[c].election = cast[c].election

LinksRemain ==
  \A e \in ElectionIds, a \in AccountIds :
    legacy[e][a] # "none" => legacy'[e][a] \in LegacyStates \ {"none"}

StudentsRemain ==
  \A a \in AccountIds : account[a].state # "unborn" => account'[a].student = account[a].student

\* The steps of a request, as far as requests and ballots go: a read, a refusal, or
\* the batch.
LEMMA CastStepKinds ==
  ASSUME TypeInv, NEW c \in CastIds, CastStep(c)
  PROVE  /\ RequestsGoOn
         /\ \A d \in CastIds \ {c} : cast'[d] = cast[d]
         /\ RequestStep(c) \/ CommitBallot(c)
         /\ UNCHANGED <<electionVars, rosterVars, electorateVars, legacy>>
<1>1. ASSUME RequestStep(c), cast[c].phase = "idle" \/ Continues(c)
      PROVE  /\ RequestsGoOn
             /\ \A d \in CastIds \ {c} : cast'[d] = cast[d]
             /\ UNCHANGED <<electionVars, rosterVars, electorateVars, legacy>>
  BY <1>1 DEF RequestStep, Continues, RequestsGoOn
<1>2. ASSUME NEW a \in AccountIds, NEW e \in ElectionIds, NEW selections \in Submissions,
             NEW t \in WorkerClock, Receive(c, a, e, selections, t)
      PROVE  RequestStep(c) /\ cast[c].phase = "idle"
  BY <1>2, ReceiveIsRequestStep DEF Receive
<1>3. CASE CommitBallot(c)
  <2>1. /\ cast'[c].phase = "counted" /\ Continues(c)
        /\ \A d \in CastIds \ {c} : cast'[d] = cast[d]
    BY <1>3, CommitStep
  <2>2. UNCHANGED <<electionVars, rosterVars, electorateVars, legacy>>
    BY <1>3 DEF CastStep, CommitBallot
  <2>3. QED
    BY <1>3, <2>1, <2>2 DEF Continues, RequestsGoOn
<1>4. CASE ResolveStudent(c)
  BY <1>1, <1>4, ResolveStudentStep
<1>5. CASE ReadElection(c)
  BY <1>1, <1>5, ReadElectionStep
<1>6. ASSUME NEW read \in {"link", "hash"}, ReadParticipation(c, read)
      PROVE  RequestStep(c) /\ Continues(c)
  BY <1>6, ReadParticipationStep
<1>7. ASSUME NEW read \in {"candidates", "positions"}, ReadForm(c, read)
      PROVE  RequestStep(c) /\ Continues(c)
  BY <1>7, ReadFormStep
<1>8. CASE AbortNotOpen(c) \/ AbortDuplicate(c)
  BY <1>1, <1>8, AbortStep
<1>9. QED
  BY <1>1, <1>2, <1>3, <1>4, <1>5, <1>6, <1>7, <1>8 DEF CastStep

\* Every step but the batch, the earlier writer, the backfill and a deletion leaves
\* all ballots alone; none of them loses one.
LEMMA BallotsRemain ==
  ASSUME IInv, [Next]_vars
  PROVE  /\ RequestsGoOn /\ LinksRemain /\ StudentsRemain
         /\ \A e \in ElectionIds : votes[e] \subseteq votes'[e]
<1> DEFINE Remains == /\ RequestsGoOn /\ LinksRemain /\ StudentsRemain
                      /\ \A e \in ElectionIds : votes[e] \subseteq votes'[e]
<1>0. \A e \in ElectionIds, a \in AccountIds : legacy[e][a] \in LegacyStates
  BY DEF IInv, TypeInv, TypeOK
<1>1. ASSUME UNCHANGED <<account, castVars>> PROVE Remains
  BY <1>0, <1>1 DEF castVars, RequestsGoOn, LinksRemain, StudentsRemain
<1>2. CASE Tick /\ UNCHANGED <<rosterVars, electorateVars, castVars, key, openings>>
  BY <1>1, <1>2 DEF electorateVars
<1>3. ASSUME NEW e \in ElectionIds, ChangeElection(e) PROVE Remains
  BY <1>1, <1>3 DEF ChangeElection, TransitionElection, SnapshotElectorate, electorateVars
<1>4. ASSUME NEW e \in ElectionIds, NEW a \in AccountIds, LegacyVote(a, e) PROVE Remains
  <2>1. /\ legacy' = [legacy EXCEPT ![e][a] = "linked"]
        /\ UNCHANGED <<account, cast, votes>>
    BY <1>4 DEF LegacyVote, electorateVars, ballotVars
  <2>2. LinksRemain
    BY <1>0, <2>1 DEF LinksRemain, LegacyStates, IInv, TypeInv, TypeOK
  <2>3. QED
    BY <2>1, <2>2 DEF RequestsGoOn, StudentsRemain
<1>5. CASE ChangeAccounts
  <2>1. UNCHANGED <<cast, votes>>
    BY <1>5 DEF ChangeAccounts, ballotVars
  <2>2. StudentsRemain
    BY <1>5, StudentsStay DEF ChangeAccounts, StudentsRemain, IInv
  <2>3. LinksRemain
    BY <1>0, <1>5 DEF ChangeAccounts, LinksRemain, LegacyStates
  <2>4. QED
    BY <2>1, <2>2, <2>3 DEF RequestsGoOn
<1>6. ASSUME NEW c \in CastIds, CastStep(c) PROVE Remains
  <2>1. /\ RequestsGoOn /\ UNCHANGED <<account, legacy>>
        /\ RequestStep(c) \/ CommitBallot(c)
    BY <1>6, CastStepKinds DEF IInv, electorateVars
  <2>2. \A e \in ElectionIds : votes[e] \subseteq votes'[e]
    BY <2>1 DEF RequestStep, CommitBallot, ballotVars, IInv, TypeInv, TypeOK
  <2>3. QED
    BY <1>0, <2>1, <2>2 DEF LinksRemain, StudentsRemain
<1>7. CASE AnonymizeVotes
  BY <1>0, <1>7 DEF LegacyStates, AnonymizeVotes, electorateVars, RequestsGoOn, LinksRemain, StudentsRemain
<1>8. CASE RotateSecret
  BY <1>1, <1>8 DEF RotateSecret, electorateVars
<1>9. CASE UNCHANGED vars
  BY <1>1, <1>9 DEF vars, electorateVars
<1>10. QED
  BY <1>2, <1>3, <1>4, <1>5, <1>6, <1>7, <1>8, <1>9 DEF Next

\* A request keeps its student.
LEMMA StudentKept ==
  ASSUME IInv, [Next]_vars, NEW c \in CastIds, cast[c].phase # "idle"
  PROVE  StudentOf(c)' = StudentOf(c) /\ cast'[c].election = cast[c].election
<1>1. cast[c].account \in AccountIds /\ account[cast[c].account].state # "unborn"
  BY KnownStudent DEF IInv
<1>2. RequestsGoOn /\ StudentsRemain
  BY BallotsRemain
<1>3. QED
  BY <1>1, <1>2 DEF RequestsGoOn, StudentsRemain, StudentOf

\* So whoever has a ballot in an election keeps it.
LEMMA VotersRemain ==
  ASSUME IInv, [Next]_vars, NEW e \in ElectionIds
  PROVE  Voters(e) \subseteq Voters(e)'
<1>1. ASSUME NEW c \in votes[e] PROVE StudentOf(c) \in VotersByCast(e)'
  <2>1. c \in CastIds /\ cast[c].phase # "idle"
    BY DEF IInv, TypeInv, TypeOK, ParticipationInv, BallotsRecorded
  <2>2. StudentOf(c)' = StudentOf(c) /\ c \in votes'[e]
    BY <2>1, StudentKept, BallotsRemain
  <2>3. QED
    BY <2>2 DEF VotersByCast
<1>2. ASSUME NEW a \in LegacyVoters(e, LegacyStates \ {"none"})
      PROVE  account[a].student \in VotersByLink(e)'
  <2>1. a \in AccountIds /\ legacy[e][a] # "none" /\ account[a].state # "unborn"
    BY DEF LegacyVoters, IInv, TypeInv, AccountsKnown
  <2>2. account'[a].student = account[a].student /\ legacy'[e][a] \in LegacyStates \ {"none"}
    BY <2>1, BallotsRemain DEF StudentsRemain, LinksRemain
  <2>3. QED
    BY <2>1, <2>2 DEF VotersByLink, LegacyVoters
<1>3. QED
  BY <1>1, <1>2 DEF Voters, VotersByCast, VotersByLink

-----------------------------------------------------------------------------
(* VOTE_ALREADY_CAST is said to voters only. *)

\* Whatever is on record is of somebody who has a ballot.
HashesOfVoters ==
  \A e \in ElectionIds : \A h \in participation[e] : h[2] \in Voters(e)

\* So is whatever a request has found.
FoundOfVoters ==
  \A c \in CastIds :
    (cast[c].phase \in {"received", "resolved", "admitted"} /\ cast[c].voted)
      => StudentOf(c) \in Voters(cast[c].election)

AnswersInv == IInv /\ HashesOfVoters /\ FoundOfVoters /\ AlreadyCastIsTrue

\* What a request finds, as a link or as a hash, is of a voter.
LEMMA HasVotedIsTrue ==
  ASSUME IInv, HashesOfVoters, NEW c \in CastIds, cast[c].phase # "idle",
         NEW read \in {"link", "hash"}, HasVoted(cast[c], read)
  PROVE  StudentOf(c) \in Voters(cast[c].election)
<1>1. cast[c].account \in AccountIds /\ cast[c].election \in ElectionIds
  BY KnownStudent DEF IInv
<1>2. CASE read = "link"
  BY <1>1, <1>2 DEF HasVoted, Voters, VotersByLink, LegacyVoters, LegacyStates, StudentOf
<1>3. CASE read = "hash"
  <2>1. PICK k \in 0..cast[c].key :
          <<k, account[cast[c].account].student>> \in participation[cast[c].election]
    BY <1>3 DEF HasVoted
  <2>2. QED
    BY <1>1, <2>1 DEF HashesOfVoters, StudentOf
<1>4. QED
  BY <1>2, <1>3

\* The batch records the hash of a voter, and so does the backfill; nothing else
\* is recorded.
LEMMA HashesOfVotersKept ==
  ASSUME IInv, HashesOfVoters, [Next]_vars
  PROVE  HashesOfVoters'
<1>1. ASSUME UNCHANGED participation PROVE HashesOfVoters'
  BY <1>1, VotersRemain DEF HashesOfVoters
<1>2. ASSUME NEW c \in CastIds, CommitBallot(c) PROVE HashesOfVoters'
  <2>0. cast[c].phase # "idle" /\ cast[c].election \in ElectionIds
    BY <1>2, KnownStudent DEF CommitBallot, IInv
  <2> PICK e \in ElectionIds : e = cast[c].election
    BY <2>0
  <2>1. cast[c].phase # "idle" /\ e \in ElectionIds
    BY <2>0
  <2>2. \A f \in ElectionIds :
          participation'[f] \subseteq participation[f] \union (IF f = e THEN {CurrentHash(c)} ELSE {})
    BY <1>2 DEF CommitBallot, IInv, TypeInv, TypeOK
  <2>3. c \in votes'[e]
    BY <1>2, <2>1 DEF CommitBallot, IInv, TypeInv, TypeOK
  <2>4. CurrentHash(c)[2] \in Voters(e)'
    BY <2>1, <2>3, StudentKept DEF CurrentHash, Voters, VotersByCast
  <2>5. QED
    BY <2>2, <2>4, VotersRemain DEF HashesOfVoters
<1>3. CASE AnonymizeVotes
  <2>1. ASSUME NEW e \in ElectionIds, NEW h \in participation'[e] PROVE h[2] \in Voters(e)'
    <3>1. CASE h \in participation[e]
      BY <2>1, <3>1, VotersRemain DEF HashesOfVoters
    <3>2. CASE h \in {<<key, account[a].student>> : a \in LegacyVoters(e, {"linked"})}
      <4>1. PICK a \in LegacyVoters(e, {"linked"}) : h = <<key, account[a].student>>
        BY <3>2
      <4>2. account[a].student \in Voters(e)
        BY <4>1 DEF Voters, VotersByLink, LegacyVoters, LegacyStates
      <4>3. QED
        BY <4>1, <4>2, VotersRemain
    <3>3. QED
      BY <1>3, <2>1, <3>1, <3>2 DEF AnonymizeVotes
  <2>2. QED
    BY <2>1 DEF HashesOfVoters
<1>4. ASSUME NEW c \in CastIds, CastStep(c) PROVE HashesOfVoters'
  <2>1. RequestStep(c) \/ CommitBallot(c)
    BY <1>4, CastStepKinds DEF IInv
  <2>2. QED
    BY <1>1, <1>2, <2>1 DEF RequestStep, ballotVars
<1>5. CASE Tick /\ UNCHANGED <<rosterVars, electorateVars, castVars, key, openings>>
  BY <1>1, <1>5 DEF castVars
<1>6. ASSUME NEW e \in ElectionIds, ChangeElection(e) PROVE HashesOfVoters'
  BY <1>1, <1>6 DEF ChangeElection, TransitionElection, castVars
<1>7. ASSUME NEW e \in ElectionIds, NEW a \in AccountIds, LegacyVote(a, e) PROVE HashesOfVoters'
  BY <1>1, <1>7 DEF LegacyVote, ballotVars
<1>8. CASE ChangeAccounts
  BY <1>1, <1>8 DEF ChangeAccounts, ballotVars
<1>9. CASE RotateSecret
  BY <1>1, <1>9 DEF RotateSecret, castVars
<1>10. CASE UNCHANGED vars
  BY <1>1, <1>10 DEF vars, castVars
<1>11. QED
  BY <1>2, <1>3, <1>4, <1>5, <1>6, <1>7, <1>8, <1>9, <1>10 DEF Next

\* What may be said of request c.
Told(c) ==
  /\ (cast[c].phase \in {"received", "resolved", "admitted"} /\ cast[c].voted)
       => StudentOf(c) \in Voters(cast[c].election)
  /\ cast[c].phase = "VOTE_ALREADY_CAST" => StudentOf(c) \in Voters(cast[c].election)

\* It stays true of the requests that take no step.
LEMMA ToldKept ==
  ASSUME IInv, [Next]_vars, NEW c \in CastIds, Told(c), cast'[c] = cast[c]
  PROVE  Told(c)'
<1>1. CASE cast[c].phase = "idle"
  BY <1>1 DEF Told
<1>2. CASE cast[c].phase # "idle"
  <2>1. StudentOf(c)' = StudentOf(c) /\ cast[c].election \in ElectionIds
    BY <1>2, StudentKept, KnownStudent DEF IInv
  <2> PICK e \in ElectionIds : e = cast[c].election
    BY <2>1
  <2>2. Voters(e) \subseteq Voters(e)'
    BY VotersRemain
  <2>3. QED
    BY <2>1, <2>2 DEF Told, Voters, VotersByCast, VotersByLink
<1>3. QED
  BY <1>1, <1>2

\* And of the one that does: it has found something only where there was something.
LEMMA ToldByStep ==
  ASSUME IInv, HashesOfVoters, NEW c \in CastIds, Told(c), CastStep(c)
  PROVE  Told(c)'
<1> DEFINE IsVoter == StudentOf(c) \in Voters(cast[c].election)
<1>0. [Next]_vars /\ cast[c] \in CastRow
  BY DEF Next, IInv, TypeInv, TypeOK
<1>1. ASSUME cast[c].phase # "idle", IsVoter PROVE Told(c)'
  <2>1. StudentOf(c)' = StudentOf(c) /\ cast'[c].election = cast[c].election
    BY <1>0, <1>1, StudentKept
  <2> PICK e \in ElectionIds : e = cast[c].election
    BY <1>1, KnownStudent DEF IInv
  <2>2. StudentOf(c)' \in Voters(e)'
    BY <1>0, <1>1, <2>1, VotersRemain
  <2>3. QED
    BY <2>1, <2>2 DEF Told, Voters, VotersByCast, VotersByLink
<1>2. ASSUME cast'[c].phase \notin {"received", "resolved", "admitted", "VOTE_ALREADY_CAST"}
      PROVE  Told(c)'
  BY <1>2 DEF Told
<1>3. ASSUME cast'[c].phase # "VOTE_ALREADY_CAST", ~cast'[c].voted PROVE Told(c)'
  BY <1>3 DEF Told
<1>4. ASSUME NEW a \in AccountIds, NEW e \in ElectionIds, NEW selections \in Submissions,
             NEW t \in WorkerClock, Receive(c, a, e, selections, t)
      PROVE  Told(c)'
  <2>1. cast'[c].phase = "received" /\ ~cast'[c].voted
    BY <1>4 DEF Receive, IInv, TypeInv, TypeOK
  <2>2. QED
    BY <1>3, <2>1
<1>5. ASSUME cast[c].phase \in {"received", "resolved"},
             NEW phase \in {"resolved", "admitted"}, NEW reads \in SUBSET Reads,
             cast'[c] = Await(cast[c], phase, reads)
      PROVE  Told(c)'
  <2>1. cast'[c].phase = phase /\ cast'[c].voted = cast[c].voted
    BY <1>0, <1>5, AwaitRow DEF Phases
  <2>2. CASE cast[c].voted
    BY <1>1, <1>5, <2>2 DEF Told
  <2>3. CASE ~cast[c].voted
    BY <1>3, <2>1, <2>3
  <2>4. QED
    BY <2>2, <2>3
<1>6. CASE ResolveStudent(c)
  <2>1. \/ cast'[c] = Await(cast[c], "resolved", {})
        \/ cast'[c] = Finished(cast[c], "USER_NOT_FOUND")
    BY <1>6 DEF ResolveStudent, IInv, TypeInv, TypeOK
  <2>2. CASE cast'[c] = Finished(cast[c], "USER_NOT_FOUND")
    <3>1. cast'[c].phase = "USER_NOT_FOUND"
      BY <1>0, <2>2, FinishedRow DEF Outcomes
    <3>2. QED
      BY <1>2, <3>1
  <2>3. QED
    BY <1>5, <1>6, <2>1, <2>2 DEF ResolveStudent
<1>7. CASE ReadElection(c)
  <2>1. \/ cast'[c] = Await(cast[c], "admitted", {"link", "hash"})
        \/ cast'[c] \in {Finished(cast[c], "ELECTION_NOT_FOUND"), Finished(cast[c], "ELECTION_NOT_OPEN")}
    BY <1>7 DEF ReadElection, IInv, TypeInv, TypeOK
  <2>2. CASE cast'[c] \in {Finished(cast[c], "ELECTION_NOT_FOUND"), Finished(cast[c], "ELECTION_NOT_OPEN")}
    <3>1. cast'[c].phase \in {"ELECTION_NOT_FOUND", "ELECTION_NOT_OPEN"}
      BY <1>0, <2>2, FinishedRow DEF Outcomes
    <3>2. QED
      BY <1>2, <3>1
  <2>3. QED
    BY <1>5, <1>7, <2>1, <2>2 DEF ReadElection, Reads
<1>8. ASSUME NEW read \in {"link", "hash"}, ReadParticipation(c, read) PROVE Told(c)'
  <2>1. /\ cast[c].phase = "admitted"
        /\ \/ cast'[c].phase = "admitted" /\ cast'[c].voted = (cast[c].voted \/ HasVoted(cast[c], read))
           \/ cast'[c].phase = "VOTE_ALREADY_CAST" /\ (cast[c].voted \/ HasVoted(cast[c], read))
           \/ cast'[c].phase \in {"unvoted", "BALLOT_REFUSED"}
    BY <1>8, ReadParticipationStep DEF IInv
  <2>2. cast[c].voted \/ HasVoted(cast[c], read) => IsVoter
    BY <2>1, HasVotedIsTrue DEF Told
  <2>3. QED
    BY <1>1, <1>2, <1>3, <2>1, <2>2
<1>9. ASSUME NEW read \in {"candidates", "positions"}, ReadForm(c, read) PROVE Told(c)'
  <2>1. cast'[c].phase \in {"unvoted", "ready", "BALLOT_REFUSED"}
    BY <1>9, ReadFormStep DEF IInv
  <2>2. QED
    BY <1>2, <2>1
<1>10. CASE AbortNotOpen(c) \/ AbortDuplicate(c)
  <2>1. /\ cast[c].phase = "ready"
        /\ \/ cast'[c].phase = "ELECTION_NOT_OPEN"
           \/ /\ cast'[c].phase = "VOTE_ALREADY_CAST"
              /\ CurrentHash(c) \in participation[cast[c].election]
    BY <1>10, AbortStep DEF IInv
  <2>2. CASE CurrentHash(c) \in participation[cast[c].election]
    <3>1. IsVoter
      BY <2>1, <2>2, KnownStudent DEF HashesOfVoters, CurrentHash, IInv
    <3>2. QED
      BY <1>1, <2>1, <3>1
  <2>3. QED
    BY <1>2, <2>1, <2>2
<1>11. CASE CommitBallot(c)
  <2>1. cast'[c].phase = "counted"
    BY <1>11, CommitStep DEF IInv
  <2>2. QED
    BY <1>2, <2>1
<1>12. QED
  BY <1>4, <1>6, <1>7, <1>8, <1>9, <1>10, <1>11 DEF CastStep

\* Every step keeps all of it.
LEMMA AnswersKept ==
  ASSUME ~RotateInFlight, LegacyBallots => Skew = 0
  PROVE  AnswersInv /\ [Next]_vars => AnswersInv'
<1> SUFFICES ASSUME AnswersInv, [Next]_vars PROVE AnswersInv'
  OBVIOUS
<1>1. IInv' /\ HashesOfVoters'
  BY VotingNextInv, HashesOfVotersKept DEF AnswersInv
<1>2. \A c \in CastIds : Told(c)
  BY DEF AnswersInv, FoundOfVoters, AlreadyCastIsTrue, Told, Voters
<1>3. ASSUME NEW c \in CastIds PROVE Told(c)'
  <2>1. CASE cast'[c] = cast[c]
    BY <1>2, <2>1, ToldKept DEF AnswersInv
  <2>2. CASE CastStep(c)
    BY <1>2, <2>2, ToldByStep DEF AnswersInv
  <2>3. ASSUME NEW d \in CastIds, CastStep(d), d # c PROVE cast'[c] = cast[c]
    BY <2>3, CastStepKinds DEF AnswersInv, IInv
  <2>4. (\E d \in CastIds : CastStep(d)) \/ UNCHANGED cast
    BY DEF Next, ChangeElection, TransitionElection, LegacyVote, ChangeAccounts, AnonymizeVotes,
           RotateSecret, castVars, vars
  <2>5. QED
    BY <2>1, <2>2, <2>3, <2>4
<1>4. FoundOfVoters' /\ AlreadyCastIsTrue'
  BY <1>3 DEF Told, FoundOfVoters, AlreadyCastIsTrue, Voters
<1>5. QED
  BY <1>1, <1>4 DEF AnswersInv

\* A voter who is told to have voted has: the browser takes VOTE_ALREADY_CAST for
\* proof that an earlier attempt was counted (submitVoteWithReconciliation).
THEOREM AlreadyCastCorrect ==
  ASSUME ~RotateInFlight, LegacyBallots => Skew = 0
  PROVE  Spec => []AlreadyCastIsTrue
<1>1. Init => AnswersInv
  BY VotingInitInv DEF AnswersInv, Init, HashesOfVoters, FoundOfVoters, AlreadyCastIsTrue, NoCast
<1>2. AnswersInv /\ [Next]_vars => AnswersInv'
  BY AnswersKept
<1>3. AnswersInv => AlreadyCastIsTrue
  BY DEF AnswersInv
<1>4. QED
  BY <1>1, <1>2, <1>3, PTL DEF Spec

-----------------------------------------------------------------------------
(* What a step does to form, ballots and elections. *)

\* Nobody gets a linked ballot.
NoNewLinks ==
  \A e \in ElectionIds, a \in AccountIds : legacy[e][a] = "none" => legacy'[e][a] = "none"

\* Ballots come in by a batch or by the earlier writer, in both cases while their
\* election is in its window; and then nothing else happens.
LEMMA BallotsMove ==
  ASSUME IInv, [Next]_vars
  PROVE  \/ UNCHANGED votes /\ NoNewLinks
         \/ UNCHANGED electionVars /\ \E c \in CastIds : CastStep(c) /\ CommitBallot(c)
         \/ UNCHANGED electionVars /\ \E e \in ElectionIds, a \in AccountIds : LegacyVote(a, e)
<1> DEFINE Same == UNCHANGED votes /\ NoNewLinks
<1>1. ASSUME UNCHANGED castVars PROVE Same
  BY <1>1 DEF castVars, NoNewLinks
<1>2. CASE Tick /\ UNCHANGED <<rosterVars, electorateVars, castVars, key, openings>>
  BY <1>1, <1>2
<1>3. ASSUME NEW e \in ElectionIds, ChangeElection(e) PROVE Same
  BY <1>1, <1>3 DEF ChangeElection, TransitionElection
<1>4. CASE ChangeAccounts
  BY <1>4 DEF ChangeAccounts, NoNewLinks, ballotVars
<1>5. ASSUME NEW c \in CastIds, CastStep(c) PROVE Same \/ (CommitBallot(c) /\ UNCHANGED electionVars)
  BY <1>5, CastStepKinds DEF RequestStep, ballotVars, NoNewLinks, IInv
<1>6. CASE AnonymizeVotes
  BY <1>6 DEF AnonymizeVotes, NoNewLinks
<1>7. CASE RotateSecret
  BY <1>1, <1>7 DEF RotateSecret
<1>8. CASE UNCHANGED vars
  BY <1>1, <1>8 DEF vars
<1>9. QED
  BY <1>2, <1>3, <1>4, <1>5, <1>6, <1>7, <1>8 DEF Next, LegacyVote

\* A ballot that comes in goes into an election whose voting is under way.
LEMMA WindowIsOpen ==
  ASSUME IInv, NEW e \in ElectionIds, InWindow(e)
  PROVE  election[e].status = "open" /\ ~Ended(e)
<1>1. /\ election[e].status = "open" /\ now <= election[e].closesAt
      /\ election[e].closesAt \in Int /\ now \in Int
  BY NullAssumption DEF InWindow, IInv, ElectionsInv, ElectionsTypeOK, Row
<1>2. QED
  BY <1>1 DEF Ended

\* Links that are none stay none, so who has a linked ballot stays the same.
LEMMA LinkersStay ==
  ASSUME IInv, [Next]_vars, NEW e \in ElectionIds,
         \A a \in AccountIds : legacy[e][a] = "none" => legacy'[e][a] = "none"
  PROVE  /\ LegacyVoters(e, LegacyStates \ {"none"})' = LegacyVoters(e, LegacyStates \ {"none"})
         /\ \A a \in LegacyVoters(e, LegacyStates \ {"none"}) : account'[a].student = account[a].student
<1>1. /\ \A a \in AccountIds : legacy[e][a] # "none" => legacy'[e][a] \in LegacyStates \ {"none"}
      /\ \A a \in AccountIds : legacy[e][a] \in LegacyStates
  BY BallotsRemain DEF LinksRemain, IInv, TypeInv, TypeOK
<1>2. LegacyVoters(e, LegacyStates \ {"none"})' = LegacyVoters(e, LegacyStates \ {"none"})
  BY <1>1 DEF LegacyVoters
<1>3. \A a \in LegacyVoters(e, LegacyStates \ {"none"}) : account'[a].student = account[a].student
  BY BallotsRemain DEF LegacyVoters, StudentsRemain, IInv, TypeInv, AccountsKnown
<1>4. QED
  BY <1>2, <1>3

\* A step of the lifecycle, or of no election at all, as far as the rows go.
LEMMA ElectionsMove ==
  ASSUME IInv, [Next]_vars
  PROVE  \/ UNCHANGED election
         \/ \E e \in ElectionIds : EditElection(e)
         \/ \E e \in ElectionIds, to \in Statuses, opens \in OpenTimes \union {Null},
               closes \in CloseTimes \union {Null}, t \in WorkerClock :
              Transition(e, to, opens, closes, t, FormComplete(e), HasBallots(e))
<1>1. ASSUME NEW c \in CastIds, CastStep(c) PROVE UNCHANGED election
  BY <1>1 DEF CastStep, electionVars
<1>2. ASSUME NEW e \in ElectionIds, ChangeElection(e), election' # election
      PROVE  \/ EditElection(e)
             \/ \E to \in Statuses, opens \in OpenTimes \union {Null},
                  closes \in CloseTimes \union {Null}, t \in WorkerClock :
                  Transition(e, to, opens, closes, t, FormComplete(e), HasBallots(e))
  BY <1>2 DEF ChangeElection, TransitionElection, electionVars
<1>3. ASSUME ~\E e \in ElectionIds : ChangeElection(e) PROVE UNCHANGED election
  BY <1>1, <1>3 DEF Next, Tick, LegacyVote, ChangeAccounts, AnonymizeVotes, RotateSecret, vars, electionVars
<1>4. QED
  BY <1>2, <1>3

-----------------------------------------------------------------------------
(* A ballot keeps its meaning. *)

\* The form of an election changes while it is a draft, and only that of the draft.
LEMMA FormsOfOthersStay ==
  ASSUME RosterTypeOK, NEW f \in ElectionIds, EditRoster(f),
         NEW e \in ElectionIds, ~IsElectionEditable(e)
  PROVE  /\ ListByElection(e)' = ListByElection(e)
         /\ \A p \in ListByElection(e) : ActiveFor(p)' = ActiveFor(p)
<1> PICK p \in PositionIds :
      \/ CreatePosition(p, f)
      \/ DeletePosition(p, f)
      \/ \E k \in CandidateIds : CreateCandidate(k, p, f) \/ DeactivateCandidate(k, p, f)
  BY DEF EditRoster
<1>1. e # f
  BY DEF CreatePosition, DeletePosition, CreateCandidate, DeactivateCandidate
<1>2. position \in [PositionIds -> PositionRow] /\ candidate \in [CandidateIds -> CandidateRow]
  BY DEF RosterTypeOK
<1>3. CASE CreatePosition(p, f)
  <2>1. /\ \A q \in PositionIds \ {p} : position'[q] = position[q]
        /\ position[p].state = "unborn" /\ position'[p].election = f /\ UNCHANGED candidate
    BY <1>2, <1>3 DEF CreatePosition
  <2>2. position[p] # [state |-> "listed", election |-> e] /\ position'[p] # [state |-> "listed", election |-> e]
    BY <1>1, <2>1
  <2>3. QED
    BY <2>1, <2>2 DEF ListByElection, ActiveFor
<1>4. CASE DeletePosition(p, f)
  <2>1. /\ \A q \in PositionIds \ {p} : position'[q] = position[q]
        /\ position[p] = [state |-> "listed", election |-> f] /\ position'[p].state = "deleted"
        /\ UNCHANGED candidate
    BY <1>2, <1>4 DEF DeletePosition, ListByElection, PositionRow
  <2>2. position[p] # [state |-> "listed", election |-> e] /\ position'[p] # [state |-> "listed", election |-> e]
    BY <1>1, <2>1
  <2>3. QED
    BY <2>1, <2>2 DEF ListByElection, ActiveFor
<1>5. ASSUME NEW k \in CandidateIds, CreateCandidate(k, p, f) \/ DeactivateCandidate(k, p, f)
      PROVE  /\ ListByElection(e)' = ListByElection(e)
             /\ \A q \in ListByElection(e) : ActiveFor(q)' = ActiveFor(q)
  <2>1. UNCHANGED position /\ p \notin ListByElection(e)
    BY <1>1, <1>5 DEF CreateCandidate, DeactivateCandidate, ListByElection
  <2>2. /\ \A j \in CandidateIds \ {k} : candidate'[j] = candidate[j]
        /\ candidate'[k].position = p
        /\ candidate[k].position = p \/ candidate[k].state = "unborn"
    BY <1>2, <1>5 DEF CreateCandidate, DeactivateCandidate, ActiveFor, CandidateRow
  <2>3. ASSUME NEW q \in ListByElection(e) PROVE ActiveFor(q)' = ActiveFor(q)
    <3>1. q # p
      BY <2>1
    <3>2. /\ candidate[k] # [state |-> "active", position |-> q]
          /\ candidate'[k] # [state |-> "active", position |-> q]
      BY <2>2, <3>1
    <3>3. QED
      BY <2>2, <3>2 DEF ActiveFor
  <2>4. QED
    BY <2>1, <2>3 DEF ListByElection
<1>6. QED
  BY <1>3, <1>4, <1>5

\* The form of an election that is no draft stays, whatever happens.
LEMMA FormStays ==
  ASSUME IInv, [Next]_vars, NEW e \in ElectionIds, ~IsElectionEditable(e)
  PROVE  /\ ListByElection(e)' = ListByElection(e)
         /\ \A p \in ListByElection(e) : ActiveFor(p)' = ActiveFor(p)
<1> DEFINE Stays == /\ ListByElection(e)' = ListByElection(e)
                    /\ \A p \in ListByElection(e) : ActiveFor(p)' = ActiveFor(p)
<1>1. ASSUME UNCHANGED rosterVars PROVE Stays
  BY <1>1 DEF rosterVars, ListByElection, ActiveFor
<1>2. ASSUME NEW f \in ElectionIds, EditRoster(f) PROVE Stays
  <2>1. RosterTypeOK
    BY DEF IInv, TypeInv, TypeOK
  <2>2. QED
    BY <1>2, <2>1, FormsOfOthersStay
<1>3. ASSUME NEW f \in ElectionIds, ChangeElection(f) PROVE Stays
  BY <1>1, <1>2, <1>3 DEF ChangeElection, TransitionElection
<1>4. ASSUME ~\E f \in ElectionIds : ChangeElection(f) PROVE UNCHANGED rosterVars
  BY <1>4 DEF Next, LegacyVote, ChangeAccounts, CastStep, AnonymizeVotes, RotateSecret, vars
<1>5. QED
  BY <1>1, <1>3, <1>4

\* The form of an election that has a ballot stays as it is (the draft-only rule of
\* the positions' and candidates' coordinators, with the guard of a reopening).
THEOREM FormFixedCorrect ==
  ASSUME ~RotateInFlight, LegacyBallots => Skew = 0
  PROVE  Spec => FormFixedByBallots
<1> DEFINE Fixed == \A e \in ElectionIds : HasBallots(e) =>
             /\ ListByElection(e)' = ListByElection(e)
             /\ \A p \in ListByElection(e) : ActiveFor(p)' = ActiveFor(p)
<1>1. IInv /\ [Next]_vars => [Fixed]_vars
  <2> SUFFICES ASSUME IInv, [Next]_vars, NEW e \in ElectionIds, HasBallots(e)
               PROVE  /\ ListByElection(e)' = ListByElection(e)
                      /\ \A p \in ListByElection(e) : ActiveFor(p)' = ActiveFor(p)
    OBVIOUS
  <2>1. ~IsElectionEditable(e)
    BY DEF IsElectionEditable, IInv, ParticipationInv, BallotsHoldElection
  <2>2. QED
    BY <2>1, FormStays
<1>2. Spec => []IInv
  BY VotingInvariant
<1>3. QED
  BY <1>1, <1>2, PTL DEF Spec, FormFixedByBallots

-----------------------------------------------------------------------------
(* The box after voting is the result. *)

\* Voting that has ended with a ballot has ended for good.
LEMMA EndedStays ==
  ASSUME IInv, [Next]_vars, NEW e \in ElectionIds, Ended(e), HasBallots(e)
  PROVE  Ended(e)'
<1>1. CASE UNCHANGED electionVars
  BY <1>1 DEF electionVars, Ended
<1>2. CASE Tick
  BY <1>2, TickKeepsEnded DEF IInv
<1>3. ASSUME NEW f \in ElectionIds, EditElection(f) PROVE Ended(e)'
  BY <1>3, EditElectionKeepsEnded DEF IInv
<1>4. ASSUME NEW f \in ElectionIds, NEW to \in Statuses, NEW opens \in OpenTimes \union {Null},
             NEW closes \in CloseTimes \union {Null}, NEW t \in WorkerClock,
             Transition(f, to, opens, closes, t, FormComplete(f), HasBallots(f))
      PROVE  Ended(e)'
  <2>1. Inputs(to, opens, closes, t)
    BY DEF Inputs
  <2>2. Ended(e)' \/ (e = f /\ ~HasBallots(f))
    BY <1>4, <2>1, TransitionKeepsEnded DEF IInv
  <2>3. QED
    BY <2>2
<1>5. ASSUME NEW f \in ElectionIds, ChangeElection(f) PROVE Ended(e)'
  BY <1>1, <1>3, <1>4, <1>5 DEF ChangeElection, TransitionElection
<1>6. ASSUME ~Tick, ~\E f \in ElectionIds : ChangeElection(f) PROVE UNCHANGED electionVars
  BY <1>6 DEF Next, LegacyVote, ChangeAccounts, CastStep, AnonymizeVotes, RotateSecret, vars
<1>7. QED
  BY <1>1, <1>2, <1>5, <1>6

\* And its box is shut.
LEMMA EndedBoxStays ==
  ASSUME IInv, [Next]_vars, NEW e \in ElectionIds, Ended(e)
  PROVE  votes'[e] = votes[e] /\ VotersByLink(e)' = VotersByLink(e)
<1>1. \/ UNCHANGED votes /\ NoNewLinks
      \/ \E c \in CastIds : CastStep(c) /\ CommitBallot(c)
      \/ \E f \in ElectionIds, a \in AccountIds : LegacyVote(a, f)
  BY BallotsMove
<1>2. \A a \in AccountIds : legacy[e][a] = "none" => legacy'[e][a] = "none"
  <2>1. ASSUME NEW c \in CastIds, CommitBallot(c) PROVE UNCHANGED legacy
    BY <2>1 DEF CommitBallot
  <2>2. ASSUME NEW f \in ElectionIds, NEW a \in AccountIds, LegacyVote(a, f)
        PROVE  legacy'[e] = legacy[e]
    <3>1. f # e /\ legacy' = [legacy EXCEPT ![f][a] = "linked"]
      BY <2>2, WindowIsOpen DEF LegacyVote
    <3>2. QED
      BY <3>1 DEF IInv, TypeInv, TypeOK
  <2>3. QED
    BY <1>1, <2>1, <2>2 DEF NoNewLinks
<1>3. votes'[e] = votes[e]
  <2>1. ASSUME NEW c \in CastIds, CommitBallot(c) PROVE votes'[e] = votes[e]
    <3>1. cast[c].election \in ElectionIds /\ InWindow(cast[c].election)
      BY <2>1, KnownStudent DEF CommitBallot, IInv
    <3>2. cast[c].election # e
      BY <3>1, WindowIsOpen
    <3>3. QED
      BY <2>1, <3>2 DEF CommitBallot, IInv, TypeInv, TypeOK
  <2>2. ASSUME NEW f \in ElectionIds, NEW a \in AccountIds, LegacyVote(a, f)
        PROVE  votes' = votes
    BY <2>2 DEF LegacyVote, ballotVars
  <2>3. QED
    BY <1>1, <2>1, <2>2
<1>4. QED
  BY <1>2, <1>3, LinkersStay DEF VotersByLink

\* Once voting has ended with a ballot in the box, nothing in flight changes the
\* result, and no transition resumes the voting (votes_require_open_election and the
\* guard of a reopening).
THEOREM ResultsAreFinalCorrect ==
  ASSUME ~RotateInFlight, LegacyBallots => Skew = 0
  PROVE  Spec => ResultsAreFinal
<1> DEFINE Final == \A e \in ElectionIds : Ended(e) /\ HasBallots(e) =>
             /\ Ended(e)'
             /\ votes'[e] = votes[e]
             /\ VotersByLink(e)' = VotersByLink(e)
<1>1. IInv /\ [Next]_vars => [Final]_vars
  BY EndedStays, EndedBoxStays
<1>2. Spec => []IInv
  BY VotingInvariant
<1>3. QED
  BY <1>1, <1>2, PTL DEF Spec, ResultsAreFinal

-----------------------------------------------------------------------------
(* A request and the opening it was received at. *)

\* The request still belongs to the present opening of its election.
Fresh(c) == cast[c].phase # "idle" /\ cast[c].opening = openings[cast[c].election]

Live(e) == election[e].status = "open" /\ ~Ended(e)

Eligible(a, e) == a \in electorate[e] \/ account[a].bySuperAdmin

\* No request was received at an opening that is still to come.
OpeningsGrow ==
  \A c \in CastIds : cast[c].phase # "idle" => cast[c].opening <= openings[cast[c].election]

\* What was asked, and when, stays with the request.
SameQuestion(row, new) ==
  /\ new.account = row.account /\ new.election = row.election
  /\ new.selections = row.selections /\ new.opening = row.opening

\* The steps of a request keep what was asked.
LEMMA RowsKeepQuestion ==
  ASSUME TypeOK, NEW c \in CastIds
  PROVE  /\ \A outcome \in Outcomes \union {"ready"} : SameQuestion(cast[c], Finished(cast[c], outcome))
         /\ \A phase \in Phases, reads \in SUBSET Reads : SameQuestion(cast[c], Await(cast[c], phase, reads))
         /\ \A read \in Reads : /\ SameQuestion(cast[c], Informed(c, read))
                                /\ SameQuestion(cast[c], ShownForm(c, read))
<1>1. cast[c] \in CastRow
  BY DEF TypeOK
<1>2. ASSUME NEW read \in Reads
      PROVE  SameQuestion(cast[c], Informed(c, read)) /\ SameQuestion(cast[c], ShownForm(c, read))
  <2>1. ASSUME NEW left, NEW seen
        PROVE  SameQuestion(cast[c], [cast[c] EXCEPT !.pending = left, !.voted = seen])
    BY <1>1 DEF SameQuestion, CastRow
  <2>2. ASSUME NEW left, NEW active
        PROVE  SameQuestion(cast[c], [cast[c] EXCEPT !.pending = left, !.active = active])
    BY <1>1 DEF SameQuestion, CastRow
  <2>3. ASSUME NEW left, NEW listed
        PROVE  SameQuestion(cast[c], [cast[c] EXCEPT !.pending = left, !.listed = listed])
    BY <1>1 DEF SameQuestion, CastRow
  <2>4. SameQuestion(cast[c], Informed(c, read))
    BY <2>1 DEF Informed
  <2>5. SameQuestion(cast[c], ShownForm(c, read))
    BY <2>2, <2>3 DEF ShownForm
  <2>6. QED
    BY <2>4, <2>5
<1>3. \A outcome \in Outcomes \union {"ready"} : SameQuestion(cast[c], Finished(cast[c], outcome))
  BY <1>1, FinishedRow DEF SameQuestion
<1>4. \A phase \in Phases, reads \in SUBSET Reads : SameQuestion(cast[c], Await(cast[c], phase, reads))
  BY <1>1 DEF SameQuestion, Await, CastRow
<1>5. QED
  BY <1>2, <1>3, <1>4

\* A row that is built in two steps keeps it too.
LEMMA SameQuestionTwice ==
  ASSUME NEW row, NEW mid \in CastRow, SameQuestion(row, mid)
  PROVE  /\ \A outcome \in Outcomes \union {"ready"} : SameQuestion(row, Finished(mid, outcome))
         /\ \A phase \in Phases, reads \in SUBSET Reads : SameQuestion(row, Await(mid, phase, reads))
<1>1. \A outcome \in Outcomes \union {"ready"} : SameQuestion(row, Finished(mid, outcome))
  BY FinishedRow DEF SameQuestion
<1>2. \A phase \in Phases, reads \in SUBSET Reads : SameQuestion(row, Await(mid, phase, reads))
  BY DEF SameQuestion, Await, CastRow
<1>3. QED
  BY <1>1, <1>2

\* No step changes what a request asks.
LEMMA QuestionKept ==
  ASSUME IInv, [Next]_vars, NEW c \in CastIds, cast[c].phase # "idle"
  PROVE  cast'[c].phase # "idle" /\ SameQuestion(cast[c], cast'[c])
<1>0. TypeOK /\ TypeInv /\ cast[c] \in CastRow
  BY DEF IInv, TypeInv, TypeOK
<1>1. cast'[c].phase # "idle"
  BY BallotsRemain DEF RequestsGoOn
<1>2. CASE cast'[c] = cast[c]
  BY <1>2 DEF SameQuestion
<1>3. CASE CastStep(c)
  <2>1. CASE ResolveStudent(c)
    <3>1. cast'[c] \in {Await(cast[c], "resolved", {}), Finished(cast[c], "USER_NOT_FOUND")}
      BY <1>0, <2>1 DEF ResolveStudent, TypeOK
    <3>2. QED
      BY <1>0, <1>1, <3>1, RowsKeepQuestion DEF Phases, Outcomes
  <2>2. CASE ReadElection(c)
    <3>1. cast'[c] \in {Await(cast[c], "admitted", {"link", "hash"}),
                        Finished(cast[c], "ELECTION_NOT_FOUND"), Finished(cast[c], "ELECTION_NOT_OPEN")}
      BY <1>0, <2>2 DEF ReadElection, TypeOK
    <3>2. {"link", "hash"} \in SUBSET Reads
      BY DEF Reads
    <3>3. QED
      BY <1>0, <1>1, <3>1, <3>2, RowsKeepQuestion DEF Phases, Outcomes
  <2>3. ASSUME NEW read \in {"link", "hash"}, ReadParticipation(c, read)
        PROVE  SameQuestion(cast[c], cast'[c])
    <3> DEFINE row == Informed(c, read)
    <3>1. read \in Reads /\ {"candidates", "positions"} \in SUBSET Reads
      BY DEF Reads
    <3>2. row \in CastRow /\ SameQuestion(cast[c], row)
      BY <1>0, <3>1, InformedRow, RowsKeepQuestion
    <3>3. cast'[c] \in {row, Finished(row, "VOTE_ALREADY_CAST"), Finished(row, "BALLOT_REFUSED"),
                        Await(row, "unvoted", {"candidates", "positions"})}
      BY <1>0, <2>3 DEF ReadParticipation, TypeOK
    <3> HIDE DEF row
    <3>4. QED
      BY <3>1, <3>2, <3>3, SameQuestionTwice DEF Phases, Outcomes
  <2>4. ASSUME NEW read \in {"candidates", "positions"}, ReadForm(c, read)
        PROVE  SameQuestion(cast[c], cast'[c])
    <3> DEFINE row == ShownForm(c, read)
    <3>1. read \in Reads
      BY DEF Reads
    <3>2. row \in CastRow /\ SameQuestion(cast[c], row)
      BY <1>0, <3>1, ShownFormRow, RowsKeepQuestion
    <3>3. cast'[c] \in {row, Finished(row, "ready"), Finished(row, "BALLOT_REFUSED")}
      BY <1>0, <2>4 DEF ReadForm, TypeOK
    <3> HIDE DEF row
    <3>4. QED
      BY <3>2, <3>3, SameQuestionTwice DEF Outcomes
  <2>5. CASE AbortNotOpen(c) \/ AbortDuplicate(c) \/ CommitBallot(c)
    <3>1. cast'[c] \in {Finished(cast[c], "ELECTION_NOT_OPEN"), Finished(cast[c], "VOTE_ALREADY_CAST"),
                        Finished(cast[c], "counted")}
      BY <1>0, <2>5 DEF AbortNotOpen, AbortDuplicate, CommitBallot, Reply, TypeOK
    <3>2. QED
      BY <1>0, <1>1, <3>1, RowsKeepQuestion DEF Outcomes
  <2>6. ~\E a \in AccountIds, e \in ElectionIds, selections \in Submissions, t \in WorkerClock :
           Receive(c, a, e, selections, t)
    BY DEF Receive
  <2>7. \/ ResolveStudent(c) \/ ReadElection(c)
        \/ \E read \in {"link", "hash"} : ReadParticipation(c, read)
        \/ \E read \in {"candidates", "positions"} : ReadForm(c, read)
        \/ AbortNotOpen(c) \/ AbortDuplicate(c) \/ CommitBallot(c)
    BY <1>3, <2>6 DEF CastStep
  <2>8. QED
    BY <1>1, <2>1, <2>2, <2>3, <2>4, <2>5, <2>7
<1>4. ASSUME NEW d \in CastIds, CastStep(d), d # c PROVE cast'[c] = cast[c]
  BY <1>0, <1>4, CastStepKinds
<1>5. (\E d \in CastIds : CastStep(d)) \/ UNCHANGED cast
  BY DEF Next, ChangeElection, TransitionElection, LegacyVote, ChangeAccounts, AnonymizeVotes,
         RotateSecret, castVars, vars
<1>6. QED
  BY <1>1, <1>2, <1>3, <1>4, <1>5

\* An election is voting only because it was, or because it has just been opened, which
\* is counted; and the electorate is counted only then.
LEMMA OpeningsMove ==
  ASSUME IInv, [Next]_vars, NEW e \in ElectionIds
  PROVE  \/ openings'[e] > openings[e] /\ electorate'[e] = ActiveAccounts /\ UNCHANGED account
         \/ /\ openings'[e] = openings[e] /\ electorate'[e] = electorate[e]
            /\ election'[e].status = "open" => election[e].status = "open"
            /\ Live(e)' => Live(e)
<1> DEFINE Same == /\ openings'[e] = openings[e] /\ electorate'[e] = electorate[e]
                   /\ election'[e].status = "open" => election[e].status = "open"
                   /\ Live(e)' => Live(e)
           Opens == /\ openings'[e] > openings[e]
                    /\ electorate'[e] = ActiveAccounts /\ UNCHANGED account
<1>0. /\ election \in [ElectionIds -> Row] /\ ElectionsInv
      /\ openings \in [ElectionIds -> 0..MaxOpenings]
      /\ electorate \in [ElectionIds -> SUBSET AccountIds]
  BY DEF IInv, ElectionsInv, ElectionsTypeOK, TypeInv, TypeOK, ElectorateTypeOK
<1>1. ASSUME UNCHANGED <<election, openings>>, electorate'[e] = electorate[e], ~(Ended(e) /\ ~Ended(e)')
      PROVE  Same
  BY <1>1 DEF Live
<1>2. ASSUME UNCHANGED <<electionVars, electorate, openings>> PROVE Same
  BY <1>1, <1>2 DEF electionVars, Ended
<1>3. CASE Tick /\ UNCHANGED <<rosterVars, electorateVars, castVars, key, openings>>
  BY <1>0, <1>1, <1>3, TickKeepsEnded DEF Tick, electorateVars
<1>4. ASSUME NEW f \in ElectionIds, NEW to \in Statuses, NEW opens \in OpenTimes \union {Null},
             NEW closes \in CloseTimes \union {Null}, NEW t \in WorkerClock,
             TransitionElection(f, to, opens, closes, t)
      PROVE  Opens \/ Same
  <2>1. /\ Transition(f, to, opens, closes, t, FormComplete(f), HasBallots(f))
        /\ SnapshotElectorate(f, to)
        /\ openings' = [openings EXCEPT ![f] = IF to = "open" THEN @ + 1 ELSE @]
    BY <1>4 DEF TransitionElection
  <2>2. CASE f = e /\ to = "open"
    <3>1. openings'[e] = openings[e] + 1
      BY <1>0, <2>1, <2>2
    <3>2. electorate'[e] = ActiveAccounts /\ UNCHANGED account
      BY <1>0, <2>1, <2>2 DEF SnapshotElectorate
    <3>3. QED
      BY <1>0, <3>1, <3>2
  <2>3. CASE ~(f = e /\ to = "open")
    <3>1. openings'[e] = openings[e] /\ electorate'[e] = electorate[e]
      BY <1>0, <2>1, <2>3 DEF SnapshotElectorate
    <3>2. election'[e] = election[e] \/ election'[e].status # "open"
      <4>1. CASE f = e
        <5>1. election'[e].status = to
          BY <2>1, <4>1 DEF Transition
        <5>2. QED
          BY <2>3, <4>1, <5>1
      <4>2. CASE f # e
        <5>1. election'[e] = IF e \in Superseded(f, to) THEN [election[e] EXCEPT !.status = "closed"]
                             ELSE election[e]
          BY <2>1, <4>2 DEF Transition
        <5>2. QED
          BY <1>0, <5>1 DEF Row
      <4>3. QED
        BY <4>1, <4>2
    <3>3. UNCHANGED now
      BY <2>1 DEF Transition
    <3>4. QED
      BY <3>1, <3>2, <3>3 DEF Live, Ended
  <2>4. QED
    BY <2>2, <2>3
<1>5. ASSUME NEW f \in ElectionIds, EditElection(f), UNCHANGED <<electorateVars, openings>> PROVE Same
  <2>1. Ended(e) => Ended(e)'
    BY <1>0, <1>5, EditElectionKeepsEnded
  <2>2. election'[e].status = "open" => election[e].status = "open"
    <3>1. CASE election[e].status = "absent"
      <4>1. CASE \E opens \in OpenTimes \union {Null}, closes \in CloseTimes \union {Null} :
                   CreateElection(f, opens, closes)
        BY <1>0, <3>1, <4>1 DEF CreateElection
      <4>2. ASSUME NEW opens, NEW closes, UpdateMetadata(f, opens, closes)
            PROVE  election'[e].status = election[e].status
        BY <1>0, <4>2 DEF UpdateMetadata, Row
      <4>3. ASSUME NEW closes, NEW t, ExtendClosingTime(f, closes, t)
            PROVE  election'[e].status = election[e].status
        BY <1>0, <4>3 DEF ExtendClosingTime, Row
      <4>4. QED
        BY <1>5, <4>1, <4>2, <4>3 DEF EditElection
    <3>2. CASE election[e].status # "absent"
      BY <1>0, <1>5, <3>2, EditElectionStatus
    <3>3. QED
      BY <3>1, <3>2
  <2>3. QED
    BY <1>5, <2>1, <2>2 DEF Live, electorateVars
<1>6. ASSUME NEW f \in ElectionIds, ChangeElection(f) PROVE Opens \/ Same
  BY <1>2, <1>4, <1>5, <1>6 DEF ChangeElection, electorateVars
<1>7. ASSUME ~\E f \in ElectionIds : ChangeElection(f),
             ~(Tick /\ UNCHANGED <<rosterVars, electorateVars, castVars, key, openings>>)
      PROVE  UNCHANGED <<electionVars, electorate, openings>>
  <2>1. CASE ChangeAccounts
    BY <2>1, ManageAccountsMoves DEF ChangeAccounts, IInv
  <2>2. QED
    BY <1>7, <2>1 DEF Next, LegacyVote, CastStep, AnonymizeVotes, RotateSecret, vars, electorateVars
<1>8. QED
  BY <1>2, <1>3, <1>6, <1>7

\* They are numbers, before a step and after it.
LEMMA OpeningsStayNumbers ==
  ASSUME IInv, [Next]_vars, NEW e \in ElectionIds
  PROVE  openings'[e] \in Int
<1>1. openings \in [ElectionIds -> 0..MaxOpenings]
  BY DEF IInv, TypeInv, TypeOK
<1>2. ASSUME NEW f \in ElectionIds, ChangeElection(f) PROVE openings'[e] \in Int
  BY <1>1, <1>2, KeyAssumption DEF ChangeElection, TransitionElection
<1>3. ASSUME ~\E f \in ElectionIds : ChangeElection(f) PROVE openings'[e] \in Int
  BY <1>1, <1>3, KeyAssumption
     DEF Next, LegacyVote, ChangeAccounts, CastStep, AnonymizeVotes, RotateSecret, vars
<1>4. QED
  BY <1>2, <1>3

\* While an election is voting its electorate is frozen: an account that is active was
\* before, or a super administrator has registered it.
LEMMA ElectorateFrozen ==
  ASSUME IInv, [Next]_vars, Skew = 0, NEW e \in ElectionIds, Live(e), NEW a \in AccountIds,
         account'[a].state = "active"
  PROVE  account[a].state = "active" \/ account'[a].bySuperAdmin
<1>1. ASSUME NEW t \in WorkerClock, ElectorateMutable(t) PROVE FALSE
  <2>1. now \in Int /\ election[e] \in Row
    BY DEF IInv, ElectionsInv, ElectionsTypeOK
  <2>2. t = now
    BY <2>1 DEF WorkerClock
  <2>3. EffectiveStatus(election[e], now) = "closed"
    BY <1>1, <2>2 DEF ElectorateMutable, OpenElections, Live
  <2>4. now > election[e].closesAt
    BY <2>3 DEF EffectiveStatus, Live
  <2>5. QED
    BY <2>4 DEF Live, Ended
<1>2. account \in [AccountIds -> AccountRow]
  BY DEF IInv, TypeInv, TypeOK, ElectorateTypeOK
<1>3. CASE ChangeAccounts
  <2>1. PICK b \in AccountIds, t \in WorkerClock :
          \/ \E s \in StudentIds, bySuperAdmin \in BOOLEAN : CreateAccount(b, s, bySuperAdmin, t)
          \/ SoftDelete(b, t)
          \/ Restore(b, t)
          \/ HardDelete(b, t)
    BY <1>3 DEF ChangeAccounts, ManageAccounts
  <2>2. PICK s \in StudentIds, bySuperAdmin \in BOOLEAN : CreateAccount(b, s, bySuperAdmin, t)
    BY <1>1, <2>1 DEF SoftDelete, Restore, HardDelete
  <2> DEFINE row == [state |-> "active", student |-> s, bySuperAdmin |-> bySuperAdmin]
  <2>3. bySuperAdmin = TRUE /\ row.bySuperAdmin = bySuperAdmin /\ account' = [account EXCEPT ![b] = row]
    BY <1>1, <2>2 DEF CreateAccount
  <2> HIDE DEF row
  <2>4. QED
    BY <1>2, <2>3
<1>4. CASE ~ChangeAccounts
  <2>1. UNCHANGED account
    BY <1>4, CastStepKinds DEF Next, Tick, ChangeElection, TransitionElection, SnapshotElectorate,
       LegacyVote, CastStep, AnonymizeVotes, RotateSecret, vars, electorateVars
  <2>2. QED
    BY <2>1
<1>5. QED
  BY <1>3, <1>4

\* Who registered an account is not rewritten.
LEMMA OriginKept ==
  ASSUME IInv, [Next]_vars, NEW a \in AccountIds, account[a].state # "unborn"
  PROVE  account'[a].bySuperAdmin = account[a].bySuperAdmin
<1>1. account \in [AccountIds -> AccountRow]
  BY DEF IInv, TypeInv, TypeOK, ElectorateTypeOK
<1>2. CASE ChangeAccounts
  <2> PICK b \in AccountIds, t \in WorkerClock :
        \/ \E s \in StudentIds, bySuperAdmin \in BOOLEAN : CreateAccount(b, s, bySuperAdmin, t)
        \/ SoftDelete(b, t)
        \/ Restore(b, t)
        \/ HardDelete(b, t)
    BY <1>2 DEF ChangeAccounts, ManageAccounts
  <2>1. ASSUME NEW s \in StudentIds, NEW bySuperAdmin \in BOOLEAN, CreateAccount(b, s, bySuperAdmin, t)
        PROVE  account'[a] = account[a]
    BY <1>1, <2>1 DEF CreateAccount
  <2>2. ASSUME NEW state, account' = [account EXCEPT ![b].state = state]
        PROVE  account'[a].bySuperAdmin = account[a].bySuperAdmin
    BY <1>1, <2>2 DEF AccountRow
  <2>3. QED
    BY <2>1, <2>2 DEF SoftDelete, Restore, HardDelete
<1>3. CASE ~ChangeAccounts
  BY <1>3 DEF Next, Tick, ChangeElection, TransitionElection, SnapshotElectorate,
       LegacyVote, CastStep, AnonymizeVotes, RotateSecret, vars, electorateVars
<1>4. QED
  BY <1>2, <1>3

\* A request arrives from an active account, at the present opening.
LEMMA Arrival ==
  ASSUME IInv, [Next]_vars, NEW c \in CastIds, cast[c].phase = "idle", cast'[c].phase # "idle"
  PROVE  /\ UNCHANGED <<electionVars, rosterVars, electorateVars, openings>>
         /\ cast'[c].phase = "received"
         /\ cast'[c].account \in AccountIds /\ account[cast'[c].account].state = "active"
         /\ cast'[c].election \in ElectionIds /\ cast'[c].opening = openings[cast'[c].election]
<1>1. cast \in [CastIds -> CastRow]
  BY DEF IInv, TypeInv, TypeOK
<1>2. PICK d \in CastIds : CastStep(d)
  BY DEF Next, ChangeElection, TransitionElection, LegacyVote, ChangeAccounts, AnonymizeVotes,
         RotateSecret, castVars, vars
<1>3. d = c
  BY <1>2, CastStepKinds DEF IInv
<1>4. PICK a \in AccountIds, e \in ElectionIds, selections \in Submissions, t \in WorkerClock :
        Receive(c, a, e, selections, t)
  BY <1>2, <1>3 DEF CastStep, ResolveStudent, ReadElection, ReadParticipation, ReadForm, AbortNotOpen,
                    AbortDuplicate, CommitBallot
<1>5. /\ cast'[c].phase = "received" /\ cast'[c].account = a /\ cast'[c].election = e
      /\ cast'[c].opening = openings[e] /\ account[a].state = "active"
  BY <1>1, <1>4 DEF Receive
<1>6. QED
  BY <1>2, <1>5 DEF CastStep

\* A ballot is in the box because it was, or by a batch, which is inside the window.
LEMMA BallotArrival ==
  ASSUME IInv, [Next]_vars, NEW e \in ElectionIds, NEW c \in votes'[e], c \notin votes[e]
  PROVE  /\ UNCHANGED <<electionVars, rosterVars, electorateVars, openings>>
         /\ c \in CastIds /\ cast[c].phase = "ready" /\ cast[c].election = e /\ Live(e)
<1>1. votes \in [ElectionIds -> SUBSET CastIds]
  BY DEF IInv, TypeInv, TypeOK
<1>2. PICK d \in CastIds : CastStep(d) /\ CommitBallot(d)
  BY BallotsMove DEF LegacyVote, ballotVars
<1>3. votes' = [votes EXCEPT ![cast[d].election] = @ \union {d}] /\ InWindow(cast[d].election)
  BY <1>2 DEF CommitBallot
<1>4. cast[d].phase = "ready"
  BY <1>2 DEF CommitBallot
<1>5. cast[d].election = e /\ d = c
  BY <1>1, <1>3
<1>6. Live(e)
  BY <1>3, <1>5, WindowIsOpen DEF Live
<1>7. QED
  BY <1>2, <1>4, <1>5, <1>6 DEF CastStep

\* A request that is not new was there before, as fresh or fresher.
LEMMA FreshBefore ==
  ASSUME IInv, [Next]_vars, OpeningsGrow, NEW c \in CastIds, cast[c].phase # "idle"
  PROVE  /\ cast[c].election \in ElectionIds
         /\ cast'[c].opening <= openings'[cast'[c].election]
         /\ Fresh(c)' => /\ Fresh(c) /\ openings'[cast[c].election] = openings[cast[c].election]
                         /\ electorate'[cast[c].election] = electorate[cast[c].election]
                         /\ election'[cast[c].election].status = "open"
                              => election[cast[c].election].status = "open"
                         /\ Live(cast[c].election)' => Live(cast[c].election)
<1>1. cast[c].election \in ElectionIds
  BY KnownStudent DEF IInv
<1> PICK e \in ElectionIds : e = cast[c].election
  BY <1>1
<1>2. /\ cast'[c].phase # "idle" /\ cast'[c].election = e /\ cast'[c].opening = cast[c].opening
  BY QuestionKept DEF SameQuestion
<1>3. cast[c].opening <= openings[e] /\ cast[c].opening \in Int /\ openings[e] \in Int /\ openings'[e] \in Int
  <2>1. cast[c].opening \in Int /\ openings[e] \in Int
    BY KeyAssumption DEF IInv, TypeInv, TypeOK, CastRow
  <2>2. openings'[e] \in Int
    BY <2>1, OpeningsStayNumbers
  <2>3. QED
    BY <2>1, <2>2 DEF OpeningsGrow
<1>4. \/ openings'[e] > openings[e]
      \/ /\ openings'[e] = openings[e] /\ electorate'[e] = electorate[e]
         /\ election'[e].status = "open" => election[e].status = "open"
         /\ Live(e)' => Live(e)
  BY OpeningsMove
<1>5. cast'[c].opening <= openings'[e]
  BY <1>2, <1>3, <1>4
<1>6. ASSUME Fresh(c)'
      PROVE  /\ Fresh(c) /\ openings'[e] = openings[e] /\ electorate'[e] = electorate[e]
             /\ election'[e].status = "open" => election[e].status = "open"
             /\ Live(e)' => Live(e)
  <2>1. cast[c].opening = openings'[e]
    BY <1>2, <1>6 DEF Fresh
  <2>2. ~(openings'[e] > openings[e])
    BY <1>3, <2>1
  <2>3. QED
    BY <1>4, <2>1, <2>2 DEF Fresh
<1>7. QED
  BY <1>1, <1>2, <1>5, <1>6 DEF Live, Ended

-----------------------------------------------------------------------------
(* The electorate. *)

\* Whoever might vote now may.
ActiveEligible ==
  \A e \in ElectionIds, a \in AccountIds :
    Live(e) /\ account[a].state = "active" => Eligible(a, e)

\* Whoever has asked to vote at this opening might.
RequestsEligible ==
  \A c \in CastIds :
    Fresh(c) /\ Live(cast[c].election) => Eligible(cast[c].account, cast[c].election)

ElectorateInv == OpeningsGrow /\ ActiveEligible /\ RequestsEligible /\ OnlyElectorateVotes

\* Openings are counted in order.
LEMMA OpeningsGrowKept ==
  ASSUME IInv, [Next]_vars, OpeningsGrow
  PROVE  OpeningsGrow'
<1> SUFFICES ASSUME NEW c \in CastIds, cast'[c].phase # "idle"
             PROVE  cast'[c].opening <= openings'[cast'[c].election]
  BY DEF OpeningsGrow
<1>1. CASE cast[c].phase = "idle"
  <2>1. cast'[c].opening = openings'[cast'[c].election] /\ cast'[c].election \in ElectionIds /\ UNCHANGED openings
    BY <1>1, Arrival
  <2>2. \A e \in ElectionIds : openings[e] \in Int
    BY KeyAssumption DEF IInv, TypeInv, TypeOK
  <2>3. QED
    BY <2>1, <2>2
<1>2. QED
  BY <1>1, FreshBefore

\* Every step keeps the electorate's part of the invariant.
LEMMA ElectorateKept ==
  ASSUME IInv, [Next]_vars, Skew = 0, ElectorateInv
  PROVE  ElectorateInv'
<1>1. OpeningsGrow'
  BY OpeningsGrowKept DEF ElectorateInv
<1>2. ActiveEligible'
  <2> SUFFICES ASSUME NEW e \in ElectionIds, NEW a \in AccountIds, Live(e)', account'[a].state = "active"
               PROVE  Eligible(a, e)'
    BY DEF ActiveEligible
  <2>1. CASE openings'[e] > openings[e] /\ electorate'[e] = ActiveAccounts /\ UNCHANGED account
    BY <2>1 DEF Eligible, ActiveAccounts
  <2>2. CASE Live(e) /\ electorate'[e] = electorate[e]
    <3>1. account[a].state = "active" \/ account'[a].bySuperAdmin
      BY <2>2, ElectorateFrozen
    <3>2. ASSUME account[a].state = "active" PROVE Eligible(a, e)'
      <4>1. Eligible(a, e)
        BY <2>2, <3>2 DEF ElectorateInv, ActiveEligible
      <4>2. account'[a].bySuperAdmin = account[a].bySuperAdmin
        BY <3>2, OriginKept
      <4>3. QED
        BY <2>2, <4>1, <4>2 DEF Eligible
    <3>3. QED
      BY <3>1, <3>2 DEF Eligible
  <2>3. QED
    BY <2>1, <2>2, OpeningsMove
<1>3. ASSUME NEW c \in CastIds, cast[c].phase # "idle", Fresh(c)', Eligible(cast[c].account, cast[c].election)
      PROVE  Eligible(cast[c].account, cast[c].election)'
  <2>1. cast[c].account \in AccountIds /\ account[cast[c].account].state # "unborn"
    BY <1>3, KnownStudent DEF IInv
  <2> PICK a \in AccountIds, e \in ElectionIds : a = cast[c].account /\ e = cast[c].election
    BY <1>3, <2>1, FreshBefore DEF ElectorateInv
  <2>2. account'[a].bySuperAdmin = account[a].bySuperAdmin
    BY <2>1, OriginKept
  <2>3. electorate'[e] = electorate[e]
    BY <1>3, FreshBefore DEF ElectorateInv
  <2>4. cast'[c].account = a /\ cast'[c].election = e
    BY <1>3, QuestionKept DEF SameQuestion
  <2>5. QED
    BY <1>3, <2>2, <2>3, <2>4 DEF Eligible
<1>4. RequestsEligible'
  <2> SUFFICES ASSUME NEW c \in CastIds, Fresh(c)', Live(cast[c].election)'
               PROVE  Eligible(cast[c].account, cast[c].election)'
    BY DEF RequestsEligible
  <2>1. CASE cast[c].phase = "idle"
    <3>1. /\ UNCHANGED <<electionVars, electorateVars>>
          /\ cast'[c].account \in AccountIds /\ account[cast'[c].account].state = "active"
          /\ cast'[c].election \in ElectionIds
      BY <2>1, Arrival DEF Fresh
    <3> PICK a \in AccountIds, e \in ElectionIds : a = cast'[c].account /\ e = cast'[c].election
      BY <3>1
    <3>2. Live(e)
      BY <3>1 DEF Live, Ended, electionVars
    <3>3. Eligible(a, e)
      BY <3>1, <3>2 DEF ElectorateInv, ActiveEligible
    <3>4. QED
      BY <3>1, <3>3 DEF Eligible, electorateVars
  <2>2. CASE cast[c].phase # "idle"
    <3>1. cast'[c].election = cast[c].election
      BY <2>2, QuestionKept DEF SameQuestion
    <3>2. Fresh(c) /\ Live(cast[c].election)
      BY <2>2, <3>1, FreshBefore DEF ElectorateInv, Live, Ended
    <3>3. QED
      BY <1>3, <2>2, <3>2 DEF ElectorateInv, RequestsEligible
  <2>3. QED
    BY <2>1, <2>2
<1>5. OnlyElectorateVotes'
  <2> SUFFICES ASSUME NEW e \in ElectionIds, NEW c \in votes'[e], cast'[c].opening = openings'[e]
               PROVE  Eligible(cast[c].account, e)'
    BY DEF OnlyElectorateVotes, Eligible
  <2>1. c \in CastIds /\ cast[c].phase # "idle" /\ cast[c].election = e
    BY BallotArrival DEF IInv, TypeInv, TypeOK, ParticipationInv, BallotsRecorded
  <2>2. cast'[c].phase # "idle" /\ cast'[c].election = e
    BY <2>1, QuestionKept DEF SameQuestion
  <2>3. Fresh(c)' /\ Fresh(c)
    BY <2>1, <2>2, FreshBefore DEF ElectorateInv, Fresh
  <2>4. Eligible(cast[c].account, e)
    <3>1. CASE c \in votes[e]
      BY <2>1, <2>3, <3>1 DEF ElectorateInv, OnlyElectorateVotes, Eligible, Fresh
    <3>2. CASE c \notin votes[e]
      BY <2>1, <2>3, <3>2, BallotArrival DEF ElectorateInv, RequestsEligible
    <3>3. QED
      BY <3>1, <3>2
  <2>5. QED
    BY <1>3, <2>1, <2>2, <2>3, <2>4 DEF Eligible
<1>6. QED
  BY <1>1, <1>2, <1>4, <1>5 DEF ElectorateInv

\* While the clocks agree, who votes was counted when the election opened, or a super
\* administrator has registered them since (assertElectorateMutable).
THEOREM OnlyElectorateCorrect ==
  ASSUME ~RotateInFlight, Skew = 0
  PROVE  Spec => []OnlyElectorateVotes
<1>1. Init => ElectorateInv
  BY DEF Init, ElectionsInit, NoRow, NoCast, ElectorateInv, OpeningsGrow, ActiveEligible, RequestsEligible,
         OnlyElectorateVotes, Live, Fresh
<1>2. Spec => []IInv
  BY VotingInvariant
<1>3. IInv /\ ElectorateInv /\ [Next]_vars => ElectorateInv'
  BY ElectorateKept
<1>4. ElectorateInv => OnlyElectorateVotes
  BY DEF ElectorateInv
<1>5. QED
  BY <1>1, <1>2, <1>3, <1>4, PTL DEF Spec

-----------------------------------------------------------------------------
(* The form a ballot was filled in on. *)

Fits(c, e) == ValidBallot(cast[c].selections, UNION {ActiveFor(p) : p \in PositionIds}, ListByElection(e))

\* A candidate the request saw stand still stands, if it is on this form at all.
Stands(k, e) ==
  /\ candidate[k].state # "unborn"
  /\ candidate[k].position \in ListByElection(e) => candidate[k].state = "active"

ReadsAgree(c, e) ==
  /\ cast[c].phase = "unvoted" =>
       /\ "candidates" \notin cast[c].pending => \A k \in cast[c].active : Stands(k, e)
       /\ "positions" \notin cast[c].pending => cast[c].listed = ListByElection(e)
  /\ cast[c].phase = "ready" => Fits(c, e)

\* What a request has read of the form is what the form is.
FormReadsAgree ==
  \A c \in CastIds :
    Fresh(c) /\ election[cast[c].election].status = "open" => ReadsAgree(c, cast[c].election)

FormInv == OpeningsGrow /\ FormReadsAgree /\ BallotsFitForm

\* A candidate stands for one position.
LEMMA CandidatesKeepPosition ==
  ASSUME IInv, [Next]_vars, NEW k \in CandidateIds, candidate[k].state # "unborn"
  PROVE  candidate'[k].state # "unborn" /\ candidate'[k].position = candidate[k].position
<1> DEFINE Keeps == candidate'[k].state # "unborn" /\ candidate'[k].position = candidate[k].position
<1>1. candidate \in [CandidateIds -> CandidateRow]
  BY DEF IInv, TypeInv, TypeOK, RosterTypeOK
<1>2. ASSUME NEW f \in ElectionIds, EditRoster(f) PROVE Keeps
  <2>1. ASSUME NEW p, NEW j \in CandidateIds, CreateCandidate(j, p, f) PROVE Keeps
    BY <1>1, <2>1 DEF CreateCandidate
  <2>2. ASSUME NEW p, NEW j \in CandidateIds, DeactivateCandidate(j, p, f) PROVE Keeps
    BY <1>1, <2>2 DEF DeactivateCandidate, CandidateRow
  <2>3. QED
    BY <1>2, <2>1, <2>2 DEF EditRoster, CreatePosition, DeletePosition
<1>3. ASSUME NEW f \in ElectionIds, ChangeElection(f) PROVE Keeps
  BY <1>2, <1>3 DEF ChangeElection, TransitionElection, rosterVars
<1>4. ASSUME ~\E f \in ElectionIds : ChangeElection(f) PROVE UNCHANGED candidate
  BY <1>4 DEF Next, LegacyVote, ChangeAccounts, CastStep, AnonymizeVotes, RotateSecret, vars, rosterVars
<1>5. QED
  BY <1>3, <1>4

\* A candidate who stands goes on standing.
LEMMA StandsKept ==
  ASSUME IInv, [Next]_vars, NEW e \in ElectionIds, ~IsElectionEditable(e),
         NEW k \in CandidateIds, Stands(k, e)
  PROVE  Stands(k, e)'
<1>1. candidate'[k].state # "unborn" /\ candidate'[k].position = candidate[k].position
  BY CandidatesKeepPosition DEF Stands
<1>2. ListByElection(e)' = ListByElection(e)
  BY FormStays
<1>3. ASSUME candidate'[k].position \in ListByElection(e)' PROVE candidate'[k].state = "active"
  <2> PICK p \in PositionIds : p = candidate[k].position /\ p \in ListByElection(e)
    BY <1>1, <1>2, <1>3 DEF ListByElection
  <2>1. candidate[k].state = "active" /\ candidate[k] \in CandidateRow
    BY DEF Stands, IInv, TypeInv, TypeOK, RosterTypeOK
  <2>2. candidate[k] = [state |-> "active", position |-> p]
    BY <2>1 DEF CandidateRow
  <2>3. k \in ActiveFor(p)'
    BY <2>2, FormStays DEF ActiveFor
  <2>4. QED
    BY <2>3 DEF ActiveFor
<1>4. QED
  BY <1>1, <1>3 DEF Stands

\* A ballot that fits goes on fitting.
LEMMA FitsKept ==
  ASSUME IInv, [Next]_vars, NEW e \in ElectionIds, ~IsElectionEditable(e),
         NEW c \in CastIds, Fits(c, e), cast'[c].selections = cast[c].selections
  PROVE  Fits(c, e)'
<1> DEFINE selections == cast[c].selections
<1>1. ListByElection(e)' = ListByElection(e)
  BY FormStays
<1>2. /\ \A s \in selections : /\ s.candidate \in UNION {ActiveFor(p) : p \in PositionIds}
                               /\ candidate[s.candidate].position = s.position
      /\ \A s, r \in selections : s.position = r.position => s = r
      /\ {s.position : s \in selections} = ListByElection(e)
  BY DEF Fits, ValidBallot
<1>3. ASSUME NEW s \in selections
      PROVE  /\ s.candidate \in UNION {ActiveFor(p) : p \in PositionIds}'
             /\ candidate'[s.candidate].position = s.position
  <2>1. PICK p \in PositionIds : s.candidate \in ActiveFor(p)
    BY <1>2
  <2>2. candidate[s.candidate].position = p
    BY <2>1 DEF ActiveFor
  <2>3. p \in ListByElection(e)
    BY <1>2, <2>2
  <2>4. s.candidate \in ActiveFor(p)'
    BY <2>1, <2>3, FormStays
  <2>5. QED
    BY <1>2, <2>2, <2>4 DEF ActiveFor
<1>4. QED
  BY <1>1, <1>2, <1>3 DEF Fits, ValidBallot

\* What a request reads of the form agrees with the form, and what passes its checks fits.
LEMMA ReadFormAgrees ==
  ASSUME IInv, [Next]_vars, NEW c \in CastIds, NEW e \in ElectionIds, e = cast[c].election,
         CastStep(c), NEW read \in {"candidates", "positions"}, ReadForm(c, read), ReadsAgree(c, e)
  PROVE  ReadsAgree(c, e)'
<1> DEFINE row == ShownForm(c, read)
           seen == {s.candidate : s \in cast[c].selections}
                     \intersect {k \in CandidateIds : candidate[k].state = "active"}
<1>1. /\ cast \in [CastIds -> CastRow] /\ cast[c] \in CastRow /\ TypeOK
      /\ candidate \in [CandidateIds -> CandidateRow]
  BY DEF IInv, TypeInv, TypeOK, RosterTypeOK
<1>2. cast[c].phase = "unvoted" /\ read \in cast[c].pending /\ UNCHANGED rosterVars /\ read \in Reads
  BY DEF ReadForm, CastStep, Reads
<1>3. /\ row.pending = cast[c].pending \ {read} /\ row.selections = cast[c].selections
      /\ row.phase = "unvoted" /\ row \in CastRow
      /\ row.active = IF read = "candidates" THEN seen ELSE cast[c].active
      /\ row.listed = IF read = "positions" THEN ListByElection(e) ELSE cast[c].listed
  <2>1. row \in CastRow /\ row.phase = "unvoted"
    BY <1>1, <1>2, ShownFormRow
  <2>2. SameQuestion(cast[c], row)
    BY <1>1, <1>2, RowsKeepQuestion
  <2>3. CASE read = "candidates"
    <3>1. row = [cast[c] EXCEPT !.pending = @ \ {read}, !.active = seen]
      BY <2>3 DEF ShownForm
    <3> HIDE DEF row, seen
    <3>2. QED
      BY <1>1, <2>1, <2>2, <2>3, <3>1 DEF CastRow, SameQuestion
  <2>4. CASE read = "positions"
    <3>1. row = [cast[c] EXCEPT !.pending = @ \ {read}, !.listed = ListByElection(e)]
      BY <2>4 DEF ShownForm
    <3> HIDE DEF row, seen
    <3>2. QED
      BY <1>1, <2>1, <2>2, <2>4, <3>1 DEF CastRow, SameQuestion
  <2>5. QED
    BY <2>3, <2>4
<1>4. cast'[c] = IF row.pending # {} THEN row
                 ELSE IF ValidBallot(row.selections, row.active, row.listed) THEN Finished(row, "ready")
                 ELSE Finished(row, "BALLOT_REFUSED")
  BY <1>1 DEF ReadForm
<1>5. /\ \A k \in seen : Stands(k, e)
      /\ "candidates" \notin cast[c].pending => \A k \in cast[c].active : Stands(k, e)
      /\ "positions" \notin cast[c].pending => cast[c].listed = ListByElection(e)
  BY <1>2 DEF ReadsAgree, Stands
<1> HIDE DEF row, seen
<1>6. /\ "candidates" \notin row.pending => \A k \in row.active : Stands(k, e)
      /\ "positions" \notin row.pending => row.listed = ListByElection(e)
  BY <1>3, <1>5
<1>7. /\ ListByElection(e)' = ListByElection(e)
      /\ \A k \in CandidateIds : Stands(k, e)' = Stands(k, e)
      /\ \A p \in PositionIds : ActiveFor(p)' = ActiveFor(p)
  BY <1>2 DEF rosterVars, ListByElection, ActiveFor, Stands
<1>8. CASE cast'[c] = row
  <2>1. row.active \subseteq CandidateIds
    BY <1>3 DEF CastRow
  <2>2. QED
    BY <1>3, <1>6, <1>7, <1>8, <2>1 DEF ReadsAgree
<1>9. CASE row.pending = {} /\ ValidBallot(row.selections, row.active, row.listed)
  <2>1. cast'[c].phase = "ready" /\ cast'[c].selections = row.selections
    BY <1>3, <1>4, <1>9, FinishedRow
  <2>2. /\ row.listed = ListByElection(e) /\ \A k \in row.active : Stands(k, e)
        /\ \A s \in row.selections : s.candidate \in row.active /\ candidate[s.candidate].position = s.position
        /\ \A s, r \in row.selections : s.position = r.position => s = r
        /\ {s.position : s \in row.selections} = row.listed
        /\ row.active \subseteq CandidateIds
    BY <1>3, <1>6, <1>9 DEF ValidBallot, CastRow
  <2>3. ASSUME NEW s \in row.selections PROVE s.candidate \in UNION {ActiveFor(p) : p \in PositionIds}
    <3>1. s.position \in ListByElection(e) /\ Stands(s.candidate, e) /\ s.candidate \in CandidateIds
      BY <2>2
    <3>2. /\ candidate[s.candidate] \in CandidateRow /\ candidate[s.candidate].state = "active"
          /\ candidate[s.candidate].position = s.position /\ s.position \in PositionIds
      BY <1>1, <2>2, <3>1 DEF Stands, ListByElection
    <3>3. candidate[s.candidate] = [state |-> "active", position |-> s.position]
      BY <3>2 DEF CandidateRow
    <3>4. QED
      BY <3>1, <3>2, <3>3 DEF ActiveFor
  <2>4. UNCHANGED candidate
    BY <1>2 DEF rosterVars
  <2>5. Fits(c, e)'
    BY <1>7, <2>1, <2>2, <2>3, <2>4 DEF Fits, ValidBallot
  <2>6. QED
    BY <2>1, <2>5 DEF ReadsAgree
<1>10. CASE cast'[c] = Finished(row, "BALLOT_REFUSED")
  <2>1. cast'[c].phase = "BALLOT_REFUSED"
    BY <1>3, <1>10, FinishedRow DEF Outcomes
  <2>2. QED
    BY <2>1 DEF ReadsAgree
<1>11. QED
  BY <1>4, <1>8, <1>9, <1>10

\* No other step of a request changes what it has read, except to forget it.
LEMMA OtherStepsAgree ==
  ASSUME IInv, NEW c \in CastIds, CastStep(c),
         ~\E read \in {"candidates", "positions"} : ReadForm(c, read), NEW e \in ElectionIds
  PROVE  ReadsAgree(c, e)'
<1>0. cast[c] \in CastRow /\ cast \in [CastIds -> CastRow] /\ TypeOK /\ TypeInv
  BY DEF IInv, TypeInv, TypeOK
<1>1. SUFFICES \/ cast'[c].phase \notin {"unvoted", "ready"}
               \/ cast'[c].phase = "unvoted" /\ cast'[c].pending = {"candidates", "positions"}
  BY DEF ReadsAgree
<1>2. ASSUME NEW a \in AccountIds, NEW f \in ElectionIds, NEW selections \in Submissions,
             NEW t \in WorkerClock, Receive(c, a, f, selections, t)
      PROVE  cast'[c].phase = "received"
  BY <1>0, <1>2, ReceiveIsRequestStep
<1>3. CASE ResolveStudent(c)
  BY <1>0, <1>3, ResolveStudentStep
<1>4. CASE ReadElection(c)
  BY <1>0, <1>4, ReadElectionStep
<1>5. ASSUME NEW read \in {"link", "hash"}, ReadParticipation(c, read)
      PROVE  \/ cast'[c].phase \notin {"unvoted", "ready"}
             \/ cast'[c].phase = "unvoted" /\ cast'[c].pending = {"candidates", "positions"}
  <2> DEFINE row == Informed(c, read)
  <2>1. read \in Reads /\ {"candidates", "positions"} \in SUBSET Reads
    BY DEF Reads
  <2>2. row \in CastRow /\ row.phase = "admitted"
    BY <1>0, <1>5, <2>1, InformedRow DEF ReadParticipation
  <2>3. cast'[c] \in {row, Finished(row, "VOTE_ALREADY_CAST"), Finished(row, "BALLOT_REFUSED"),
                      Await(row, "unvoted", {"candidates", "positions"})}
    BY <1>0, <1>5 DEF ReadParticipation
  <2> HIDE DEF row
  <2>4. QED
    BY <2>1, <2>2, <2>3, FinishedRow, AwaitRow DEF Outcomes, Phases
<1>6. CASE AbortNotOpen(c) \/ AbortDuplicate(c)
  BY <1>0, <1>6, AbortStep
<1>7. CASE CommitBallot(c)
  BY <1>0, <1>7, CommitStep
<1>8. QED
  BY <1>2, <1>3, <1>4, <1>5, <1>6, <1>7 DEF CastStep

\* The reads of the form, at different moments, still agree.
LEMMA FormReadsKept ==
  ASSUME IInv, [Next]_vars, OpeningsGrow, FormReadsAgree
  PROVE  FormReadsAgree'
<1> SUFFICES ASSUME NEW c \in CastIds, Fresh(c)', (election[cast[c].election].status = "open")'
             PROVE  ReadsAgree(c, cast[c].election)'
  BY DEF FormReadsAgree
<1>1. CASE cast[c].phase = "idle"
  <2>1. cast'[c].phase = "received"
    BY <1>1, Arrival DEF Fresh
  <2>2. QED
    BY <2>1 DEF ReadsAgree
<1>2. CASE cast[c].phase # "idle"
  <2> PICK e \in ElectionIds : e = cast[c].election
    BY <1>2, FreshBefore
  <2>1. SameQuestion(cast[c], cast'[c]) /\ cast'[c].election = e
    BY <1>2, QuestionKept DEF SameQuestion
  <2>2. Fresh(c) /\ election[e].status = "open"
    BY <1>2, <2>1, FreshBefore
  <2>3. ReadsAgree(c, e) /\ ~IsElectionEditable(e)
    BY <2>2 DEF FormReadsAgree, IsElectionEditable
  <2>4. CASE cast'[c] = cast[c]
    <3>1. ListByElection(e)' = ListByElection(e)
      BY <2>3, FormStays
    <3>2. \A k \in cast[c].active : Stands(k, e) => Stands(k, e)'
      <4>1. cast[c].active \subseteq CandidateIds
        BY DEF IInv, TypeInv, TypeOK, CastRow
      <4>2. QED
        BY <2>3, <4>1, StandsKept
    <3>3. Fits(c, e) => Fits(c, e)'
      BY <2>1, <2>3, FitsKept DEF SameQuestion
    <3>4. ReadsAgree(c, e)'
      BY <2>3, <2>4, <3>1, <3>2, <3>3 DEF ReadsAgree
    <3>5. QED
      BY <2>1, <3>4 DEF ReadsAgree, Fits, Stands
  <2>5. CASE CastStep(c)
    <3>1. ReadsAgree(c, e)'
      BY <2>3, <2>5, ReadFormAgrees, OtherStepsAgree
    <3>2. QED
      BY <2>1, <3>1 DEF ReadsAgree, Fits, Stands
  <2>6. ASSUME NEW d \in CastIds, CastStep(d), d # c PROVE cast'[c] = cast[c]
    BY <2>6, CastStepKinds DEF IInv
  <2>7. (\E d \in CastIds : CastStep(d)) \/ UNCHANGED cast
    BY DEF Next, ChangeElection, TransitionElection, LegacyVote, ChangeAccounts, AnonymizeVotes,
           RotateSecret, castVars, vars
  <2>8. QED
    BY <2>4, <2>5, <2>6, <2>7
<1>3. QED
  BY <1>1, <1>2

\* And so do the ballots that were cast.
LEMMA BallotsFitKept ==
  ASSUME IInv, [Next]_vars, FormInv
  PROVE  BallotsFitForm'
<1> SUFFICES ASSUME NEW e \in ElectionIds, NEW c \in votes'[e], cast'[c].opening = openings'[e]
             PROVE  /\ Fits(c, e)'
                    /\ \A p \in ListByElection(e)' : \E s \in cast'[c].selections : s.position = p
  BY DEF BallotsFitForm, Fits
<1>1. c \in CastIds /\ cast[c].phase # "idle" /\ cast[c].election = e
  BY BallotArrival DEF IInv, TypeInv, TypeOK, ParticipationInv, BallotsRecorded
<1>2. cast'[c].phase # "idle" /\ cast'[c].election = e /\ SameQuestion(cast[c], cast'[c])
  BY <1>1, QuestionKept DEF SameQuestion
<1>3. Fresh(c) /\ cast[c].opening = openings[e]
  BY <1>1, <1>2, FreshBefore DEF FormInv, Fresh
<1>4. Fits(c, e) /\ ~IsElectionEditable(e)
  <2>1. CASE c \in votes[e]
    <3>1. HasBallots(e)
      BY <2>1 DEF HasBallots
    <3>2. QED
      BY <1>3, <2>1, <3>1 DEF FormInv, BallotsFitForm, Fits, IsElectionEditable, IInv, ParticipationInv,
                              BallotsHoldElection
  <2>2. CASE c \notin votes[e]
    <3>1. cast[c].phase = "ready" /\ election[e].status = "open"
      BY <2>2, BallotArrival DEF Live
    <3>2. QED
      BY <1>1, <1>3, <3>1 DEF FormInv, FormReadsAgree, ReadsAgree, IsElectionEditable
  <2>3. QED
    BY <2>1, <2>2
<1>5. Fits(c, e)'
  BY <1>1, <1>2, <1>4, FitsKept DEF SameQuestion
<1>6. QED
  BY <1>5 DEF Fits, ValidBallot

\* A ballot answers its form, position by position, with candidates who stand: the
\* checks of DrizzleBallotCaster.cast are made on reads that may be of different
\* moments, and nothing between them and the batch can make them wrong.
THEOREM BallotsFitCorrect ==
  ASSUME ~RotateInFlight, LegacyBallots => Skew = 0
  PROVE  Spec => []BallotsFitForm
<1>1. Init => FormInv
  BY DEF Init, NoCast, FormInv, OpeningsGrow, FormReadsAgree, BallotsFitForm, Fresh
<1>2. Spec => []IInv
  BY VotingInvariant
<1>3. IInv /\ FormInv /\ [Next]_vars => FormInv'
  BY OpeningsGrowKept, FormReadsKept, BallotsFitKept DEF FormInv
<1>4. FormInv => BallotsFitForm
  BY DEF FormInv
<1>5. QED
  BY <1>1, <1>2, <1>3, <1>4, PTL DEF Spec

-----------------------------------------------------------------------------
(* The turnout is the number of ballots. *)

VotersByHash(e) == VotersByCast(e) \union {account[a].student : a \in LegacyVoters(e, {"anonymised"})}

\* A student has at most one hash, and it stands for a ballot that names nobody.
HashesExact ==
  \A e \in ElectionIds :
    /\ \A h \in participation[e] : h[2] \in VotersByHash(e)
    /\ \A h, g \in participation[e] : h[2] = g[2] => h = g

BallotsFinite ==
  \A e \in ElectionIds :
    /\ snapshots[e] = votes[e] /\ IsFiniteSet(votes[e])
    /\ IsFiniteSet(LegacyVoters(e, LegacyStates \ {"none"}))

TurnoutInv == HashesExact /\ BallotsFinite

\* What has been anonymised stays so, and so do the ballots.
LEMMA CountedRemain ==
  ASSUME IInv, [Next]_vars, NEW e \in ElectionIds
  PROVE  VotersByHash(e) \subseteq VotersByHash(e)'
<1>1. ASSUME NEW a \in AccountIds, legacy[e][a] = "anonymised"
      PROVE  legacy'[e][a] = "anonymised" /\ account'[a].student = account[a].student
  <2>1. account'[a].student = account[a].student
    BY <1>1, BallotsRemain DEF StudentsRemain, IInv, TypeInv, AccountsKnown
  <2>2. CASE ChangeAccounts \/ AnonymizeVotes
    <3>1. \/ legacy'[e][a] = legacy[e][a]
          \/ legacy[e][a] = "linked"
      BY <2>2 DEF ChangeAccounts, AnonymizeVotes
    <3>2. QED
      BY <1>1, <2>1, <3>1
  <2>3. ASSUME NEW f \in ElectionIds, NEW b \in AccountIds, LegacyVote(b, f)
        PROVE  legacy'[e][a] = "anonymised"
    BY <1>1, <2>3 DEF LegacyVote, IInv, TypeInv, TypeOK
  <2>4. ASSUME NEW c \in CastIds, CastStep(c) PROVE UNCHANGED legacy
    BY <2>4, CastStepKinds DEF IInv
  <2>5. ASSUME NEW f \in ElectionIds, ChangeElection(f) PROVE UNCHANGED legacy
    BY <2>5 DEF ChangeElection, TransitionElection, castVars
  <2>6. QED
    BY <1>1, <2>1, <2>2, <2>3, <2>4, <2>5 DEF Next, RotateSecret, castVars, vars
<1>2. {account[a].student : a \in LegacyVoters(e, {"anonymised"})}
        \subseteq {account[a].student : a \in LegacyVoters(e, {"anonymised"})}'
  BY <1>1 DEF LegacyVoters
<1>3. ASSUME NEW c \in votes[e] PROVE StudentOf(c) \in VotersByCast(e)'
  <2>1. c \in CastIds /\ cast[c].phase # "idle"
    BY DEF IInv, TypeInv, TypeOK, ParticipationInv, BallotsRecorded
  <2>2. StudentOf(c)' = StudentOf(c) /\ c \in votes'[e]
    BY <2>1, StudentKept, BallotsRemain
  <2>3. QED
    BY <2>2 DEF VotersByCast
<1>4. VotersByCast(e) \subseteq VotersByCast(e)'
  BY <1>3 DEF VotersByCast
<1>5. QED
  BY <1>2, <1>4 DEF VotersByHash

\* A linked ballot and a hash are never of one student.
LEMMA LinkedHaveNoHash ==
  ASSUME IInv, HashesExact, NEW e \in ElectionIds, NEW h \in participation[e],
         NEW a \in LegacyVoters(e, {"linked"})
  PROVE  h[2] # account[a].student
<1>1. OneBallotPerStudent /\ h[2] \in VotersByHash(e)
  BY DEF IInv, ParticipationInv, HashesExact
<1>2. a \in LegacyVoters(e, LegacyStates \ {"none"}) /\ a \notin LegacyVoters(e, {"anonymised"})
  BY DEF LegacyVoters, LegacyStates
<1>3. account[a].student \notin VotersByCast(e)
  <2>1. account[a].student \in VotersByLink(e)
    BY <1>2 DEF VotersByLink
  <2>2. VotersByCast(e) \intersect VotersByLink(e) = {}
    BY <1>1 DEF OneBallotPerStudent
  <2>3. QED
    BY <2>1, <2>2
<1>4. ASSUME NEW b \in LegacyVoters(e, {"anonymised"}), account[b].student = account[a].student
      PROVE  FALSE
  <2>1. b \in LegacyVoters(e, LegacyStates \ {"none"})
    BY DEF LegacyVoters, LegacyStates
  <2>2. a = b
    BY <1>1, <1>2, <1>4, <2>1 DEF OneBallotPerStudent
  <2>3. QED
    BY <1>2, <2>2
<1>5. account[a].student \notin VotersByHash(e)
  BY <1>3, <1>4 DEF VotersByHash
<1>6. QED
  BY <1>1, <1>5

\* The records that a step makes are exact.
LEMMA HashesExactKept ==
  ASSUME IInv, [Next]_vars, HashesExact
  PROVE  HashesExact'
<1>1. ASSUME UNCHANGED participation PROVE HashesExact'
  BY <1>1, CountedRemain DEF HashesExact
<1>2. ASSUME NEW c \in CastIds, CastStep(c), CommitBallot(c) PROVE HashesExact'
  <2>1. cast[c].election \in ElectionIds /\ cast[c].phase # "idle"
    BY <1>2, KnownStudent DEF CommitBallot, IInv
  <2> PICK e \in ElectionIds : e = cast[c].election
    BY <2>1
  <2>2. /\ participation' = [participation EXCEPT ![e] = @ \union {CurrentHash(c)}]
        /\ votes' = [votes EXCEPT ![e] = @ \union {c}]
    BY <1>2 DEF CommitBallot
  <2>3. CurrentHash(c)[2] = StudentOf(c)
    BY DEF CurrentHash
  <2>4. \A h \in participation[e] : h[2] # StudentOf(c)
    <3>1. StudentOf(c) \notin VotersByCast(e) /\ StudentOf(c) \notin VotersByLink(e)
      BY <1>2, CommitIsFirst
    <3>2. StudentOf(c) \notin VotersByHash(e)
      BY <3>1 DEF VotersByHash, VotersByLink, LegacyVoters, LegacyStates
    <3>3. QED
      BY <3>2 DEF HashesExact
  <2>5. StudentOf(c) \in VotersByHash(e)'
    <3>1. StudentOf(c)' = StudentOf(c) /\ c \in votes'[e]
      BY <2>1, <2>2, StudentKept DEF IInv, TypeInv, TypeOK
    <3>2. QED
      BY <3>1 DEF VotersByHash, VotersByCast
  <2>6. ASSUME NEW f \in ElectionIds
        PROVE  /\ \A h \in participation'[f] : h[2] \in VotersByHash(f)'
               /\ \A h, g \in participation'[f] : h[2] = g[2] => h = g
    <3>1. CASE f = e
      <4>1. participation'[f] = participation[e] \union {CurrentHash(c)}
        BY <2>2, <3>1 DEF IInv, TypeInv, TypeOK
      <4>2. QED
        BY <2>3, <2>4, <2>5, <3>1, <4>1, CountedRemain DEF HashesExact
    <3>2. CASE f # e
      <4>1. participation'[f] = participation[f]
        BY <2>2, <3>2 DEF IInv, TypeInv, TypeOK
      <4>2. QED
        BY <4>1, CountedRemain DEF HashesExact
    <3>3. QED
      BY <3>1, <3>2
  <2>7. QED
    BY <2>6 DEF HashesExact
<1>3. CASE AnonymizeVotes
  <2> SUFFICES ASSUME NEW e \in ElectionIds
               PROVE  /\ \A h \in participation'[e] : h[2] \in VotersByHash(e)'
                      /\ \A h, g \in participation'[e] : h[2] = g[2] => h = g
    BY DEF HashesExact
  <2> DEFINE new == {<<key, account[a].student>> : a \in LegacyVoters(e, {"linked"})}
  <2>1. participation'[e] = participation[e] \union new
    BY <1>3 DEF AnonymizeVotes
  <2>2. ASSUME NEW h \in new
        PROVE  /\ h = <<key, h[2]>> /\ h[2] \in VotersByHash(e)'
               /\ \A g \in participation[e] : g[2] # h[2]
    <3>1. PICK a \in LegacyVoters(e, {"linked"}) : h = <<key, account[a].student>>
      OBVIOUS
    <3>2. a \in LegacyVoters(e, {"anonymised"})' /\ UNCHANGED account
      BY <1>3 DEF AnonymizeVotes, LegacyVoters, electorateVars
    <3>3. QED
      BY <3>1, <3>2, LinkedHaveNoHash DEF VotersByHash
  <2> HIDE DEF new
  <2>3. \A h \in participation[e] : h[2] \in VotersByHash(e)'
    BY CountedRemain DEF HashesExact
  <2>4. \A h, g \in participation[e] : h[2] = g[2] => h = g
    BY DEF HashesExact
  <2>5. \A h, g \in new : h[2] = g[2] => h = g
    BY <2>2
  <2>6. QED
    BY <2>1, <2>2, <2>3, <2>4, <2>5
<1>4. ASSUME NEW c \in CastIds, CastStep(c) PROVE HashesExact'
  BY <1>1, <1>2, <1>4, CastStepKinds DEF RequestStep, ballotVars, IInv
<1>5. ASSUME NEW e \in ElectionIds, ChangeElection(e) PROVE HashesExact'
  BY <1>1, <1>5 DEF ChangeElection, TransitionElection, castVars
<1>6. ASSUME NEW e \in ElectionIds, NEW a \in AccountIds, LegacyVote(a, e) PROVE HashesExact'
  BY <1>1, <1>6 DEF LegacyVote, ballotVars
<1>7. CASE ChangeAccounts
  BY <1>1, <1>7 DEF ChangeAccounts, ballotVars
<1>8. QED
  BY <1>1, <1>3, <1>4, <1>5, <1>6, <1>7 DEF Next, RotateSecret, castVars, vars

\* There are finitely many ballots at any moment, and each has its snapshot.
LEMMA BallotsFiniteKept ==
  ASSUME IInv, [Next]_vars, BallotsFinite
  PROVE  BallotsFinite'
<1>1. SUFFICES ASSUME NEW e \in ElectionIds
               PROVE  /\ snapshots'[e] = votes'[e] /\ IsFiniteSet(votes'[e])
                      /\ IsFiniteSet(LegacyVoters(e, LegacyStates \ {"none"})')
  BY DEF BallotsFinite
<1>2. /\ votes \in [ElectionIds -> SUBSET CastIds] /\ snapshots \in [ElectionIds -> SUBSET CastIds]
      /\ legacy \in [ElectionIds -> [AccountIds -> LegacyStates]]
      /\ snapshots[e] = votes[e] /\ IsFiniteSet(votes[e])
      /\ IsFiniteSet(LegacyVoters(e, LegacyStates \ {"none"}))
  BY DEF IInv, TypeInv, TypeOK, BallotsFinite
<1>3. snapshots'[e] = votes'[e] /\ IsFiniteSet(votes'[e])
  <2>1. ASSUME NEW c \in CastIds, CommitBallot(c) PROVE snapshots'[e] = votes'[e] /\ IsFiniteSet(votes'[e])
    <3>1. votes'[e] \in {votes[e], votes[e] \union {c}} /\ snapshots'[e] = votes'[e]
      BY <1>2, <2>1 DEF CommitBallot
    <3>2. IsFiniteSet(votes[e] \union {c})
      BY <1>2, FS_AddElement
    <3>3. QED
      BY <1>2, <3>1, <3>2
  <2>2. ASSUME NEW c \in CastIds, CastStep(c), ~CommitBallot(c) PROVE UNCHANGED <<votes, snapshots>>
    BY <2>2, CastStepKinds DEF RequestStep, ballotVars, IInv
  <2>3. ASSUME ~\E c \in CastIds : CastStep(c) PROVE UNCHANGED <<votes, snapshots>>
    BY <2>3 DEF Next, ChangeElection, TransitionElection, LegacyVote, ChangeAccounts, AnonymizeVotes,
                RotateSecret, ballotVars, castVars, vars
  <2>4. QED
    BY <1>2, <2>1, <2>2, <2>3
<1>4. IsFiniteSet(LegacyVoters(e, LegacyStates \ {"none"})')
  <2>1. ASSUME \A a \in AccountIds : legacy[e][a] = "none" => legacy'[e][a] = "none"
        PROVE  IsFiniteSet(LegacyVoters(e, LegacyStates \ {"none"})')
    <3>1. LegacyVoters(e, LegacyStates \ {"none"})' = LegacyVoters(e, LegacyStates \ {"none"})
      BY <2>1, LinkersStay
    <3>2. QED
      BY <1>2, <3>1
  <2>2. ASSUME NEW f \in ElectionIds, NEW a \in AccountIds, LegacyVote(a, f)
        PROVE  IsFiniteSet(LegacyVoters(e, LegacyStates \ {"none"})')
    <3>1. legacy' = [legacy EXCEPT ![f][a] = "linked"]
      BY <2>2 DEF LegacyVote
    <3>2. CASE f = e
      <4>1. LegacyVoters(e, LegacyStates \ {"none"})' = LegacyVoters(e, LegacyStates \ {"none"}) \union {a}
        BY <1>2, <3>1, <3>2 DEF LegacyVoters, LegacyStates
      <4>2. IsFiniteSet(LegacyVoters(e, LegacyStates \ {"none"}) \union {a})
        BY <1>2, FS_AddElement
      <4>3. QED
        BY <4>1, <4>2
    <3>3. CASE f # e
      <4>1. legacy'[e] = legacy[e]
        BY <1>2, <3>1, <3>3
      <4>2. QED
        BY <2>1, <4>1
    <3>4. QED
      BY <3>2, <3>3
  <2>3. ASSUME NEW c \in CastIds, CommitBallot(c) PROVE UNCHANGED legacy
    BY <2>3 DEF CommitBallot
  <2>4. QED
    BY <2>1, <2>2, <2>3, BallotsMove DEF NoNewLinks
<1>5. QED
  BY <1>3, <1>4

\* A function that is one to one carries the size of a finite set over.
LEMMA SameSize ==
  ASSUME NEW S, NEW T, NEW f \in [S -> T], IsFiniteSet(S),
         \A x, y \in S : f[x] = f[y] => x = y, \A y \in T : \E x \in S : f[x] = y
  PROVE  IsFiniteSet(T) /\ Cardinality(T) = Cardinality(S)
<1>1. f \in Bijection(S, T)
  BY DEF Bijection, Injection, Surjection, IsInjective
<1>2. ExistsBijection(S, T)
  BY <1>1 DEF ExistsBijection
<1>3. QED
  BY <1>2, FS_Bijection

\* There are as many hashes as ballots that name nobody.
LEMMA HashesCounted ==
  ASSUME IInv, TurnoutInv, NEW e \in ElectionIds
  PROVE  /\ IsFiniteSet(LegacyVoters(e, {"anonymised"}))
         /\ Cardinality(participation[e])
              = Cardinality(votes[e]) + Cardinality(LegacyVoters(e, {"anonymised"}))
<1> DEFINE anonymised == LegacyVoters(e, {"anonymised"})
           byLink == {account[a].student : a \in anonymised}
           hashOf == [s \in VotersByHash(e) |-> CHOOSE h \in participation[e] : h[2] = s]
<1>1. OneBallotPerStudent /\ BallotsRecorded
  BY DEF IInv, ParticipationInv
<1>2. anonymised \subseteq LegacyVoters(e, LegacyStates \ {"none"})
  BY DEF LegacyVoters, LegacyStates
<1>3. IsFiniteSet(votes[e]) /\ IsFiniteSet(LegacyVoters(e, LegacyStates \ {"none"}))
  BY DEF TurnoutInv, BallotsFinite
<1>4. IsFiniteSet(anonymised)
  BY <1>2, <1>3, FS_Subset
<1>5. IsFiniteSet(VotersByCast(e)) /\ Cardinality(VotersByCast(e)) = Cardinality(votes[e])
  <2> DEFINE f == [c \in votes[e] |-> StudentOf(c)]
  <2>1. f \in [votes[e] -> VotersByCast(e)]
    BY DEF VotersByCast
  <2>2. \A c, d \in votes[e] : f[c] = f[d] => c = d
    BY <1>1 DEF OneBallotPerStudent
  <2>3. \A s \in VotersByCast(e) : \E c \in votes[e] : f[c] = s
    BY DEF VotersByCast
  <2> HIDE DEF f
  <2>4. QED
    BY <1>3, <2>1, <2>2, <2>3, SameSize
<1>6. IsFiniteSet(byLink) /\ Cardinality(byLink) = Cardinality(anonymised)
  <2> DEFINE f == [a \in anonymised |-> account[a].student]
  <2>1. f \in [anonymised -> byLink]
    OBVIOUS
  <2>2. \A a, b \in anonymised : f[a] = f[b] => a = b
    BY <1>1, <1>2 DEF OneBallotPerStudent
  <2>3. \A s \in byLink : \E a \in anonymised : f[a] = s
    OBVIOUS
  <2> HIDE DEF f, anonymised, byLink
  <2>4. QED
    BY <1>4, <2>1, <2>2, <2>3, SameSize
<1>7. VotersByHash(e) = VotersByCast(e) \union byLink /\ VotersByCast(e) \intersect byLink = {}
  <2>1. byLink \subseteq VotersByLink(e)
    BY <1>2 DEF VotersByLink
  <2>2. VotersByCast(e) \intersect VotersByLink(e) = {}
    BY <1>1 DEF OneBallotPerStudent
  <2>3. QED
    BY <2>1, <2>2 DEF VotersByHash
<1>8. /\ IsFiniteSet(VotersByHash(e))
      /\ Cardinality(VotersByHash(e)) = Cardinality(votes[e]) + Cardinality(anonymised)
  <2>1. /\ IsFiniteSet(VotersByCast(e) \union byLink)
        /\ Cardinality(VotersByCast(e) \union byLink)
             = Cardinality(VotersByCast(e)) + Cardinality(byLink)
                 - Cardinality(VotersByCast(e) \intersect byLink)
    BY <1>5, <1>6, FS_Union
  <2>2. Cardinality(VotersByCast(e) \intersect byLink) = 0
    BY <1>7, FS_EmptySet
  <2>3. Cardinality(VotersByCast(e)) \in Nat /\ Cardinality(byLink) \in Nat
    BY <1>5, <1>6, FS_CardinalityType
  <2> HIDE DEF anonymised, byLink
  <2>4. QED
    BY <1>5, <1>6, <1>7, <2>1, <2>2, <2>3
<1>9. \A s \in VotersByHash(e) : \E h \in participation[e] : h[2] = s
  BY <1>1 DEF VotersByHash, VotersByCast, BallotsRecorded
<1>10. Cardinality(participation[e]) = Cardinality(VotersByHash(e))
  <2>1. \A s \in VotersByHash(e) : hashOf[s] \in participation[e] /\ hashOf[s][2] = s
    BY <1>9
  <2>2. hashOf \in [VotersByHash(e) -> participation[e]]
    BY <2>1
  <2>3. \A s, t \in VotersByHash(e) : hashOf[s] = hashOf[t] => s = t
    BY <2>1
  <2>4. \A h \in participation[e] : \E s \in VotersByHash(e) : hashOf[s] = h
    BY <2>1 DEF TurnoutInv, HashesExact
  <2> HIDE DEF hashOf
  <2>5. QED
    BY <1>8, <2>2, <2>3, <2>4, SameSize
<1>11. QED
  BY <1>4, <1>8, <1>10

\* So the sum of the two tables is the number of ballots.
LEMMA TurnoutIsExact ==
  ASSUME IInv, TurnoutInv
  PROVE  TurnoutExact
<1> SUFFICES ASSUME NEW e \in ElectionIds, LegacyVoters(e, {"unlinked"}) = {}
             PROVE  TotalBallotsCast(e) =
                      Cardinality(votes[e]) + Cardinality(LegacyVoters(e, LegacyStates \ {"none"}))
  BY DEF TurnoutExact
<1> DEFINE all == LegacyVoters(e, LegacyStates \ {"none"})
           linked == LegacyVoters(e, {"linked"})
           anonymised == LegacyVoters(e, {"anonymised"})
<1>1. all = anonymised \union linked /\ anonymised \intersect linked = {}
  BY DEF LegacyVoters, LegacyStates
<1>2. /\ snapshots[e] = votes[e] /\ IsFiniteSet(votes[e]) /\ IsFiniteSet(all)
      /\ IsFiniteSet(anonymised)
      /\ Cardinality(participation[e]) = Cardinality(votes[e]) + Cardinality(anonymised)
  BY HashesCounted DEF TurnoutInv, BallotsFinite
<1>3. IsFiniteSet(linked)
  BY <1>1, <1>2, FS_Subset
<1>4. \A c \in votes[e] : \E h \in participation[e] : h[2] = StudentOf(c)
  BY DEF IInv, ParticipationInv, BallotsRecorded
<1>5. \A a \in anonymised : \E h \in participation[e] : h[2] = account[a].student
  BY DEF IInv, ParticipationInv, BallotsRecorded
<1>6. TotalBallotsCast(e) =
        IF participation[e] # {} \/ linked # {} THEN Cardinality(participation[e]) + Cardinality(linked)
        ELSE IF snapshots[e] # {} THEN Cardinality(snapshots[e])
        ELSE IF snapshots[e] # {} \/ votes[e] # {} \/ all # {} THEN Null
        ELSE 0
  BY DEF TotalBallotsCast, HasBallots
<1> HIDE DEF all, linked, anonymised
<1>7. Cardinality(all) = Cardinality(anonymised) + Cardinality(linked)
  <2>1. Cardinality(anonymised \union linked)
          = Cardinality(anonymised) + Cardinality(linked) - Cardinality(anonymised \intersect linked)
    BY <1>2, <1>3, FS_Union
  <2>2. Cardinality(anonymised \intersect linked) = 0
    BY <1>1, FS_EmptySet
  <2>3. Cardinality(anonymised) \in Nat /\ Cardinality(linked) \in Nat
    BY <1>2, <1>3, FS_CardinalityType
  <2>4. QED
    BY <1>1, <2>1, <2>2, <2>3
<1>8. Cardinality(votes[e]) \in Nat /\ Cardinality(anonymised) \in Nat /\ Cardinality(linked) \in Nat
  BY <1>2, <1>3, FS_CardinalityType
<1>9. CASE participation[e] # {} \/ linked # {}
  <2>1. TotalBallotsCast(e) = Cardinality(participation[e]) + Cardinality(linked)
    BY <1>6, <1>9
  <2>2. TotalBallotsCast(e) = Cardinality(votes[e]) + Cardinality(all)
    BY <1>2, <1>7, <1>8, <2>1
  <2>3. QED
    BY <2>2 DEF all
<1>10. CASE participation[e] = {} /\ linked = {}
  <2>1. votes[e] = {} /\ anonymised = {} /\ all = {}
    BY <1>1, <1>4, <1>5, <1>10
  <2>2. TotalBallotsCast(e) = 0
    BY <1>2, <1>6, <1>10, <2>1
  <2>3. Cardinality(votes[e]) = 0 /\ Cardinality(all) = 0
    BY <2>1, FS_EmptySet
  <2>4. QED
    BY <2>2, <2>3 DEF all
<1>11. QED
  BY <1>9, <1>10

\* The turnout (getTurnout adds participation rows and linked votes, filled by three
\* writers at three times) is the number of ballots, as long as no user with a linked
\* ballot has been deleted.
THEOREM TurnoutCorrect ==
  ASSUME ~RotateInFlight, LegacyBallots => Skew = 0
  PROVE  Spec => []TurnoutExact
<1>1. Init => TurnoutInv
  <2> SUFFICES ASSUME Init PROVE TurnoutInv
    OBVIOUS
  <2>1. \A e \in ElectionIds : /\ participation[e] = {} /\ votes[e] = {} /\ snapshots[e] = {}
                               /\ LegacyVoters(e, LegacyStates \ {"none"}) = {}
    BY DEF Init, LegacyVoters
  <2>2. QED
    BY <2>1, FS_EmptySet DEF TurnoutInv, HashesExact, BallotsFinite
<1>2. Spec => []IInv
  BY VotingInvariant
<1>3. IInv /\ TurnoutInv /\ [Next]_vars => TurnoutInv'
  BY HashesExactKept, BallotsFiniteKept DEF TurnoutInv
<1>4. IInv /\ TurnoutInv => TurnoutExact
  BY TurnoutIsExact
<1>5. QED
  BY <1>1, <1>2, <1>3, <1>4, PTL DEF Spec

-----------------------------------------------------------------------------
(* The tables are a ballot box. *)

CastEntries(e) == {<<StudentOf(c), c>> : c \in votes[e]}

LinkEntries(e) ==
  {<<account[a].student, a>> : a \in LegacyVoters(e, LegacyStates \ {"none"})}

\* A box holds the two kinds of entries, before a step and after it.
LEMMA BoxParts ==
  ASSUME NEW e \in ElectionIds
  PROVE  /\ BoxOf(e) = CastEntries(e) \union LinkEntries(e)
         /\ BoxOf(e)' = CastEntries(e)' \union LinkEntries(e)'
  BY DEF BoxOf, CastEntries, LinkEntries

\* What was cast stays the student's.
LEMMA CastEntriesStay ==
  ASSUME IInv, [Next]_vars, NEW e \in ElectionIds, NEW new \in SUBSET CastIds,
         votes'[e] = votes[e] \union new
  PROVE  CastEntries(e)' = CastEntries(e) \union {<<StudentOf(c)', c>> : c \in new}
<1>1. \A c \in votes[e] : StudentOf(c)' = StudentOf(c)
  BY StudentKept DEF IInv, TypeInv, TypeOK, ParticipationInv, BallotsRecorded
<1>2. QED
  BY <1>1 DEF CastEntries

\* So do the linked ballots, if there are no new ones.
LEMMA LinkEntriesStay ==
  ASSUME IInv, [Next]_vars, NEW e \in ElectionIds,
         \A a \in AccountIds : legacy[e][a] = "none" => legacy'[e][a] = "none"
  PROVE  LinkEntries(e)' = LinkEntries(e)
  BY LinkersStay DEF LinkEntries

\* The batch puts the ballot of one student into one box.
LEMMA CommitDeposits ==
  ASSUME IInv, [Next]_vars, NEW c \in CastIds, CastStep(c), CommitBallot(c),
         NEW e \in ElectionIds, e = cast[c].election
  PROVE  /\ StudentOf(c) \in StudentIds
         /\ \A entry \in BoxOf(e) : entry[1] # StudentOf(c)
         /\ BoxOf(e)' = BoxOf(e) \union {<<StudentOf(c), c>>}
         /\ \A f \in ElectionIds \ {e} : BoxOf(f)' = BoxOf(f)
<1>1. cast[c].phase # "idle"
  BY DEF CommitBallot
<1>2. StudentOf(c) \in StudentIds /\ StudentOf(c)' = StudentOf(c)
  BY <1>1, KnownStudent, StudentKept DEF IInv
<1>3. \A entry \in BoxOf(e) : entry[1] # StudentOf(c)
  <2>1. StudentOf(c) \notin VotersByCast(e) /\ StudentOf(c) \notin VotersByLink(e)
    BY CommitIsFirst
  <2>2. \A d \in votes[e] : StudentOf(d) # StudentOf(c)
    BY <2>1 DEF VotersByCast
  <2>3. \A a \in LegacyVoters(e, LegacyStates \ {"none"}) : account[a].student # StudentOf(c)
    BY <2>1 DEF VotersByLink
  <2>4. QED
    BY <2>2, <2>3 DEF BoxOf
<1>4. \A f \in ElectionIds : LinkEntries(f)' = LinkEntries(f)
  BY LinkEntriesStay DEF CommitBallot
<1>5. CastEntries(e)' = CastEntries(e) \union {<<StudentOf(c), c>>}
  <2>1. votes'[e] = votes[e] \union {c}
    BY DEF CommitBallot, IInv, TypeInv, TypeOK
  <2>2. CastEntries(e)' = CastEntries(e) \union {<<StudentOf(d)', d>> : d \in {c}}
    BY <2>1, CastEntriesStay
  <2>3. QED
    BY <1>2, <2>2
<1>6. ASSUME NEW f \in ElectionIds \ {e} PROVE CastEntries(f)' = CastEntries(f)
  <2>1. votes'[f] = votes[f] \union {}
    BY DEF CommitBallot, IInv, TypeInv, TypeOK
  <2>2. CastEntries(f)' = CastEntries(f) \union {<<StudentOf(d)', d>> : d \in {}}
    BY <2>1, CastEntriesStay
  <2>3. QED
    BY <2>2
<1>7. QED
  BY <1>2, <1>3, <1>4, <1>5, <1>6 DEF BoxOf, CastEntries, LinkEntries

\* So does the earlier writer.
LEMMA LegacyVoteDeposits ==
  ASSUME IInv, [Next]_vars, NEW a \in AccountIds, NEW e \in ElectionIds, LegacyVote(a, e)
  PROVE  /\ account[a].student \in StudentIds
         /\ \A entry \in BoxOf(e) : entry[1] # account[a].student
         /\ BoxOf(e)' = BoxOf(e) \union {<<account[a].student, a>>}
         /\ \A f \in ElectionIds \ {e} : BoxOf(f)' = BoxOf(f)
<1>1. /\ UNCHANGED <<account, votes>> /\ account[a].state = "active" /\ legacy[e][a] = "none"
      /\ legacy' = [legacy EXCEPT ![e][a] = "linked"]
      /\ \A c \in CastIds : cast[c].phase = "idle"
  BY DEF LegacyVote, electorateVars, ballotVars
<1>2. legacy \in [ElectionIds -> [AccountIds -> LegacyStates]]
  BY DEF IInv, TypeInv, TypeOK
<1>3. account[a].student \in StudentIds
  BY <1>1 DEF IInv, TypeInv, AccountsKnown
<1>4. LegacyVoters(e, LegacyStates \ {"none"})' = LegacyVoters(e, LegacyStates \ {"none"}) \union {a}
  BY <1>1, <1>2 DEF LegacyVoters, LegacyStates
<1>5. votes[e] = {}
  BY <1>1 DEF IInv, TypeInv, TypeOK, ParticipationInv, BallotsRecorded
<1>6. ASSUME NEW b \in LegacyVoters(e, LegacyStates \ {"none"}), account[b].student = account[a].student
      PROVE  FALSE
  <2>1. OneBallotPerStudent'
    BY LegacyVoteInv DEF IInv, ParticipationInv
  <2>2. a = b
    BY <1>1, <1>4, <1>6, <2>1 DEF OneBallotPerStudent
  <2>3. QED
    BY <1>1, <2>2 DEF LegacyVoters
<1>7. \A f \in ElectionIds : CastEntries(f)' = CastEntries(f)
  <2>1. ASSUME NEW f \in ElectionIds PROVE CastEntries(f)' = CastEntries(f)
    <3>1. votes'[f] = votes[f] \union {}
      BY <1>1
    <3>2. CastEntries(f)' = CastEntries(f) \union {<<StudentOf(d)', d>> : d \in {}}
      BY <3>1, CastEntriesStay
    <3>3. QED
      BY <3>2
  <2>2. QED
    BY <2>1
<1>8. LinkEntries(e)' = LinkEntries(e) \union {<<account[a].student, a>>}
  BY <1>1, <1>4 DEF LinkEntries
<1>9. ASSUME NEW f \in ElectionIds \ {e} PROVE LinkEntries(f)' = LinkEntries(f)
  BY <1>1, <1>2, LinkEntriesStay
<1>10. \A entry \in BoxOf(e) : entry[1] # account[a].student
  BY <1>5, <1>6 DEF BoxOf
<1>11. BoxOf(e)' = BoxOf(e) \union {<<account[a].student, a>>}
  <2>1. CastEntries(e)' = CastEntries(e)
    BY <1>7
  <2>2. QED
    BY <1>8, <2>1, BoxParts
<1>12. ASSUME NEW f \in ElectionIds \ {e} PROVE BoxOf(f)' = BoxOf(f)
  <2>1. CastEntries(f)' = CastEntries(f)
    BY <1>7
  <2>2. QED
    BY <1>9, <2>1, BoxParts
<1>13. QED
  BY <1>3, <1>10, <1>11, <1>12

\* Every other step leaves the boxes alone.
LEMMA BoxesStay ==
  ASSUME IInv, [Next]_vars, UNCHANGED votes, NoNewLinks, NEW e \in ElectionIds
  PROVE  BoxOf(e)' = BoxOf(e)
<1>1. LinkEntries(e)' = LinkEntries(e)
  BY LinkEntriesStay DEF NoNewLinks
<1>2. CastEntries(e)' = CastEntries(e) \union {<<StudentOf(d)', d>> : d \in {}}
  <2>1. votes'[e] = votes[e] \union {}
    OBVIOUS
  <2>2. QED
    BY <2>1, CastEntriesStay
<1>3. QED
  BY <1>1, <1>2 DEF BoxOf, CastEntries, LinkEntries

\* Creating, editing and extending leave an election in its stage.
LEMMA EditKeepsStage ==
  ASSUME IInv, NEW f \in ElectionIds, EditElection(f), NEW e \in ElectionIds
  PROVE  Stage(e)' = Stage(e)
<1>1. election \in [ElectionIds -> Row]
  BY DEF IInv, ElectionsInv, ElectionsTypeOK
<1>2. CASE \E opens \in OpenTimes \union {Null}, closes \in CloseTimes \union {Null} :
             CreateElection(f, opens, closes)
  BY <1>1, <1>2 DEF CreateElection, Stage
<1>3. ASSUME NEW opens, NEW closes, UpdateMetadata(f, opens, closes) PROVE Stage(e)' = Stage(e)
  BY <1>1, <1>3 DEF UpdateMetadata, Stage, Row
<1>4. ASSUME NEW closes, NEW t, ExtendClosingTime(f, closes, t) PROVE Stage(e)' = Stage(e)
  BY <1>1, <1>4 DEF ExtendClosingTime, Stage, Row
<1>5. QED
  BY <1>2, <1>3, <1>4 DEF EditElection

\* A transition is one of the box, or keeps every stage (archiving).
LEMMA TransitionMovesBox ==
  ASSUME IInv, NEW e \in ElectionIds, NEW to \in Statuses, NEW opens, NEW closes, NEW t,
         Transition(e, to, opens, closes, t, FormComplete(e), HasBallots(e)),
         \A f \in ElectionIds : BoxOf(f)' = BoxOf(f)
  PROVE  Box!Open(e) \/ Box!Close(e) \/ Box!Reopen(e) \/ UNCHANGED Box!boxVars
<1>1. /\ election'[e].status = to
      /\ \A f \in ElectionIds \ {e} :
           election'[f].status = IF to = "open" /\ election[f].status = "open" THEN "closed"
                                 ELSE election[f].status
  BY DEF Transition, Superseded, OpenElections, IInv, ElectionsInv, ElectionsTypeOK, Row
<1>2. CanTransition(election[e].status, to)
  BY DEF Transition
<1>3. [f \in ElectionIds |-> BoxOf(f)]' = [f \in ElectionIds |-> BoxOf(f)]
  OBVIOUS
<1>4. CASE to = "open"
  <2>1. election[e].status = "draft"
    BY <1>2, <1>4 DEF CanTransition, TRANSITIONS
  <2>2. \A f \in ElectionIds : Stage(f)' = IF f = e THEN "voting"
                                        ELSE IF Stage(f) = "voting" THEN "final" ELSE Stage(f)
    BY <1>1, <1>4, <2>1 DEF Stage
  <2>3. Stage(e) = "preparing"
    BY <2>1 DEF Stage
  <2>4. Box!Open(e)
    BY <1>3, <2>2, <2>3 DEF Box!Open, Box!Voting
  <2>5. QED
    BY <2>4
<1>5. CASE to # "open"
  <2>1. \A f \in ElectionIds \ {e} : Stage(f)' = Stage(f)
    BY <1>1, <1>5 DEF Stage
  <2>2. CASE to = "closed"
    <3>1. Stage(e) = "voting" /\ Stage(e)' = "final"
      BY <1>1, <1>2, <2>2 DEF CanTransition, TRANSITIONS, Stage
    <3>2. Box!Close(e)
      BY <1>3, <2>1, <3>1 DEF Box!Close
    <3>3. QED
      BY <3>2
  <2>3. CASE to = "draft"
    <3>1. Stage(e) = "final" /\ Stage(e)' = "preparing"
      BY <1>1, <1>2, <2>3 DEF CanTransition, TRANSITIONS, Stage
    <3>2. BoxOf(e) = {}
      BY <2>3 DEF Transition, HasBallots, BoxOf
    <3>3. Box!Reopen(e)
      BY <1>3, <2>1, <3>1, <3>2 DEF Box!Reopen
    <3>4. QED
      BY <3>3
  <2>4. CASE to = "archived"
    <3>1. Stage(e)' = Stage(e)
      BY <1>1, <1>2, <2>4 DEF CanTransition, TRANSITIONS, Stage
    <3>2. QED
      BY <1>3, <2>1, <3>1 DEF Box!boxVars
  <2>5. QED
    BY <1>5, <2>2, <2>3, <2>4 DEF Statuses
<1>6. QED
  BY <1>4, <1>5

\* Every step is a step of the box, or none.
LEMMA StepOfBox ==
  ASSUME IInv, [Next]_vars
  PROVE  [Box!Next]_(Box!boxVars)
<1>1. ASSUME UNCHANGED electionVars, NEW e \in ElectionIds, Stage(e) = "voting",
             NEW s \in StudentIds, NEW b \in CastIds \union AccountIds,
             \A entry \in BoxOf(e) : entry[1] # s,
             BoxOf(e)' = BoxOf(e) \union {<<s, b>>},
             \A f \in ElectionIds \ {e} : BoxOf(f)' = BoxOf(f)
      PROVE  Box!Next
  <2>1. [f \in ElectionIds |-> Stage(f)]' = [f \in ElectionIds |-> Stage(f)]
    BY <1>1 DEF electionVars, Stage
  <2>2. [f \in ElectionIds |-> BoxOf(f)]' =
          [[f \in ElectionIds |-> BoxOf(f)] EXCEPT ![e] = @ \union {<<s, b>>}]
    BY <1>1
  <2>3. Box!Deposit(e, s, b)
    BY <1>1, <2>1, <2>2 DEF Box!Deposit
  <2>4. QED
    BY <2>3 DEF Box!Next
<1>2. ASSUME NEW c \in CastIds, CastStep(c), CommitBallot(c), UNCHANGED electionVars PROVE Box!Next
  <2>1. cast[c].phase # "idle" /\ InWindow(cast[c].election)
    BY <1>2 DEF CommitBallot
  <2> PICK e \in ElectionIds : e = cast[c].election
    BY <2>1, KnownStudent DEF IInv
  <2>2. Stage(e) = "voting"
    BY <2>1, WindowIsOpen DEF Stage
  <2>3. /\ StudentOf(c) \in StudentIds
        /\ \A entry \in BoxOf(e) : entry[1] # StudentOf(c)
        /\ BoxOf(e)' = BoxOf(e) \union {<<StudentOf(c), c>>}
        /\ \A f \in ElectionIds \ {e} : BoxOf(f)' = BoxOf(f)
    BY <1>2, CommitDeposits
  <2>4. QED
    BY <1>1, <1>2, <2>2, <2>3
<1>3. ASSUME NEW e \in ElectionIds, NEW a \in AccountIds, LegacyVote(a, e), UNCHANGED electionVars
      PROVE  Box!Next
  <2>1. Stage(e) = "voting"
    BY <1>3, WindowIsOpen DEF LegacyVote, Stage
  <2>2. QED
    BY <1>1, <1>3, <2>1, LegacyVoteDeposits
<1>4. ASSUME UNCHANGED votes, NoNewLinks PROVE [Box!Next]_(Box!boxVars)
  <2>1. \A e \in ElectionIds : BoxOf(e)' = BoxOf(e)
    BY <1>4, BoxesStay
  <2>2. ASSUME \A e \in ElectionIds : Stage(e)' = Stage(e) PROVE UNCHANGED Box!boxVars
    BY <2>1, <2>2 DEF Box!boxVars
  <2>3. CASE UNCHANGED election
    BY <2>2, <2>3 DEF Stage
  <2>4. ASSUME NEW f \in ElectionIds, EditElection(f) PROVE UNCHANGED Box!boxVars
    BY <2>2, <2>4, EditKeepsStage
  <2>5. ASSUME NEW e \in ElectionIds, NEW to \in Statuses, NEW opens \in OpenTimes \union {Null},
               NEW closes \in CloseTimes \union {Null}, NEW t \in WorkerClock,
               Transition(e, to, opens, closes, t, FormComplete(e), HasBallots(e))
        PROVE  [Box!Next]_(Box!boxVars)
    <3>1. Box!Open(e) \/ Box!Close(e) \/ Box!Reopen(e) \/ UNCHANGED Box!boxVars
      BY <2>1, <2>5, TransitionMovesBox
    <3>2. QED
      BY <3>1 DEF Box!Next
  <2>6. QED
    BY <2>3, <2>4, <2>5, ElectionsMove
<1>5. QED
  BY <1>2, <1>3, <1>4, BallotsMove

\* The empty tables are empty boxes.
LEMMA StartOfBox == Init => Box!Init
<1> SUFFICES ASSUME Init PROVE Box!Init
  OBVIOUS
<1>1. \A e \in ElectionIds : Stage(e) = "preparing"
  BY DEF Init, ElectionsInit, NoRow, Stage
<1>2. \A e \in ElectionIds : BoxOf(e) = {}
  BY DEF Init, BoxOf, LegacyVoters
<1>3. QED
  BY <1>1, <1>2 DEF Box!Init

\* Voting, with all its tables, requests, secrets and repairs, implements the abstract
\* ballot box: a student's ballot goes in once, while voting is under way, and stays.
THEOREM VotingImplementsBallotBox ==
  ASSUME ~RotateInFlight, LegacyBallots => Skew = 0
  PROVE  Spec => ImplementsBallotBox
<1>1. Spec => []IInv
  BY VotingInvariant
<1>2. IInv /\ [Next]_vars => [Box!Next]_(Box!boxVars)
  BY StepOfBox
<1>3. QED
  BY <1>1, <1>2, StartOfBox, PTL DEF Spec, ImplementsBallotBox, Box!Spec
=============================================================================
