------------------------------- MODULE Voting --------------------------------
(***************************************************************************)
(* Casting a ballot, composed with the election lifecycle, the ballot form *)
(* and the electorate. A cast is a sequence of separate reads followed by  *)
(* one atomic batch of inserts; every other handler may commit between two *)
(* of its steps, and a Worker that dies simply takes no further step.      *)
(***************************************************************************)
EXTENDS Roster, Electorate, FiniteSets

CONSTANTS
  CastIds,         \* the requests to cast a ballot; a retry is another request
  Submissions,     \* the selections a request may carry
  MaxOpenings,     \* bound: how often an election goes from draft to open
  MaxKey,          \* bound: how many HMAC secrets are ever installed
  RotateInFlight,  \* may a secret be installed while requests are in flight
  LegacyBallots    \* did the writer that linked votes to users run before

ASSUME SubmissionsAssumption ==
  Submissions \subseteq SUBSET [candidate : CandidateIds, position : PositionIds]
ASSUME KeyAssumption == MaxKey \in Nat \ {0} /\ MaxOpenings \in Nat
ASSUME FlagAssumption == RotateInFlight \in BOOLEAN /\ LegacyBallots \in BOOLEAN

VARIABLES
  cast,            \* CastIds -> the request and what it has read so far
  votes,           \* ElectionIds -> the casts whose votes rows were inserted
  snapshots,       \* ElectionIds -> the casts whose ballot_snapshots row was inserted
  participation,   \* ElectionIds -> voter hashes <<secret, student>>
  legacy,          \* ElectionIds -> AccountIds -> the votes of the linking writer
  key,             \* the number of the current HMAC secret; older ones are retained
  openings         \* history: ElectionIds -> number of draft -> open transitions

ballotVars == <<votes, snapshots, participation>>
castVars == <<cast, votes, snapshots, participation, legacy>>
vars == <<electionVars, rosterVars, electorateVars, castVars, key, openings>>

Outcomes == {"counted", "USER_NOT_FOUND", "ELECTION_NOT_FOUND", "ELECTION_NOT_OPEN",
             "VOTE_ALREADY_CAST", "BALLOT_REFUSED"}

Phases == {"idle", "received", "resolved", "admitted", "unvoted", "ready"} \union Outcomes

\* Reads that Promise.all issues together, and that may be served in any order.
Reads == {"link", "hash", "candidates", "positions"}

CastRow ==
  [phase : Phases, account : AccountIds \union {Null}, election : ElectionIds \union {Null},
   selections : Submissions \union {{}}, at : Int, key : 0..MaxKey, opening : 0..MaxOpenings,
   pending : SUBSET Reads, voted : BOOLEAN,
   active : SUBSET CandidateIds, listed : SUBSET PositionIds]

NoCast ==
  [phase |-> "idle", account |-> Null, election |-> Null, selections |-> {}, at |-> 0,
   key |-> 0, opening |-> 0, pending |-> {}, voted |-> FALSE, active |-> {}, listed |-> {}]

\* A vote of the linking writer: its row names the user, has lost the name with
\* the user (ON DELETE SET NULL), or was converted into a participation record.
LegacyStates == {"none", "linked", "unlinked", "anonymised"}

\* The secret numbered 0 stands for the unkeyed hash of the earliest releases.
Hashes == (0..MaxKey) \X StudentIds

TypeOK ==
  /\ ElectionsTypeOK /\ RosterTypeOK /\ ElectorateTypeOK
  /\ cast \in [CastIds -> CastRow]
  /\ votes \in [ElectionIds -> SUBSET CastIds]
  /\ snapshots \in [ElectionIds -> SUBSET CastIds]
  /\ participation \in [ElectionIds -> SUBSET Hashes]
  /\ legacy \in [ElectionIds -> [AccountIds -> LegacyStates]]
  /\ key \in 1..MaxKey
  /\ openings \in [ElectionIds -> 0..MaxOpenings]

StudentOf(c) == account[cast[c].account].student

LegacyVoters(e, states) == {a \in AccountIds : legacy[e][a] \in states}

\* Mutant: only ballots that name their user keep an election from draft.
HasLinkedBallots(e) == LegacyVoters(e, {"linked"}) # {}

HasBallots(e) ==
  snapshots[e] # {} \/ votes[e] # {} \/ LegacyVoters(e, LegacyStates \ {"none"}) # {}

InFlight(c) == cast[c].phase \in Phases \ ({"idle"} \union Outcomes)

-----------------------------------------------------------------------------
(* DrizzleBallotCaster.cast, step by step. *)

\* What was read is forgotten when it has been used; what was asked stays.
Finished(row, outcome) ==
  [phase |-> outcome, account |-> row.account, election |-> row.election,
   selections |-> row.selections, at |-> 0, key |-> row.key, opening |-> row.opening,
   pending |-> {}, voted |-> FALSE, active |-> {}, listed |-> {}]

\* The request goes on, and waits for the given reads.
Await(row, phase, reads) == [row EXCEPT !.phase = phase, !.pending = reads]

\* The session's account is active when the request is authenticated; the
\* Worker's clock and secrets are those of this moment.
Receive(c, a, e, selections, t) ==
  /\ cast[c].phase = "idle"
  /\ account[a].state = "active"
  /\ cast' = [cast EXCEPT ![c] =
                [phase |-> "received", account |-> a, election |-> e, selections |-> selections,
                 at |-> t, key |-> key, opening |-> openings[e],
                 pending |-> {}, voted |-> FALSE, active |-> {}, listed |-> {}]]
  /\ UNCHANGED <<ballotVars, legacy>>

ResolveStudent(c) ==
  /\ cast[c].phase = "received"
  /\ cast' = [cast EXCEPT ![c] =
                IF HasUserRow(@.account) THEN Await(@, "resolved", {})
                ELSE Finished(@, "USER_NOT_FOUND")]
  /\ UNCHANGED <<ballotVars, legacy>>

ReadElection(c) ==
  /\ cast[c].phase = "resolved"
  /\ LET row == election[cast[c].election]
     IN cast' = [cast EXCEPT ![c] =
                   IF row.status = "absent" THEN Finished(@, "ELECTION_NOT_FOUND")
                   ELSE IF EffectiveStatus(row, @.at) # "open" THEN Finished(@, "ELECTION_NOT_OPEN")
                   ELSE Await(@, "admitted", {"link", "hash"})]
  /\ UNCHANGED <<ballotVars, legacy>>

\* Mutant: the votes of the earlier writer are not looked at.
HasVotedByHash(row, read) ==
  /\ read = "hash"
  /\ \E k \in 0..row.key : <<k, account[row.account].student>> \in participation[row.election]

\* existsForUserInElection and hasVoterHashParticipated.
HasVoted(row, read) ==
  IF read = "link" THEN legacy[row.election][row.account] = "linked"
  ELSE \E k \in 0..row.key : <<k, account[row.account].student>> \in participation[row.election]

\* The request when one of its two answers has arrived.
Informed(c, read) ==
  [cast[c] EXCEPT !.pending = @ \ {read}, !.voted = @ \/ HasVoted(cast[c], read)]

ReadParticipation(c, read) ==
  /\ cast[c].phase = "admitted"
  /\ read \in cast[c].pending
  /\ LET row == Informed(c, read)
     IN cast' = [cast EXCEPT ![c] =
                   IF row.pending # {} THEN row
                   ELSE IF row.voted THEN Finished(row, "VOTE_ALREADY_CAST")
                   ELSE IF row.selections = {} THEN Finished(row, "BALLOT_REFUSED")
                   ELSE Await(row, "unvoted", {"candidates", "positions"})]
  /\ UNCHANGED <<ballotVars, legacy>>

\* Mutant: a ballot may leave positions out.
ValidPartialBallot(selections, active, listed) ==
  /\ \A s \in selections : s.candidate \in active /\ candidate[s.candidate].position = s.position
  /\ \A s, r \in selections : s.position = r.position => s = r
  /\ {s.position : s \in selections} \subseteq listed

\* Steps 5 to 7: every candidate is active and stands for the position named, no
\* position is named twice, and the positions are those of the election. The
\* four error codes of these checks are one outcome here.
ValidBallot(selections, active, listed) ==
  /\ \A s \in selections : s.candidate \in active /\ candidate[s.candidate].position = s.position
  /\ \A s, r \in selections : s.position = r.position => s = r
  /\ {s.position : s \in selections} = listed

\* findActiveByIds and listByElection.
ShownForm(c, read) ==
  IF read = "candidates"
    THEN [cast[c] EXCEPT !.pending = @ \ {read},
            !.active = {s.candidate : s \in cast[c].selections}
                         \intersect {k \in CandidateIds : candidate[k].state = "active"}]
    ELSE [cast[c] EXCEPT !.pending = @ \ {read}, !.listed = ListByElection(cast[c].election)]

ReadForm(c, read) ==
  /\ cast[c].phase = "unvoted"
  /\ read \in cast[c].pending
  /\ LET row == ShownForm(c, read)
     IN cast' = [cast EXCEPT ![c] =
                   IF row.pending # {} THEN row
                   ELSE IF ValidBallot(row.selections, row.active, row.listed)
                     THEN Finished(row, "ready")
                   ELSE Finished(row, "BALLOT_REFUSED")]
  /\ UNCHANGED <<ballotVars, legacy>>

\* Mutant: the account is hashed in place of the student.
AccountHash(c) == <<cast[c].key, cast[c].account>>

CurrentHash(c) == <<cast[c].key, StudentOf(c)>>

Reply(c, outcome) == cast' = [cast EXCEPT ![c] = Finished(@, outcome)]

\* Mutant: the participation row is inserted ahead of the batch.
AbortNotOpenHalfway(c) ==
  /\ cast[c].phase = "ready"
  /\ ~InWindow(cast[c].election)
  /\ Reply(c, "ELECTION_NOT_OPEN")
  /\ participation' = [participation EXCEPT ![cast[c].election] = @ \union {CurrentHash(c)}]
  /\ UNCHANGED <<votes, snapshots, legacy>>

\* The votes_require_open_election trigger aborts the batch.
AbortNotOpen(c) ==
  /\ cast[c].phase = "ready"
  /\ ~InWindow(cast[c].election)
  /\ Reply(c, "ELECTION_NOT_OPEN")
  /\ UNCHANGED <<ballotVars, legacy>>

\* idx_voter_election_participation_unique aborts the batch.
AbortDuplicate(c) ==
  /\ cast[c].phase = "ready"
  /\ InWindow(cast[c].election)
  /\ CurrentHash(c) \in participation[cast[c].election]
  /\ Reply(c, "VOTE_ALREADY_CAST")
  /\ UNCHANGED <<ballotVars, legacy>>

\* Mutant: no unique index; the earlier read is relied on.
CommitUnguarded(c) ==
  LET e == cast[c].election
  IN /\ cast[c].phase = "ready"
     /\ InWindow(e)
     /\ votes' = [votes EXCEPT ![e] = @ \union {c}]
     /\ snapshots' = [snapshots EXCEPT ![e] = @ \union {c}]
     /\ participation' = [participation EXCEPT ![e] = @ \union {CurrentHash(c)}]
     /\ Reply(c, "counted")
     /\ UNCHANGED legacy

CommitBallot(c) ==
  LET e == cast[c].election
  IN /\ cast[c].phase = "ready"
     /\ InWindow(e)
     /\ CurrentHash(c) \notin participation[e]
     /\ votes' = [votes EXCEPT ![e] = @ \union {c}]
     /\ snapshots' = [snapshots EXCEPT ![e] = @ \union {c}]
     /\ participation' = [participation EXCEPT ![e] = @ \union {CurrentHash(c)}]
     /\ Reply(c, "counted")
     /\ UNCHANGED legacy

CastStep(c) ==
  /\ \/ \E a \in AccountIds, e \in ElectionIds, selections \in Submissions, t \in WorkerClock :
          Receive(c, a, e, selections, t)
     \/ ResolveStudent(c)
     \/ ReadElection(c)
     \/ \E read \in {"link", "hash"} : ReadParticipation(c, read)
     \/ \E read \in {"candidates", "positions"} : ReadForm(c, read)
     \/ AbortNotOpen(c)
     \/ AbortDuplicate(c)
     \/ CommitBallot(c)
  /\ UNCHANGED <<electionVars, rosterVars, electorateVars, key, openings>>

-----------------------------------------------------------------------------
(* The writer of earlier releases, the backfill and the secrets. *)

\* Before the anonymous writer was deployed, a ballot named its user.
LegacyVote(a, e) ==
  /\ LegacyBallots
  /\ \A c \in CastIds : cast[c].phase = "idle"
  /\ InWindow(e)
  /\ account[a].state = "active"
  /\ legacy[e][a] = "none"
  /\ legacy' = [legacy EXCEPT ![e][a] = "linked"]
  /\ UNCHANGED <<electionVars, rosterVars, electorateVars, cast, ballotVars, key, openings>>

\* Mutant: participation is recorded and the votes keep their user.
AnonymizeWithoutUnlinking ==
  /\ \E e \in ElectionIds : LegacyVoters(e, {"linked"}) # {}
  /\ participation' = [e \in ElectionIds |-> participation[e] \union
                         {<<key, account[a].student>> : a \in LegacyVoters(e, {"linked"})}]
  /\ UNCHANGED <<electionVars, rosterVars, electorateVars, cast, votes, snapshots, legacy,
                 key, openings>>

\* scripts/anonymize-votes.ts --apply, one transaction.
AnonymizeVotes ==
  /\ \E e \in ElectionIds : LegacyVoters(e, {"linked"}) # {}
  /\ participation' = [e \in ElectionIds |-> participation[e] \union
                         {<<key, account[a].student>> : a \in LegacyVoters(e, {"linked"})}]
  /\ legacy' = [e \in ElectionIds |-> [a \in AccountIds |->
                  IF legacy[e][a] = "linked" THEN "anonymised" ELSE legacy[e][a]]]
  /\ UNCHANGED <<electionVars, rosterVars, electorateVars, cast, votes, snapshots, key, openings>>

\* A new secret becomes current and the previous ones are retained.
RotateSecret ==
  /\ key < MaxKey
  /\ RotateInFlight \/ \A c \in CastIds : ~InFlight(c)
  /\ key' = key + 1
  /\ UNCHANGED <<electionVars, rosterVars, electorateVars, castVars, openings>>

-----------------------------------------------------------------------------
(* The other components, given the facts their guards need. *)

TransitionElection(e, to, opens, closes, t) ==
  /\ to = "open" => openings[e] < MaxOpenings
  /\ Transition(e, to, opens, closes, t, FormComplete(e), HasBallots(e))
  /\ SnapshotElectorate(e, to)
  /\ openings' = [openings EXCEPT ![e] = IF to = "open" THEN @ + 1 ELSE @]
  /\ UNCHANGED <<rosterVars, castVars, key>>

ChangeElection(e) ==
  \/ \E to \in Statuses, opens \in OpenTimes \union {Null}, closes \in CloseTimes \union {Null},
        t \in WorkerClock :
       TransitionElection(e, to, opens, closes, t)
  \/ EditElection(e) /\ UNCHANGED <<rosterVars, electorateVars, castVars, key, openings>>
  \/ EditRoster(e) /\ UNCHANGED <<electionVars, electorateVars, castVars, key, openings>>

\* Deleting a users row clears user_id in the votes that referred to it.
ChangeAccounts ==
  /\ ManageAccounts
  /\ legacy' = [e \in ElectionIds |-> [a \in AccountIds |->
                  IF account'[a].state = "deleted" /\ legacy[e][a] = "linked"
                    THEN "unlinked" ELSE legacy[e][a]]]
  /\ UNCHANGED <<electionVars, rosterVars, cast, ballotVars, key, openings>>

-----------------------------------------------------------------------------
Init ==
  /\ ElectionsInit
  /\ RosterInit
  /\ account = [a \in AccountIds |-> [state |-> "unborn", student |-> Null, bySuperAdmin |-> FALSE]]
  /\ electorate = [e \in ElectionIds |-> {}]
  /\ cast = [c \in CastIds |-> NoCast]
  /\ votes = [e \in ElectionIds |-> {}]
  /\ snapshots = [e \in ElectionIds |-> {}]
  /\ participation = [e \in ElectionIds |-> {}]
  /\ legacy = [e \in ElectionIds |-> [a \in AccountIds |-> "none"]]
  /\ key = 1
  /\ openings = [e \in ElectionIds |-> 0]

Next ==
  \/ Tick /\ UNCHANGED <<rosterVars, electorateVars, castVars, key, openings>>
  \/ \E e \in ElectionIds : ChangeElection(e) \/ \E a \in AccountIds : LegacyVote(a, e)
  \/ ChangeAccounts
  \/ \E c \in CastIds : CastStep(c)
  \/ AnonymizeVotes
  \/ RotateSecret

Spec == Init /\ [][Next]_vars
-----------------------------------------------------------------------------
(* What the queries report. *)

\* getTurnout: NULL says that ballots exist and cannot be counted.
TotalBallotsCast(e) ==
  LET linked == LegacyVoters(e, {"linked"})
  IN IF participation[e] # {} \/ linked # {}
       THEN Cardinality(participation[e]) + Cardinality(linked)
     ELSE IF snapshots[e] # {} THEN Cardinality(snapshots[e])
     ELSE IF HasBallots(e) THEN Null
     ELSE 0

-----------------------------------------------------------------------------
(* Properties. *)

\* Whose ballots are in e, whichever writer put them there.
VotersByCast(e) == {StudentOf(c) : c \in votes[e]}
VotersByLink(e) == {account[a].student : a \in LegacyVoters(e, LegacyStates \ {"none"})}

\* A student has at most one ballot in an election: however their requests, on
\* however many sessions and accounts, interleave between the participation
\* check and the batch; after an account is deleted and registered again; while
\* the backfill converts the ballots of the linking writer; after a rotation.
OneBallotPerStudent ==
  \A e \in ElectionIds :
    /\ \A c, d \in votes[e] : StudentOf(c) = StudentOf(d) => c = d
    /\ \A a, b \in LegacyVoters(e, LegacyStates \ {"none"}) :
         account[a].student = account[b].student => a = b
    /\ VotersByCast(e) \intersect VotersByLink(e) = {}

\* Why that is so, part by part. A request that is being served holds the
\* current secret, and no recorded hash is under a later one.
SecretsAgree ==
  /\ \A c \in CastIds : InFlight(c) => cast[c].key = key
  /\ \A e \in ElectionIds : \A h \in participation[e] : h[1] <= key

\* Once a request has seen no hash of its student, the only one that can still
\* appear is the one its own batch would insert, and then the batch fails.
PassedHashCheck(c) ==
  \/ cast[c].phase \in {"unvoted", "ready"}
  \/ cast[c].phase = "admitted" /\ "hash" \notin cast[c].pending /\ ~cast[c].voted

OnlyOwnHash ==
  \A c \in CastIds : PassedHashCheck(c) =>
    \A h \in participation[cast[c].election] : h[2] = StudentOf(c) => h[1] = cast[c].key

\* Likewise for the linked votes, which only the backfill turns into hashes.
PassedLinkCheck(c) ==
  \/ cast[c].phase \in {"unvoted", "ready"}
  \/ cast[c].phase = "admitted" /\ "link" \notin cast[c].pending /\ ~cast[c].voted

NoOwnLink ==
  \A c \in CastIds : PassedLinkCheck(c) => legacy[cast[c].election][cast[c].account] # "linked"

\* A linked vote of the student of a request is a vote of the request's account.
LinksAreOwn ==
  \A c \in CastIds, e \in ElectionIds : \A a \in LegacyVoters(e, {"linked"}) :
    InFlight(c) /\ account[a].student = StudentOf(c) => a = cast[c].account

\* Every ballot has left its hash, but for the linked ones, which have their user.
BallotsRecorded ==
  \A e \in ElectionIds :
    /\ \A c \in votes[e] : /\ cast[c].phase = "counted" /\ cast[c].election = e
                           /\ \E h \in participation[e] : h[2] = StudentOf(c)
    /\ \A a \in LegacyVoters(e, {"anonymised"}) :
         \E h \in participation[e] : h[2] = account[a].student
    /\ \A a \in LegacyVoters(e, {"linked"}) : HasUserRow(a)
    /\ \A a \in LegacyVoters(e, {"unlinked"}) : ~HasUserRow(a)
    /\ \A a \in LegacyVoters(e, LegacyStates \ {"none"}) :
         LegacyBallots /\ (~HasUserRow(a) => Ended(e))

\* Requests and linked votes belong to accounts that exist or existed.
AccountsKnown ==
  /\ \A a \in AccountIds : account[a].state # "unborn" => account[a].student \in StudentIds
  /\ \A c \in CastIds : cast[c].phase # "idle" =>
       /\ cast[c].account \in AccountIds /\ cast[c].election \in ElectionIds
       /\ account[cast[c].account].state # "unborn"
  /\ \A e \in ElectionIds, a \in AccountIds :
       legacy[e][a] # "none" => account[a].state # "unborn"

\* A student has one account at a time.
AccountsUnique ==
  \A a, b \in AccountIds :
    HasUserRow(a) /\ HasUserRow(b) /\ account[a].student = account[b].student => a = b

\* An election with ballots is no draft.
BallotsHoldElection ==
  \A e \in ElectionIds : HasBallots(e) => election[e].status \notin {"absent", "draft"}

\* All of it together is preserved by every step; VotingProofs shows so.
ParticipationInv ==
  /\ OneBallotPerStudent /\ SecretsAgree /\ OnlyOwnHash /\ NoOwnLink /\ LinksAreOwn
  /\ BallotsRecorded /\ AccountsKnown /\ AccountsUnique /\ BallotsHoldElection

\* Nobody is turned away as having voted who has not: the client treats
\* VOTE_ALREADY_CAST as proof that an earlier attempt was counted.
AlreadyCastIsTrue ==
  \A c \in CastIds :
    cast[c].phase = "VOTE_ALREADY_CAST" =>
      StudentOf(c) \in VotersByCast(cast[c].election) \union VotersByLink(cast[c].election)

\* The turnout adds two tables that three writers fill; it is the number of
\* ballots, before, during and after the backfill, unless a user with a linked
\* ballot has been deleted.
TurnoutExact ==
  \A e \in ElectionIds :
    LegacyVoters(e, {"unlinked"}) = {} =>
      TotalBallotsCast(e) =
        Cardinality(votes[e]) + Cardinality(LegacyVoters(e, LegacyStates \ {"none"}))

\* Every ballot in the box has one selection for each position of its election.
BallotsComplete ==
  \A e \in ElectionIds : \A c \in votes[e] :
    {s.position : s \in cast[c].selections} = ListByElection(e)

\* Such a ballot also names only candidates that stand, once per position, when
\* the election did not go back to draft and open again while it was being
\* cast: the reads of the form, at different moments, still agree.
BallotsFitForm ==
  \A e \in ElectionIds : \A c \in votes[e] :
    cast[c].opening = openings[e] =>
      /\ ValidBallot(cast[c].selections, UNION {ActiveFor(p) : p \in PositionIds}, ListByElection(e))
      /\ \A p \in ListByElection(e) : \E s \in cast[c].selections : s.position = p

\* The turnout is a share of the electorate: a ballot comes from an account
\* that was counted when the election opened, or that a super admin registered
\* by hand, unless the request is older than the present opening.
OnlyElectorateVotes ==
  \A e \in ElectionIds : \A c \in votes[e] :
    cast[c].opening = openings[e] =>
      cast[c].account \in electorate[e] \/ account[cast[c].account].bySuperAdmin

\* Once an election has a ballot its form never changes, so a ballot keeps the
\* meaning it was cast with.
FormFixedByBallots ==
  [][\A e \in ElectionIds : HasBallots(e) =>
       /\ ListByElection(e)' = ListByElection(e)
       /\ \A p \in ListByElection(e) : ActiveFor(p)' = ActiveFor(p)]_vars

\* Once voting has ended with a ballot in the box, the box is the result: it
\* stays as it is and voting never resumes, whatever is still in flight.
ResultsAreFinal ==
  [][\A e \in ElectionIds : Ended(e) /\ HasBallots(e) =>
       /\ Ended(e)'
       /\ votes'[e] = votes[e]
       /\ VotersByLink(e)' = VotersByLink(e)]_vars

\* Voting, with all its tables, requests and repairs, is a ballot box.
Stage(e) ==
  CASE election[e].status \in {"absent", "draft"} -> "preparing"
    [] election[e].status = "open" -> "voting"
    [] OTHER -> "final"

BoxOf(e) ==
  {<<StudentOf(c), c>> : c \in votes[e]} \union
  {<<account[a].student, a>> : a \in LegacyVoters(e, LegacyStates \ {"none"})}

Box == INSTANCE BallotBox
         WITH Elections <- ElectionIds, Students <- StudentIds,
              Ballots <- CastIds \union AccountIds,
              stage <- [e \in ElectionIds |-> Stage(e)], box <- [e \in ElectionIds |-> BoxOf(e)]

\* Every behaviour of the tables is a behaviour of the ballot box.
ImplementsBallotBox == Box!Spec
=============================================================================
