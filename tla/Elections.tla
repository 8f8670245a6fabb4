------------------------------ MODULE Elections ------------------------------
(***************************************************************************)
(* The elections table and its lifecycle.                                  *)
(*                                                                         *)
(* A libSQL write transaction is serialised against every other write, so  *)
(* each coordinator call that runs inside db.transaction is one action.    *)
(* Two clocks matter: `now' is the database clock (unixepoch() in the      *)
(* triggers and in the compare-and-set of an extension), and a Worker's    *)
(* Date.now() may be off by at most Skew seconds either way.               *)
(*                                                                         *)
(* What a transition needs to know of the other tables (is the ballot form *)
(* complete, does a ballot exist) is a parameter of the action; the module *)
(* that composes the tables supplies the real value, and ElectionsNext     *)
(* leaves it free.                                                         *)
(***************************************************************************)
EXTENDS Integers, Absence

CONSTANTS
  ElectionIds,  \* identities that may ever be given to an election
  OpenTimes,    \* the opening times an administrator may send
  CloseTimes,   \* the closing times an administrator may send
  MaxTime,      \* bound: the database clock stops here
  Skew          \* how far a Worker clock may be from the database clock

ASSUME NullAssumption == Null \notin Int
ASSUME ClockAssumption == OpenTimes \union CloseTimes \subseteq Int /\ MaxTime \in Nat /\ Skew \in Nat

VARIABLES
  now,          \* the database clock, in seconds
  election      \* ElectionIds -> row, status "absent" when there is no row

electionVars == <<now, election>>

Statuses == {"draft", "open", "closed", "archived"}

Row == [status : Statuses \union {"absent"},
        opensAt : Int \union {Null}, closesAt : Int \union {Null}]

NoRow == [status |-> "absent", opensAt |-> Null, closesAt |-> Null]

ElectionsTypeOK ==
  /\ now \in 0..MaxTime
  /\ election \in [ElectionIds -> Row]

-----------------------------------------------------------------------------
(* Pure rules of the lifecycle. *)

\* Mutant: a closed election may be opened again directly.
TransitionsWithReopen ==
  {<<"draft", "open">>, <<"open", "closed">>, <<"closed", "archived">>, <<"closed", "draft">>,
   <<"closed", "open">>}

TRANSITIONS ==
  {<<"draft", "open">>, <<"open", "closed">>, <<"closed", "archived">>, <<"closed", "draft">>}

CanTransition(from, to) == <<from, to>> \in TRANSITIONS

\* Mutant: a closed election may be edited too.
EditableUnlessRunning(e) == election[e].status \in {"draft", "closed"}

IsElectionEditable(e) == election[e].status = "draft"

\* Mutant: an election that is still to come counts as over.
StatusOverBeforeOpening(row, t) ==
  IF row.status # "open" THEN row.status
  ELSE IF row.opensAt = Null \/ row.closesAt = Null \/ t < row.opensAt THEN "closed"
  ELSE IF t > row.closesAt THEN "closed"
  ELSE "open"

\* The status a reader is shown at time t: an open row counts as a draft before
\* its window and as closed after it.
EffectiveStatus(row, t) ==
  IF row.status # "open" THEN row.status
  ELSE IF row.opensAt = Null \/ row.closesAt = Null \/ t < row.opensAt THEN "draft"
  ELSE IF t > row.closesAt THEN "closed"
  ELSE "open"

\* What a Worker may read from its own clock.
WorkerClock == (now - Skew)..(now + Skew)

\* The rows election.status = 'open'; the table has at most one.
OpenElections == {e \in ElectionIds : election[e].status = "open"}

\* The window the votes trigger and an extension demand, by the database clock.
InWindow(e) ==
  /\ election[e].status = "open"
  /\ election[e].opensAt # Null /\ election[e].closesAt # Null
  /\ election[e].opensAt <= now /\ now <= election[e].closesAt

ResolvedOpensAt(row, to, opens) ==
  IF to = "draft" THEN Null ELSE IF opens # Null THEN opens ELSE row.opensAt

ResolvedClosesAt(row, to, closes, t) ==
  IF to = "draft" THEN Null
  ELSE IF closes # Null THEN closes
  ELSE IF to = "closed" /\ (row.closesAt = Null \/ t < row.closesAt) THEN t
  ELSE row.closesAt

\* Mutant: an empty window is accepted.
MayOpenForNothing(opensAt, closesAt, ready) ==
  /\ ready
  /\ opensAt # Null /\ closesAt # Null
  /\ closesAt >= opensAt

\* What assertTransition demands of draft -> open besides the edge itself: a
\* complete ballot form and a window that is not empty.
MayOpen(opensAt, closesAt, ready) ==
  /\ ready
  /\ opensAt # Null /\ closesAt # Null
  /\ closesAt > opensAt

\* Opening one election closes the other one whose window has passed.
Superseded(e, to) == IF to = "open" THEN OpenElections \ {e} ELSE {}

\* idx_elections_one_open, the partial unique index on status = 'open'.
IdxOneOpen(rows) ==
  \A e, f \in ElectionIds : rows[e].status = "open" /\ rows[f].status = "open" => e = f

-----------------------------------------------------------------------------
Tick ==
  /\ now < MaxTime
  /\ now' = now + 1
  /\ UNCHANGED election

CreateElection(e, opens, closes) ==
  /\ election[e].status = "absent"
  /\ election' = [election EXCEPT ![e] =
                    [status |-> "draft", opensAt |-> opens, closesAt |-> closes]]
  /\ UNCHANGED now

\* A field the request leaves out keeps its value, so each input is either a
\* new value or the one already there.
UpdateMetadata(e, opens, closes) ==
  /\ IsElectionEditable(e)
  /\ election' = [election EXCEPT ![e] = [@ EXCEPT !.opensAt = opens, !.closesAt = closes]]
  /\ UNCHANGED now

\* Mutant: the Worker's clock alone decides.
ExtendByWorkerClock(e, closes, t) ==
  /\ EffectiveStatus(election[e], t) = "open"
  /\ closes > election[e].closesAt
  /\ election' = [election EXCEPT ![e].closesAt = closes]
  /\ UNCHANGED now

\* The Worker clock decides first; the UPDATE repeats the test on the database
\* clock (its compare-and-set on closes_at cannot fail inside the transaction).
ExtendClosingTime(e, closes, t) ==
  /\ EffectiveStatus(election[e], t) = "open"
  /\ closes > election[e].closesAt
  /\ InWindow(e)
  /\ election' = [election EXCEPT ![e].closesAt = closes]
  /\ UNCHANGED now

\* One transaction: the election that is in the way is closed, the times are
\* resolved, the edge is validated and the row is updated, or nothing happens.
Transition(e, to, opens, closes, t, ready, hasBallots) ==
  LET row == election[e]
      opensAt == ResolvedOpensAt(row, to, opens)
      closesAt == ResolvedClosesAt(row, to, closes, t)
  IN /\ CanTransition(row.status, to)
     /\ \A f \in Superseded(e, to) : EffectiveStatus(election[f], t) = "closed"
     /\ to = "open" => MayOpen(opensAt, closesAt, ready)
     /\ to = "draft" => ~hasBallots
     /\ election' = [f \in ElectionIds |->
                       IF f = e
                         THEN [status |-> to, opensAt |-> opensAt, closesAt |-> closesAt]
                       ELSE IF f \in Superseded(e, to)
                         THEN [election[f] EXCEPT !.status = "closed"]
                       ELSE election[f]]
     /\ IdxOneOpen(election')
     /\ UNCHANGED now

-----------------------------------------------------------------------------
ElectionsInit ==
  /\ now = 0
  /\ election = [e \in ElectionIds |-> NoRow]

EditElection(e) ==
  \/ \E opens \in OpenTimes \union {Null}, closes \in CloseTimes \union {Null} :
       CreateElection(e, opens, closes)
  \/ \E opens \in OpenTimes \union {Null, election[e].opensAt},
        closes \in CloseTimes \union {Null, election[e].closesAt} : UpdateMetadata(e, opens, closes)
  \/ \E closes \in CloseTimes, t \in WorkerClock : ExtendClosingTime(e, closes, t)

ElectionsNext ==
  \/ Tick
  \/ \E e \in ElectionIds :
       \/ EditElection(e)
       \/ \E to \in Statuses, opens \in OpenTimes \union {Null}, closes \in CloseTimes \union {Null},
             t \in WorkerClock, ready, hasBallots \in BOOLEAN :
            Transition(e, to, opens, closes, t, ready, hasBallots)

ElectionsSpec == ElectionsInit /\ [][ElectionsNext]_electionVars

-----------------------------------------------------------------------------
(* Properties. *)

\* Voting in e is over: by the clock, or because the election was closed.
Ended(e) ==
  \/ election[e].status \in {"closed", "archived"}
  \/ election[e].status = "open" /\ now > election[e].closesAt

\* At most one election is open, whatever the order in which administrators
\* open, extend and close several of them.
OneOpenElection == IdxOneOpen(election)

\* An open election always has a window, and the window is not empty: the
\* check of the times sees the values that are stored, not those of the request.
OpenHasWindow ==
  \A e \in OpenElections :
    /\ election[e].opensAt # Null /\ election[e].closesAt # Null
    /\ election[e].opensAt < election[e].closesAt

\* Voting that has ended never resumes behind the administrators' backs: the
\* only way on is back to draft. An extension that races the deadline, on a
\* Worker whose clock is behind, does not revive the election.
NoSilentResume ==
  [][\A e \in ElectionIds : Ended(e) /\ ~Ended(e)' => election'[e].status = "draft"]_electionVars

\* Opening an election displaces another one only when that one's window has
\* passed, to within the error of the Worker's clock; an election that is still
\* to come, or that is running, is never closed by opening another.
NoEarlyDisplacement ==
  [][\A e, f \in ElectionIds :
       /\ e # f
       /\ election[f].status = "open" /\ election'[f].status # "open"
       /\ election[e].status # "open" /\ election'[e].status = "open"
       => now + Skew > election[f].closesAt]_electionVars
=============================================================================
