----------------------------- MODULE PositionOrder -----------------------------
(***************************************************************************)
(* The order in which the positions of an election are shown. A reorder    *)
(* rewrites the rows one UPDATE at a time under the unique index on        *)
(* (election_id, display_order): first to temporary orders below every     *)
(* order in the table, then to 0, 1, 2, ... The whole request is one       *)
(* transaction; an UPDATE that violates the index rolls all of it back.    *)
(***************************************************************************)
EXTENDS Roster, FiniteSets, Sequences

CONSTANT Orders    \* the display orders a request may carry

ASSUME OrdersAssumption == Orders \subseteq Int

VARIABLE displayOrder   \* PositionIds -> display_order, Null when there is no row

orderVars == <<electionVars, rosterVars, displayOrder>>

Listed == {p \in PositionIds : position[p].state = "listed"}

PositionOrderTypeOK ==
  /\ ElectionsTypeOK /\ RosterTypeOK
  /\ displayOrder \in [PositionIds -> Int \union {Null}]
  /\ \A p \in PositionIds : displayOrder[p] # Null <=> p \in Listed

\* idx_positions_election_display_order
IdxDisplayOrder(order, e) ==
  \A p, q \in ListByElection(e) : order[p] = order[q] => p = q

Least(S) == CHOOSE m \in S : \A n \in S : m <= n
Greatest(S) == CHOOSE m \in S : \A n \in S : n <= m

OrdersOf(S) == {displayOrder[p] : p \in S}

-----------------------------------------------------------------------------
(* positionRepo.reorder *)

\* The table after the first n UPDATEs of a pass that numbers ids from start.
AfterUpdates(order, ids, start, n) ==
  [p \in PositionIds |->
     IF \E i \in 1..n : ids[i] = p THEN start + (CHOOSE i \in 1..n : ids[i] = p) - 1 ELSE order[p]]

\* None of the UPDATEs of the pass violates the index.
PassSucceeds(order, ids, start, e) ==
  \A n \in 1..Len(ids) : IdxDisplayOrder(AfterUpdates(order, ids, start, n), e)

\* The minimum is taken over the positions of all elections.
MinOrder == IF Listed = {} THEN 0 ELSE Least(OrdersOf(Listed))

\* Mutant: one too high.
TemporaryStartAtMinimum(ids) == MinOrder - Len(ids) + 1

TemporaryStart(ids) == MinOrder - Len(ids)

Parked(ids) == AfterUpdates(displayOrder, ids, TemporaryStart(ids), Len(ids))

ReorderSucceeds(ids, e) ==
  /\ PassSucceeds(displayOrder, ids, TemporaryStart(ids), e)
  /\ PassSucceeds(Parked(ids), ids, 0, e)

\* Mutant: the second pass is missing.
ReorderedOnce(ids) == Parked(ids)

Reordered(ids) == AfterUpdates(Parked(ids), ids, 0, Len(ids))

\* The requests that pass validation: the election's positions, each once.
Permutation(ids, e) ==
  /\ \A i, j \in DOMAIN ids : ids[i] = ids[j] => i = j
  /\ {ids[i] : i \in DOMAIN ids} = ListByElection(e)

-----------------------------------------------------------------------------
\* Mutant: the maximum of an empty list is NULL.
NextOrderOrNull(e) ==
  IF ListByElection(e) = {} THEN Null ELSE Greatest(OrdersOf(ListByElection(e))) + 1

\* A create without an order appends to the election's list.
NextOrder(e) ==
  IF ListByElection(e) = {} THEN 0 ELSE Greatest(OrdersOf(ListByElection(e))) + 1

CreatePositionAt(p, e, asked) ==
  /\ CreatePosition(p, e)
  /\ displayOrder' = [displayOrder EXCEPT ![p] = IF asked = Null THEN NextOrder(e) ELSE asked]
  /\ IdxDisplayOrder(displayOrder, e)'

UpdateDisplayOrder(p, e, asked) ==
  /\ p \in ListByElection(e)
  /\ IsElectionEditable(e)
  /\ displayOrder' = [displayOrder EXCEPT ![p] = asked]
  /\ IdxDisplayOrder(displayOrder', e)
  /\ UNCHANGED rosterVars

DeletePositionRow(p, e) ==
  /\ DeletePosition(p, e)
  /\ displayOrder' = [displayOrder EXCEPT ![p] = Null]

Reorder(e, ids) ==
  /\ IsElectionEditable(e)
  /\ Permutation(ids, e)
  /\ ReorderSucceeds(ids, e)
  /\ displayOrder' = Reordered(ids)
  /\ UNCHANGED rosterVars

-----------------------------------------------------------------------------
PositionOrderInit ==
  /\ ElectionsInit
  /\ RosterInit
  /\ displayOrder = [p \in PositionIds |-> Null]

Orderings(e) == [1..Cardinality(ListByElection(e)) -> ListByElection(e)]

ChangeOrder(e) ==
  \/ \E p \in PositionIds :
       \/ \E asked \in Orders \union {Null} : CreatePositionAt(p, e, asked)
       \/ \E asked \in Orders : UpdateDisplayOrder(p, e, asked)
       \/ DeletePositionRow(p, e)
  \/ \E ids \in Orderings(e) : Reorder(e, ids)

ChangeCandidates(e) ==
  \E k \in CandidateIds, p \in PositionIds : CreateCandidate(k, p, e) \/ DeactivateCandidate(k, p, e)

\* Whether the election has ballots is left open here.
ChangeLifecycle(e) ==
  \/ EditElection(e)
  \/ \E to \in Statuses, opens \in OpenTimes \union {Null}, closes \in CloseTimes \union {Null},
        t \in WorkerClock, hasBallots \in BOOLEAN :
       Transition(e, to, opens, closes, t, FormComplete(e), hasBallots)

PositionOrderNext ==
  \E e \in ElectionIds :
    \/ ChangeOrder(e) /\ UNCHANGED electionVars
    \/ ChangeCandidates(e) /\ UNCHANGED <<electionVars, displayOrder>>
    \/ ChangeLifecycle(e) /\ UNCHANGED <<rosterVars, displayOrder>>

PositionOrderSpec == PositionOrderInit /\ [][PositionOrderNext]_orderVars

-----------------------------------------------------------------------------
(* Properties. *)

\* A reorder that goes through, from whatever orders earlier requests have left
\* behind, numbers the positions 0, 1, 2, ... as asked; no temporary order
\* remains, and the lists of the other elections stay as they are.
ReorderAsAsked ==
  \A e \in ElectionIds : \A ids \in Orderings(e) :
    Permutation(ids, e) /\ ReorderSucceeds(ids, e) =>
      /\ \A i \in DOMAIN ids : Reordered(ids)[ids[i]] = i - 1
      /\ \A p \in PositionIds \ ListByElection(e) : Reordered(ids)[p] = displayOrder[p]

\* The first pass parks the positions below the minimum "to avoid unique
\* constraint collisions": a valid reorder never violates the index.
ReorderNeverCollides ==
  \A e \in ElectionIds : \A ids \in Orderings(e) : Permutation(ids, e) => ReorderSucceeds(ids, e)

\* What the code does instead: the parked orders overlap the final ones just
\* when the lowest order in the table is positive and below the length of the
\* list, and then every reorder of that list fails, the identity too.
ReorderCollidesExactly ==
  \A e \in ElectionIds : \A ids \in Orderings(e) :
    Permutation(ids, e) => (ReorderSucceeds(ids, e) <=> MinOrder \notin 1..(Len(ids) - 1))

\* Whoever has been put up, active or not, stands for a position that is still listed and
\* has an order: the pages and the ballots that name the position find its row.
CandidatesListed ==
  \A k \in CandidateIds : candidate[k].state # "unborn" =>
    /\ candidate[k].position \in Listed
    /\ displayOrder[candidate[k].position] # Null

\* The orders are well formed, every reorder that goes through does what it was asked
\* (PositionRepository.reorder), and no candidate loses the position.
OrderCorrect == PositionOrderTypeOK /\ ReorderAsAsked /\ CandidatesListed
=============================================================================
