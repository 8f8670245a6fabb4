---------------------------- MODULE MCResultsCache ----------------------------
(* Instances of ResultsCache for TLC. *)
EXTENDS ResultsCache, TLC

CONSTANTS e1, e2

\* A start at which an earlier election, e2, is archived with a ballot in its box,
\* so that the states go into the election that follows it, e1, which is still to
\* be created or has been drafted.
PastInit ==
  /\ now = 1
  /\ \E row \in {NoRow, [status |-> "draft", opensAt |-> 0, closesAt |-> 1]} :
       election = (e1 :> row) @@ (e2 :> [status |-> "archived", opensAt |-> 0, closesAt |-> 1])
  /\ version = (e1 :> 0) @@ (e2 :> 1)
  /\ tally = (e1 :> 0) @@ (e2 :> 1)
  /\ request = [r \in RequestIds |-> NoRequest]
  /\ query = [r \in RequestIds |-> NoQuery]
  /\ cache = NoEntry
  /\ rewound = {}

PastSpec == PastInit /\ [][Next]_vars

Symmetry == Permutations(RequestIds)
=============================================================================
