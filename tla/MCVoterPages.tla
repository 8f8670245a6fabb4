---------------------------- MODULE MCVoterPages -----------------------------
(* An instance of VoterPages for TLC: two voters share the browser; one       *)
(* position, whose candidate an edit of the form may replace.                 *)
EXTENDS VoterPages

CONSTANTS u1, u2, p1, k1, k2, a1, c1, c2

MCForms == {<<[id |-> p1, options |-> {k1}]>>, <<[id |-> p1, options |-> {k2}]>>}
MCFirstForm == <<[id |-> p1, options |-> {k1}]>>
MCPartyOf == [k \in {k1, k2} |-> IF k = k1 THEN a1 ELSE Null]

Quiet == [change |-> 0, cast |-> 0, login |-> 0, logout |-> 0, hide |-> 0, countdown |-> 0, submit |-> 1]
MCBudgets == {
  [Quiet EXCEPT !["change"] = 2, !["cast"] = 1, !["countdown"] = 1],
  [Quiet EXCEPT !["change"] = 3, !["countdown"] = 1],
  [Quiet EXCEPT !["countdown"] = 1, !["logout"] = 1, !["cast"] = 1],
  [Quiet EXCEPT !["logout"] = 2, !["login"] = 1],
  [Quiet EXCEPT !["hide"] = 1, !["logout"] = 1, !["login"] = 1]}

\* The results: browser clocks that are behind, right and ahead.
MCFirstVotes == [c \in {c1, c2} |-> IF c = c1 THEN 1 ELSE 0]
MCOffsets == {-1, 0, 1}

ResultsBudget(cast, poll, change) == [cast |-> cast, poll |-> poll, change |-> change]
MCResultsBudgets == {ResultsBudget(1, 1, 1), ResultsBudget(2, 1, 0), ResultsBudget(1, 2, 0)}

\* Turnout: no ballots, ballots of known voters, anonymised ones, a mixture, and ballots
\* most of whose voters were deleted.
TallyRows(votes1, votes2, participation, linked, snapshots) ==
  [votes |-> [c \in {c1, c2} |-> IF c = c1 THEN votes1 ELSE votes2], participation |-> participation,
   linked |-> linked, snapshots |-> snapshots]
MCTallies ==
  {TallyRows(0, 0, 0, 0, 0), TallyRows(1, 1, 0, 2, 0), TallyRows(2, 0, 0, 0, 0), TallyRows(2, 1, 1, 1, 1),
   TallyRows(2, 1, 0, 1, 3)}
==============================================================================
