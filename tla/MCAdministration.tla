--------------------------- MODULE MCAdministration --------------------------
(* An instance of Administration for TLC.                                     *)
EXTENDS Administration

CONSTANTS u1, u2, s1, s2, t1, t2, A1, A2, A3, N1, N2, n1, c1, c2

\* The page of accounts: an administrator and a voter.
MCRoleOf == [u \in {u1, u2} |-> IF u = u1 THEN "admin" ELSE "user"]

UsersBudget(type, filter, change, view, other) ==
  [type |-> type, filter |-> filter, change |-> change, view |-> view, other |-> other]
MCPageBudgets ==
  {UsersBudget(2, 2, 0, 0, 0), UsersBudget(3, 1, 0, 0, 0), UsersBudget(1, 0, 1, 1, 0),
   UsersBudget(0, 0, 2, 2, 0), UsersBudget(0, 1, 1, 1, 1)}

\* The import: a student may be listed twice, and a line may be broken.
RosterLine(student, hasParseError) == [student |-> student, hasParseError |-> hasParseError]
MCRosters ==
  {<<>>, <<RosterLine(s1, FALSE), RosterLine(s2, FALSE), RosterLine(s1, FALSE)>>, <<RosterLine(s2, TRUE), RosterLine(s1, FALSE)>>}
MCScriptRosters == {<<s1, s2, s1>>}
MCImportBudget == [parse |-> 2, edit |-> 1, submit |-> 2, other |-> 1]

\* The audit log: several rows of one second, of two targets.
LogRow(time, id, target) == [time |-> time, id |-> id, target |-> target]
MCInitialRows == {LogRow(1, 1, t1), LogRow(1, 3, t1), LogRow(1, 4, t2), LogRow(2, 2, t1), LogRow(2, 6, t1)}

AuditBudget(write, filter, turn, expand) ==
  [write |-> write, filter |-> filter, turn |-> turn, expand |-> expand]
MCAuditBudgets ==
  {AuditBudget(1, 0, 5, 0), AuditBudget(0, 2, 2, 0), AuditBudget(0, 1, 5, 0), AuditBudget(1, 1, 1, 1)}

\* The page of an election: two presets beside the first positions.
MCPresets == <<c1, c2>>
ElectionBudget(submit, order, lifecycle, other) ==
  [submit |-> submit, order |-> order, lifecycle |-> lifecycle, other |-> other]
MCElectionPageBudgets ==
  {ElectionBudget(2, 0, 0, 1), ElectionBudget(1, 1, 0, 0), ElectionBudget(2, 0, 1, 0),
   ElectionBudget(0, 1, 1, 0), ElectionBudget(0, 0, 2, 0), ElectionBudget(0, 0, 1, 1)}

\* Accounts: two super administrators, and an administrator or none.
MCAdministrators == [a \in {A1, A2, A3, N1, N2} |->
  CASE a \in {A1, A2} -> "super_admin" [] a = A3 -> "admin" [] OTHER -> Null]
MCBeginnings == {MCAdministrators, [MCAdministrators EXCEPT ![A3] = Null]}
MCGiven == {<<n1, 0>>, <<n1, 1>>}
Imported(student, profane) == [student |-> student, base |-> n1, profane |-> profane]
MCLists == {<<Imported(s1, profane), Imported(s2, FALSE)>> : profane \in BOOLEAN}

\* The cells of a CSV text: empty, with a space to trim, and with what must be quoted.
MCBareCells == {<<>>, <<"x">>, <<"space", "x">>}
MCQuotedCells == {<<>>, <<"x">>, <<"quote">>, <<"comma">>, <<"lf">>}
=============================================================================
