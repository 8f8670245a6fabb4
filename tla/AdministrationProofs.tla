------------------------- MODULE AdministrationProofs -------------------------
(***************************************************************************)
(* Theorems about the administration: accounts on the server, for any      *)
(* number of accounts, requests, students and lists; the page of accounts, *)
(* the page of an election and the page of the audit log in the browser,   *)
(* for any texts, users, presets and rows and any number of steps; and the *)
(* whole they are parts of, with the lifecycle of elections                *)
(* (ElectionsProofs) and the rosters (RosterProofs) beside them.           *)
(***************************************************************************)
EXTENDS Administration, ElectionsProofs, RosterProofs, FiniteSetTheorems, WellFoundedInduction, TLAPS

-----------------------------------------------------------------------------
(* The accounts on the server. *)

RowFields == {"state", "role", "student", "name", "by"}

RequestFields ==
  {"phase", "op", "actor", "role", "student", "newRole", "name", "list", "names", "students", "answer"}

\* Rows and requests have their fields; what students and names are does not matter.
IsRow(x) == x = [f \in RowFields |-> x[f]]

IsRequest(q) == q = [f \in RequestFields |-> q[f]]

RowsOK ==
  /\ accountRow = [a \in AccountIds |-> accountRow[a]]
  /\ \A a \in AccountIds : IsRow(accountRow[a])

RequestsOK ==
  /\ accountRequest = [r \in RequestIds |-> accountRequest[r]]
  /\ \A r \in RequestIds : IsRequest(accountRequest[r])

\* A request has the role of its actor: no account changes its rank, and none is
\* made under an identity that has been used.
ActorInv ==
  \A r \in RequestIds :
    LET q == accountRequest[r]
    IN q.phase # "idle" =>
         /\ q.actor \in AccountIds
         /\ accountRow[q.actor].state # "unborn"
         /\ accountRow[q.actor].role = q.role

\* A request that is about to make an administrator, or has made one, may do so.
RegisterInv ==
  \A r \in RequestIds :
    LET q == accountRequest[r]
    IN (q.phase # "idle" /\ q.newRole # "user") => q.role = "super_admin"

\* A request that has made an account is done.
MadeInv ==
  \A a \in AccountIds :
    LET by == accountRow[a].by
    IN by # Null => /\ by \in RequestIds /\ accountRequest[by].phase = "done"
                    /\ accountRow[a].role # "user" => accountRequest[by].role = "super_admin"

AccountsInv ==
  /\ RowsOK /\ RequestsOK /\ ActorInv /\ RegisterInv /\ MadeInv
  /\ AdministratorRemains /\ SuperAdministratorRemains

-----------------------------------------------------------------------------
(* What the actions do to requests and rows. *)

\* Request r has moved on: it is still for the same actor, in the same role.
Moves(r) ==
  /\ RequestsOK'
  /\ \A s \in RequestIds \ {r} : accountRequest'[s] = accountRequest[s]
  /\ accountRequest'[r].actor = accountRequest[r].actor
  /\ accountRequest'[r].role = accountRequest[r].role
  /\ accountRequest[r].phase # "idle"
  /\ accountRequest'[r].phase # "idle"

\* The fields of the records that the actions write.
LEMMA Records ==
  /\ IsRequest(IdleRequest) /\ IdleRequest.newRole = "user"
  /\ IsRow(NoAccount)
  /\ \A state, role, student, name, by :
       IsRow([state |-> state, role |-> role, student |-> student, name |-> name, by |-> by])
BY DEF IsRequest, RequestFields, IdleRequest, IsRow, RowFields, NoAccount

\* One request is replaced.
LEMMA ReplaceRequest ==
  ASSUME RequestsOK, NEW r \in RequestIds, NEW q, IsRequest(q),
         accountRequest' = [accountRequest EXCEPT ![r] = q]
  PROVE  /\ RequestsOK'
         /\ accountRequest'[r] = q
         /\ \A s \in RequestIds \ {r} : accountRequest'[s] = accountRequest[s]
<1>1. /\ accountRequest' = [s \in RequestIds |-> accountRequest'[s]]
      /\ accountRequest'[r] = q
      /\ \A s \in RequestIds \ {r} : accountRequest'[s] = accountRequest[s]
  BY DEF RequestsOK
<1>2. ASSUME NEW s \in RequestIds PROVE IsRequest(accountRequest'[s])
  <2>1. CASE s = r
    BY <1>1, <2>1
  <2>2. CASE s # r
    BY <1>1, <2>2 DEF RequestsOK
  <2> QED BY <2>1, <2>2
<1>3. RequestsOK'
  BY <1>1, <1>2 DEF RequestsOK, IsRequest
<1> QED BY <1>1, <1>3

\* An answer ends a request and leaves the others alone.
LEMMA AnswerMoves ==
  ASSUME RequestsOK, NEW r \in RequestIds, NEW answer, Answer(r, answer),
         accountRequest[r].phase # "idle"
  PROVE  /\ Moves(r) /\ accountRequest'[r].phase = "done"
         /\ accountRequest'[r].newRole = accountRequest[r].newRole
<1> DEFINE q == accountRequest[r]
           q2 == [q EXCEPT !.phase = "done", !.answer = answer, !.names = {}, !.students = {}]
<1>1. IsRequest(q)
  BY DEF RequestsOK
<1>2. /\ IsRequest(q2) /\ q2.phase = "done" /\ q2.actor = q.actor /\ q2.role = q.role
      /\ q2.newRole = q.newRole
  BY <1>1 DEF IsRequest, RequestFields
<1>3. accountRequest' = [accountRequest EXCEPT ![r] = q2]
  BY DEF Answer
<1> HIDE DEF q2
<1>4. /\ RequestsOK' /\ accountRequest'[r] = q2
      /\ \A s \in RequestIds \ {r} : accountRequest'[s] = accountRequest[s]
  BY <1>2, <1>3, ReplaceRequest
<1> QED BY <1>2, <1>4 DEF Moves

-----------------------------------------------------------------------------
(* Steps that leave the accounts alone. *)

\* A request that moves on without changing an account.
LEMMA QuietStep ==
  ASSUME AccountsInv, NEW r \in RequestIds, Moves(r), accountRequest[r].phase # "done",
         UNCHANGED <<accountRow, overtaken>>,
         LET q == accountRequest'[r]
         IN (q.phase # "idle" /\ q.newRole # "user") => q.role = "super_admin"
  PROVE  AccountsInv'
<1>1. RowsOK' /\ RequestsOK'
  BY DEF AccountsInv, RowsOK, IsRow, Moves
<1>2. ActorInv'
  <2> SUFFICES ASSUME NEW s \in RequestIds, accountRequest'[s].phase # "idle"
               PROVE  /\ accountRequest'[s].actor \in AccountIds
                      /\ accountRow[accountRequest'[s].actor].state # "unborn"
                      /\ accountRow[accountRequest'[s].actor].role = accountRequest'[s].role
    BY DEF ActorInv
  <2>1. /\ accountRequest[s].phase # "idle"
        /\ accountRequest'[s].actor = accountRequest[s].actor
        /\ accountRequest'[s].role = accountRequest[s].role
    BY DEF Moves
  <2> QED BY <2>1 DEF AccountsInv, ActorInv
<1>3. RegisterInv'
  BY DEF AccountsInv, RegisterInv, Moves
<1>4. MadeInv'
  <2> SUFFICES ASSUME NEW a \in AccountIds, accountRow[a].by # Null
               PROVE  /\ accountRow[a].by \in RequestIds
                      /\ accountRequest'[accountRow[a].by] = accountRequest[accountRow[a].by]
                      /\ accountRequest[accountRow[a].by].phase = "done"
                      /\ accountRow[a].role # "user" => accountRequest[accountRow[a].by].role = "super_admin"
    BY DEF MadeInv
  <2> QED BY DEF AccountsInv, MadeInv, Moves
<1>5. AdministratorRemains' /\ SuperAdministratorRemains'
  BY DEF AccountsInv, AdministratorRemains, SuperAdministratorRemains, ActiveAdmins, ActiveSuperAdmins, Active, IsAdmin
<1> QED BY <1>1, <1>2, <1>3, <1>4, <1>5 DEF AccountsInv

\* A refusal ends a request and changes nothing else.
LEMMA RefuseStep ==
  ASSUME AccountsInv, NEW r \in RequestIds, Refuse(r),
         accountRequest[r].phase \in {"authenticated", "committing"}
  PROVE  AccountsInv'
<1>1. /\ Moves(r) /\ accountRequest'[r].phase = "done"
      /\ accountRequest'[r].newRole = accountRequest[r].newRole
  BY AnswerMoves DEF Refuse, AccountsInv
<1>2. accountRequest'[r].newRole # "user" => accountRequest'[r].role = "super_admin"
  BY <1>1 DEF AccountsInv, RegisterInv, Moves
<1> QED BY <1>1, <1>2, QuietStep DEF Refuse

\* The role a request carries is that of its actor at this moment.
LEMMA AuthenticateStep ==
  ASSUME AccountsInv, NEW r \in RequestIds, NEW actor \in AccountIds, NEW op, Authenticate(r, actor, op)
  PROVE  AccountsInv'
<1> DEFINE q2 == [IdleRequest EXCEPT !.phase = "authenticated", !.op = op, !.actor = actor,
                                     !.role = accountRow[actor].role]
<1>1. /\ IsRequest(q2) /\ q2.phase = "authenticated" /\ q2.actor = actor
      /\ q2.role = accountRow[actor].role /\ q2.newRole = "user"
  BY Records DEF IsRequest, RequestFields
<1>2. accountRequest' = [accountRequest EXCEPT ![r] = q2]
  BY DEF Authenticate
<1> HIDE DEF q2
<1>3. /\ RequestsOK' /\ accountRequest'[r] = q2
      /\ \A s \in RequestIds \ {r} : accountRequest'[s] = accountRequest[s]
  BY <1>1, <1>2, ReplaceRequest DEF AccountsInv
<1>4. /\ accountRow' = accountRow /\ overtaken' = overtaken
      /\ accountRow[actor].state = "active" /\ accountRequest[r].phase = "idle"
  BY DEF Authenticate, Active
<1>5. RowsOK'
  BY <1>4 DEF AccountsInv, RowsOK, IsRow
<1>6. ActorInv'
  BY <1>1, <1>3, <1>4 DEF AccountsInv, ActorInv
<1>7. RegisterInv'
  BY <1>1, <1>3 DEF AccountsInv, RegisterInv
<1>8. MadeInv'
  BY <1>3, <1>4 DEF AccountsInv, MadeInv
<1>9. AdministratorRemains' /\ SuperAdministratorRemains'
  BY <1>4 DEF AccountsInv, AdministratorRemains, SuperAdministratorRemains, ActiveAdmins, ActiveSuperAdmins, Active, IsAdmin
<1> QED BY <1>3, <1>5, <1>6, <1>7, <1>8, <1>9 DEF AccountsInv

\* The check of register: what it lets pass may be made.
LEMMA BeginRegisterStep ==
  ASSUME AccountsInv, NEW r \in RequestIds, NEW s, NEW role, NEW name, BeginRegister(r, s, role, name)
  PROVE  AccountsInv'
<1> DEFINE q == accountRequest[r]
           q2 == [q EXCEPT !.phase = "committing", !.student = s, !.newRole = role, !.name = name]
<1>1. IsRequest(q) /\ q.phase = "authenticated"
  BY DEF AccountsInv, RequestsOK, BeginRegister, Arrived
<1>2. /\ IsRequest(q2) /\ q2.phase = "committing" /\ q2.actor = q.actor /\ q2.role = q.role
      /\ q2.newRole = role
  BY <1>1 DEF IsRequest, RequestFields
<1>3. accountRequest' = [accountRequest EXCEPT ![r] = q2]
  BY DEF BeginRegister, AccountsInv, RequestsOK
<1> HIDE DEF q2
<1>4. /\ RequestsOK' /\ accountRequest'[r] = q2
      /\ \A t \in RequestIds \ {r} : accountRequest'[t] = accountRequest[t]
  BY <1>2, <1>3, ReplaceRequest DEF AccountsInv
<1>5. role # "user" => q2.role = "super_admin"
  BY <1>2 DEF BeginRegister, MayRegister
<1>6. Moves(r)
  BY <1>1, <1>2, <1>4 DEF Moves
<1> QED BY <1>1, <1>2, <1>4, <1>5, <1>6, QuietStep DEF BeginRegister

\* The first read of bulkImport.
LEMMA BeginImportStep ==
  ASSUME AccountsInv, NEW r \in RequestIds, NEW list, BeginImport(r, list)
  PROVE  AccountsInv'
<1> DEFINE q == accountRequest[r]
           q2 == [q EXCEPT !.phase = "reading", !.list = list, !.students = KnownStudents]
<1>1. IsRequest(q) /\ q.phase = "authenticated"
  BY DEF AccountsInv, RequestsOK, BeginImport, Arrived
<1>2. IsRequest(q2) /\ q2.phase = "reading" /\ q2.actor = q.actor /\ q2.role = q.role /\ q2.newRole = q.newRole
  BY <1>1 DEF IsRequest, RequestFields
<1>3. accountRequest' = [accountRequest EXCEPT ![r] = q2]
  BY DEF BeginImport, AccountsInv, RequestsOK
<1> HIDE DEF q2
<1>4. /\ RequestsOK' /\ accountRequest'[r] = q2
      /\ \A t \in RequestIds \ {r} : accountRequest'[t] = accountRequest[t]
  BY <1>2, <1>3, ReplaceRequest DEF AccountsInv
<1>5. Moves(r)
  BY <1>1, <1>2, <1>4 DEF Moves
<1>6. q2.newRole # "user" => q2.role = "super_admin"
  BY <1>1, <1>2 DEF AccountsInv, RegisterInv
<1> QED BY <1>1, <1>2, <1>4, <1>5, <1>6, QuietStep DEF BeginImport

\* The second read of bulkImport.
LEMMA ReadNamesStep ==
  ASSUME AccountsInv, NEW r \in RequestIds, ReadNames(r)
  PROVE  AccountsInv'
<1> DEFINE q == accountRequest[r]
           q2 == [q EXCEPT !.phase = "committing", !.names = TakenNames]
<1>1. IsRequest(q) /\ q.phase = "reading"
  BY DEF AccountsInv, RequestsOK, ReadNames
<1>2. IsRequest(q2) /\ q2.phase = "committing" /\ q2.actor = q.actor /\ q2.role = q.role /\ q2.newRole = q.newRole
  BY <1>1 DEF IsRequest, RequestFields
<1>3. accountRequest' = [accountRequest EXCEPT ![r] = q2]
  BY DEF ReadNames, AccountsInv, RequestsOK
<1> HIDE DEF q2
<1>4. /\ RequestsOK' /\ accountRequest'[r] = q2
      /\ \A t \in RequestIds \ {r} : accountRequest'[t] = accountRequest[t]
  BY <1>2, <1>3, ReplaceRequest DEF AccountsInv
<1>5. Moves(r)
  BY <1>1, <1>2, <1>4 DEF Moves
<1>6. q2.newRole # "user" => q2.role = "super_admin"
  BY <1>1, <1>2 DEF AccountsInv, RegisterInv
<1> QED BY <1>1, <1>2, <1>4, <1>5, <1>6, QuietStep DEF ReadNames

-----------------------------------------------------------------------------
(* Steps that change accounts. *)

\* Nobody is an administrator who was none under the same identity, and what request r
\* makes it may make.
Makes(r) ==
  \A a \in AccountIds :
    IF accountRow[a].state = "unborn"
    THEN \/ accountRow'[a] = accountRow[a]
         \/ accountRow'[a].by = r /\ (accountRow'[a].role # "user" => accountRequest[r].role = "super_admin")
    ELSE /\ accountRow'[a].state # "unborn"
         /\ accountRow'[a].role = accountRow[a].role /\ accountRow'[a].by = accountRow[a].by

\* A request that ends with a change of accounts.
LEMMA ChangeStep ==
  ASSUME AccountsInv, NEW r \in RequestIds, NEW answer, Answer(r, answer),
         accountRequest[r].phase \in {"authenticated", "committing"},
         RowsOK', Makes(r), AdministratorRemains', SuperAdministratorRemains'
  PROVE  AccountsInv'
<1>1. /\ Moves(r) /\ accountRequest'[r].phase = "done"
      /\ accountRequest'[r].newRole = accountRequest[r].newRole
  BY AnswerMoves DEF AccountsInv
<1>2. ActorInv'
  <2> SUFFICES ASSUME NEW s \in RequestIds, accountRequest'[s].phase # "idle"
               PROVE  /\ accountRequest'[s].actor \in AccountIds
                      /\ accountRow'[accountRequest'[s].actor].state # "unborn"
                      /\ accountRow'[accountRequest'[s].actor].role = accountRequest'[s].role
    BY DEF ActorInv
  <2>1. /\ accountRequest[s].phase # "idle"
        /\ accountRequest'[s].actor = accountRequest[s].actor
        /\ accountRequest'[s].role = accountRequest[s].role
    BY <1>1 DEF Moves
  <2>2. /\ accountRequest[s].actor \in AccountIds
        /\ accountRow[accountRequest[s].actor].state # "unborn"
        /\ accountRow[accountRequest[s].actor].role = accountRequest[s].role
    BY <2>1 DEF AccountsInv, ActorInv
  <2> QED BY <2>1, <2>2 DEF Makes
<1>3. RegisterInv'
  BY <1>1 DEF AccountsInv, RegisterInv, Moves
<1>4. MadeInv'
  <2> SUFFICES ASSUME NEW a \in AccountIds, accountRow'[a].by # Null
               PROVE  /\ accountRow'[a].by \in RequestIds
                      /\ accountRequest'[accountRow'[a].by].phase = "done"
                      /\ accountRow'[a].role # "user" => accountRequest'[accountRow'[a].by].role = "super_admin"
    BY DEF MadeInv
  <2>1. CASE accountRow'[a].by = r /\ (accountRow'[a].role # "user" => accountRequest[r].role = "super_admin")
    BY <1>1, <2>1 DEF Moves
  <2>2. CASE accountRow'[a].role = accountRow[a].role /\ accountRow'[a].by = accountRow[a].by
    <3>1. /\ accountRow[a].by \in RequestIds
          /\ accountRequest[accountRow[a].by].phase = "done"
          /\ accountRow[a].role # "user" => accountRequest[accountRow[a].by].role = "super_admin"
      BY <2>2 DEF AccountsInv, MadeInv
    <3> QED BY <1>1, <2>2, <3>1 DEF Moves
  <2> QED BY <2>1, <2>2 DEF Makes
<1> QED BY <1>1, <1>2, <1>3, <1>4 DEF AccountsInv, Moves

\* A step that takes nobody's place away keeps the administrators.
LEMMA NoLoss ==
  ASSUME AccountsInv, overtaken => overtaken',
         \A a \in AccountIds : accountRow[a].state = "active" =>
           accountRow'[a].state = "active" /\ accountRow'[a].role = accountRow[a].role
  PROVE  AdministratorRemains' /\ SuperAdministratorRemains'
<1>1. ActiveAdmins \subseteq ActiveAdmins'
  BY DEF ActiveAdmins, Active, IsAdmin
<1>2. ActiveSuperAdmins \subseteq ActiveSuperAdmins'
  BY DEF ActiveAdmins, ActiveSuperAdmins, Active, IsAdmin
<1> QED BY <1>1, <1>2 DEF AccountsInv, AdministratorRemains, SuperAdministratorRemains

\* Where there is more than one administrator there is another one.
LEMMA AnotherAdmin ==
  ASSUME MoreThanOneAdmin, NEW a
  PROVE  \E b \in ActiveAdmins : b # a
<1>1. IsFiniteSet(ActiveAdmins)
  BY AccountsAssumption, FS_Subset DEF ActiveAdmins
<1>2. Cardinality(ActiveAdmins) \in Nat /\ Cardinality(ActiveAdmins) > 1
  BY <1>1, FS_CardinalityType DEF MoreThanOneAdmin
<1>3. Cardinality(ActiveAdmins \ {a}) # 0 /\ IsFiniteSet(ActiveAdmins \ {a})
  BY <1>1, <1>2, FS_RemoveElement
<1>4. ActiveAdmins \ {a} # {}
  BY <1>3, FS_EmptySet
<1> QED BY <1>4

\* Archiving and deleting: an active administrator goes only where there are others, for
\* an actor of another account, who is a super administrator as long as it is there.
LEMMA Loss ==
  ASSUME AccountsInv, NEW r \in RequestIds, NEW a \in AccountIds, NEW state,
         accountRequest[r].phase = "authenticated",
         accountRequest[r].actor # a, MayChange(r, a),
         (IsAdmin(a) /\ Active(a)) => MoreThanOneAdmin,
         accountRow' = [accountRow EXCEPT ![a].state = state], NoteActor(r)
  PROVE  AdministratorRemains' /\ SuperAdministratorRemains'
<1>1. \A b \in AccountIds \ {a} : accountRow'[b] = accountRow[b]
  BY DEF AccountsInv, RowsOK
<1>2. \A b \in ActiveAdmins \ {a} : b \in ActiveAdmins'
  BY <1>1 DEF ActiveAdmins, Active, IsAdmin
<1>3. \A b \in ActiveSuperAdmins \ {a} : b \in ActiveSuperAdmins'
  BY <1>1, <1>2 DEF ActiveAdmins, ActiveSuperAdmins
<1>4. AdministratorRemains'
  <2>1. CASE a \in ActiveAdmins
    <3>1. MoreThanOneAdmin
      BY <2>1 DEF ActiveAdmins
    <3> QED BY <1>2, <3>1, AnotherAdmin DEF AdministratorRemains
  <2>2. CASE a \notin ActiveAdmins
    BY <1>2, <2>2 DEF AccountsInv, AdministratorRemains
  <2> QED BY <2>1, <2>2
<1>5. SuperAdministratorRemains'
  <2>1. CASE a \in ActiveSuperAdmins
    <3> DEFINE actor == accountRequest[r].actor
    <3>1. accountRequest[r].role = "super_admin"
      BY <2>1 DEF ActiveSuperAdmins, ActiveAdmins, MayChange
    <3>2. actor \in AccountIds /\ accountRow[actor].role = "super_admin"
      BY <3>1 DEF AccountsInv, ActorInv
    <3>3. CASE Active(actor)
      <4>1. actor \in ActiveSuperAdmins \ {a}
        BY <3>2, <3>3 DEF ActiveSuperAdmins, ActiveAdmins, IsAdmin, AdminRoles
      <4> QED BY <1>3, <4>1 DEF SuperAdministratorRemains
    <3>4. CASE ~Active(actor)
      BY <3>4 DEF NoteActor, SuperAdministratorRemains
    <3> QED BY <3>3, <3>4
  <2>2. CASE a \notin ActiveSuperAdmins
    BY <1>3, <2>2 DEF AccountsInv, SuperAdministratorRemains, NoteActor
  <2> QED BY <2>1, <2>2
<1> QED BY <1>4, <1>5

\* The fields of a row of which one is replaced.
LEMMA ReplaceField ==
  ASSUME RowsOK, NEW a \in AccountIds, NEW f \in {"state", "name"}, NEW v,
         accountRow' = [accountRow EXCEPT ![a] = [accountRow[a] EXCEPT ![f] = v]]
  PROVE  /\ RowsOK'
         /\ accountRow'[a][f] = v
         /\ \A g \in RowFields \ {f} : accountRow'[a][g] = accountRow[a][g]
         /\ \A b \in AccountIds \ {a} : accountRow'[b] = accountRow[b]
<1> DEFINE x == [accountRow[a] EXCEPT ![f] = v]
<1>1. IsRow(x) /\ x[f] = v /\ \A g \in RowFields \ {f} : x[g] = accountRow[a][g]
  BY DEF RowsOK, IsRow, RowFields
<1>2. accountRow' = [accountRow EXCEPT ![a] = x]
  OBVIOUS
<1> HIDE DEF x
<1>3. /\ accountRow' = [b \in AccountIds |-> accountRow'[b]]
      /\ accountRow'[a] = x
      /\ \A b \in AccountIds \ {a} : accountRow'[b] = accountRow[b]
  BY <1>2 DEF RowsOK
<1>4. ASSUME NEW b \in AccountIds PROVE IsRow(accountRow'[b])
  <2>1. CASE b = a
    BY <1>1, <1>3, <2>1
  <2>2. CASE b # a
    BY <1>3, <2>2 DEF RowsOK
  <2> QED BY <2>1, <2>2
<1>5. RowsOK'
  BY <1>3, <1>4 DEF RowsOK, IsRow
<1> QED BY <1>1, <1>3, <1>5

\* Archiving.
LEMMA SoftDeleteStep ==
  ASSUME AccountsInv, NEW r \in RequestIds, NEW a \in AccountIds, SoftDeleteAccount(r, a)
  PROVE  AccountsInv'
<1>1. accountRequest[r].phase = "authenticated"
  BY DEF SoftDeleteAccount, Arrived
<1>2. CASE MayArchive(r, a)
  <2>1. /\ accountRow' = [accountRow EXCEPT ![a] = [accountRow[a] EXCEPT !["state"] = "archived"]]
        /\ Answer(r, [NoAnswer EXCEPT !.result = "ok"]) /\ NoteActor(r)
    BY <1>2 DEF SoftDeleteAccount, Accept
  <2>2. /\ RowsOK'
        /\ accountRow'[a].state = "archived"
        /\ accountRow'[a].role = accountRow[a].role /\ accountRow'[a].by = accountRow[a].by
        /\ \A b \in AccountIds \ {a} : accountRow'[b] = accountRow[b]
    BY <2>1, ReplaceField DEF AccountsInv, RowFields
  <2>3. Makes(r)
    BY <1>2, <2>2 DEF Makes, MayArchive, Active
  <2>4. AdministratorRemains' /\ SuperAdministratorRemains'
    BY <1>1, <1>2, <2>1, Loss DEF MayArchive
  <2> QED BY <1>1, <2>1, <2>2, <2>3, <2>4, ChangeStep
<1>3. CASE ~MayArchive(r, a)
  BY <1>1, <1>3, RefuseStep DEF SoftDeleteAccount
<1> QED BY <1>2, <1>3

\* Permanent deletion.
LEMMA HardDeleteStep ==
  ASSUME AccountsInv, NEW r \in RequestIds, NEW a \in AccountIds, HardDeleteAccount(r, a)
  PROVE  AccountsInv'
<1>1. accountRequest[r].phase = "authenticated"
  BY DEF HardDeleteAccount, Arrived
<1>2. CASE MayDelete(r, a)
  <2>1. /\ accountRow' = [accountRow EXCEPT ![a] = [accountRow[a] EXCEPT !["state"] = "deleted"]]
        /\ Answer(r, [NoAnswer EXCEPT !.result = "ok"]) /\ NoteActor(r)
    BY <1>2 DEF HardDeleteAccount, Accept
  <2>2. /\ RowsOK'
        /\ accountRow'[a].state = "deleted"
        /\ accountRow'[a].role = accountRow[a].role /\ accountRow'[a].by = accountRow[a].by
        /\ \A b \in AccountIds \ {a} : accountRow'[b] = accountRow[b]
    BY <2>1, ReplaceField DEF AccountsInv, RowFields
  <2>3. Makes(r)
    BY <1>2, <2>2 DEF Makes, MayDelete, Exists
  <2>4. AdministratorRemains' /\ SuperAdministratorRemains'
    BY <1>1, <1>2, <2>1, Loss DEF MayDelete
  <2> QED BY <1>1, <2>1, <2>2, <2>3, <2>4, ChangeStep
<1>3. CASE ~MayDelete(r, a)
  BY <1>1, <1>3, RefuseStep DEF HardDeleteAccount
<1> QED BY <1>2, <1>3

\* Restoring brings an account back in its rank.
LEMMA RestoreStep ==
  ASSUME AccountsInv, NEW r \in RequestIds, NEW a \in AccountIds, RestoreAccount(r, a)
  PROVE  AccountsInv'
<1> DEFINE may == accountRow[a].state = "archived" /\ MayChange(r, a) /\ MayChangeElectorate(a)
<1>1. accountRequest[r].phase = "authenticated"
  BY DEF RestoreAccount, Arrived
<1>2. CASE may
  <2>1. /\ accountRow' = [accountRow EXCEPT ![a] = [accountRow[a] EXCEPT !["state"] = "active"]]
        /\ Answer(r, [NoAnswer EXCEPT !.result = "ok"]) /\ NoteActor(r)
    BY <1>2 DEF RestoreAccount, Accept
  <2>2. /\ RowsOK'
        /\ accountRow'[a].state = "active"
        /\ accountRow'[a].role = accountRow[a].role /\ accountRow'[a].by = accountRow[a].by
        /\ \A b \in AccountIds \ {a} : accountRow'[b] = accountRow[b]
    BY <2>1, ReplaceField DEF AccountsInv, RowFields
  <2>3. Makes(r)
    BY <1>2, <2>2 DEF Makes
  <2>4. AdministratorRemains' /\ SuperAdministratorRemains'
    BY <2>1, <2>2, NoLoss DEF NoteActor
  <2> QED BY <1>1, <2>1, <2>2, <2>3, <2>4, ChangeStep
<1>3. CASE ~may
  BY <1>1, <1>3, RefuseStep DEF RestoreAccount
<1> QED BY <1>2, <1>3

\* An update changes a name.
LEMMA UpdateStep ==
  ASSUME AccountsInv, NEW r \in RequestIds, NEW a \in AccountIds, NEW name, UpdateAccount(r, a, name)
  PROVE  AccountsInv'
<1> DEFINE may == /\ Exists(a) /\ MayChange(r, a)
                  /\ \A b \in AccountIds \ {a} : Exists(b) => accountRow[b].name # name
<1>1. accountRequest[r].phase = "authenticated"
  BY DEF UpdateAccount, Arrived
<1>2. CASE may
  <2>1. /\ accountRow' = [accountRow EXCEPT ![a] = [accountRow[a] EXCEPT !["name"] = name]]
        /\ Answer(r, [NoAnswer EXCEPT !.result = "ok"]) /\ NoteActor(r)
    BY <1>2 DEF UpdateAccount, Accept
  <2>2. /\ RowsOK'
        /\ accountRow'[a].state = accountRow[a].state
        /\ accountRow'[a].role = accountRow[a].role /\ accountRow'[a].by = accountRow[a].by
        /\ \A b \in AccountIds \ {a} : accountRow'[b] = accountRow[b]
    BY <2>1, ReplaceField DEF AccountsInv, RowFields
  <2>3. Makes(r)
    BY <1>2, <2>2 DEF Makes, Exists
  <2>4. AdministratorRemains' /\ SuperAdministratorRemains'
    BY <2>1, <2>2, NoLoss DEF NoteActor
  <2> QED BY <1>1, <2>1, <2>2, <2>3, <2>4, ChangeStep
<1>3. CASE ~may
  BY <1>1, <1>3, RefuseStep DEF UpdateAccount
<1> QED BY <1>2, <1>3

\* The transaction of register: an unused identity gets a row.
LEMMA CommitRegisterStep ==
  ASSUME AccountsInv, NEW r \in RequestIds, CommitRegister(r)
  PROVE  AccountsInv'
<1> DEFINE q == accountRequest[r]
           row == [state |-> "active", role |-> q.newRole, student |-> q.student, name |-> q.name, by |-> r]
<1>1. q.phase = "committing"
  BY DEF CommitRegister
<1>2. CASE Refuse(r)
  BY <1>1, <1>2, RefuseStep
<1>3. CASE \E a \in FreeIds :
             /\ accountRow' = [accountRow EXCEPT ![a] = row]
             /\ Answer(r, [NoAnswer EXCEPT !.result = "ok"]) /\ NoteActor(r)
  <2>1. PICK a \in FreeIds :
          /\ accountRow' = [accountRow EXCEPT ![a] = row]
          /\ Answer(r, [NoAnswer EXCEPT !.result = "ok"]) /\ NoteActor(r)
    BY <1>3
  <2>2. IsRow(row) /\ row.by = r /\ row.role = q.newRole
    BY Records
  <2> HIDE DEF row
  <2>3. a \in AccountIds /\ accountRow[a].state = "unborn"
    BY DEF FreeIds
  <2>4. /\ accountRow' = [b \in AccountIds |-> accountRow'[b]] /\ accountRow'[a] = row
        /\ \A b \in AccountIds \ {a} : accountRow'[b] = accountRow[b]
    BY <2>1, <2>3 DEF AccountsInv, RowsOK
  <2>5. \A b \in AccountIds : IsRow(accountRow[b])
    BY DEF AccountsInv, RowsOK
  <2>6. ASSUME NEW b \in AccountIds PROVE IsRow(accountRow'[b])
    <3>1. CASE b = a
      BY <2>2, <2>4, <3>1
    <3>2. CASE b # a
      BY <2>4, <2>5, <3>2
    <3> QED BY <3>1, <3>2
  <2>7. RowsOK'
    BY <2>4, <2>6 DEF RowsOK, IsRow
  <2>8. Makes(r)
    BY <1>1, <2>2, <2>3, <2>4 DEF Makes, AccountsInv, RegisterInv
  <2>9. AdministratorRemains' /\ SuperAdministratorRemains'
    BY <2>1, <2>3, <2>4, NoLoss DEF NoteActor
  <2> QED BY <1>1, <2>1, <2>7, <2>8, <2>9, ChangeStep
<1> QED BY <1>2, <1>3 DEF CommitRegister, Accept

\* The transaction of bulkImport: unused identities become voters.
LEMMA CommitImportStep ==
  ASSUME AccountsInv, NEW r \in RequestIds, CommitImport(r)
  PROVE  AccountsInv'
<1> DEFINE q == accountRequest[r]
           plan == ImportPlan(q.list, q.students, q.names)
           RowOf(p) == [state |-> "active", role |-> "user", student |-> p[1], name |-> p[2], by |-> r]
           answer == [result |-> "ok", imported |-> plan.imported, skipped |-> plan.skipped]
<1>1. q.phase = "committing"
  BY DEF CommitImport
<1>2. CASE Refuse(r)
  BY <1>1, <1>2, RefuseStep
<1>3. CASE /\ \E ids \in [plan.imported -> FreeIds] :
                accountRow' = [a \in AccountIds |->
                  IF \E p \in plan.imported : ids[p] = a
                  THEN LET p == CHOOSE p \in plan.imported : ids[p] = a IN RowOf(p)
                  ELSE accountRow[a]]
           /\ Answer(r, answer) /\ NoteActor(r)
  <2> HIDE DEF plan
  <2>1. PICK ids \in [plan.imported -> FreeIds] :
          accountRow' = [a \in AccountIds |->
            IF \E p \in plan.imported : ids[p] = a
            THEN LET p == CHOOSE p \in plan.imported : ids[p] = a IN RowOf(p)
            ELSE accountRow[a]]
    BY <1>3
  <2>2. \A p : IsRow(RowOf(p)) /\ RowOf(p).by = r /\ RowOf(p).role = "user" /\ RowOf(p).state = "active"
    BY Records
  <2> HIDE DEF RowOf
  <2>3. ASSUME NEW a \in AccountIds
        PROVE  \/ accountRow'[a] = accountRow[a]
               \/ accountRow[a].state = "unborn" /\ \E p : accountRow'[a] = RowOf(p)
    <3>1. CASE \E p \in plan.imported : ids[p] = a
      <4>1. a \in FreeIds
        BY <3>1
      <4> QED BY <2>1, <3>1, <4>1 DEF FreeIds
    <3>2. CASE ~\E p \in plan.imported : ids[p] = a
      BY <2>1, <3>2
    <3> QED BY <3>1, <3>2
  <2>4. \A b \in AccountIds : IsRow(accountRow[b])
    BY DEF AccountsInv, RowsOK
  <2>5. ASSUME NEW a \in AccountIds PROVE IsRow(accountRow'[a])
    <3>1. CASE accountRow'[a] = accountRow[a]
      BY <2>4, <3>1
    <3>2. CASE \E p : accountRow'[a] = RowOf(p)
      BY <2>2, <3>2
    <3> QED BY <2>3, <3>1, <3>2
  <2>6. accountRow' = [a \in AccountIds |-> accountRow'[a]]
    BY <2>1
  <2>7. RowsOK'
    BY <2>5, <2>6 DEF RowsOK, IsRow
  <2>8. Makes(r)
    BY <2>2, <2>3 DEF Makes
  <2>9. AdministratorRemains' /\ SuperAdministratorRemains'
    BY <1>3, <2>3, NoLoss DEF NoteActor
  <2> QED BY <1>1, <1>3, <2>7, <2>8, <2>9, ChangeStep
<1> QED BY <1>2, <1>3 DEF CommitImport

-----------------------------------------------------------------------------
(* The theorems. *)

\* The administrators of the beginning.
LEMMA AccountsInitially == AccountsInit => AccountsInv
<1> SUFFICES ASSUME AccountsInit PROVE AccountsInv
  OBVIOUS
<1>1. PICK first \in Beginnings : accountRow = FirstRows(first)
  BY DEF AccountsInit
<1>2. first \in [AccountIds -> AdminRoles \union {Null}] /\ \E a \in AccountIds : first[a] = "super_admin"
  BY AccountsAssumption
<1> DEFINE Born(a) == [NoAccount EXCEPT !.state = "active", !.role = first[a], !.student = a, !.name = a]
<1>3. \A a : /\ IsRow(Born(a)) /\ Born(a).state = "active" /\ Born(a).role = first[a] /\ Born(a).by = Null
  BY DEF IsRow, RowFields, NoAccount
<1> HIDE DEF Born
<1>4. \A a \in AccountIds : accountRow[a] = IF first[a] = Null THEN NoAccount ELSE Born(a)
  BY <1>1 DEF FirstRows, Born
<1>5. accountRow = [a \in AccountIds |-> accountRow[a]]
  BY <1>1 DEF FirstRows
<1>6. ASSUME NEW a \in AccountIds PROVE IsRow(accountRow[a]) /\ accountRow[a].by = Null
  <2>1. CASE first[a] = Null
    BY <1>4, <2>1, Records DEF NoAccount
  <2>2. CASE first[a] # Null
    BY <1>3, <1>4, <2>2
  <2> QED BY <2>1, <2>2
<1>7. RowsOK /\ MadeInv
  BY <1>5, <1>6 DEF RowsOK, MadeInv
<1>8. accountRequest = [r \in RequestIds |-> IdleRequest] /\ overtaken = FALSE
  BY DEF AccountsInit
<1>9. RequestsOK /\ ActorInv /\ RegisterInv
  BY <1>8, Records DEF RequestsOK, ActorInv, RegisterInv, IdleRequest
<1>10. ActiveSuperAdmins # {}
  <2>1. PICK a \in AccountIds : first[a] = "super_admin"
    BY <1>2
  <2>2. first[a] # Null
    BY <2>1, AccountsAssumption DEF Roles, AdminRoles
  <2>3. accountRow[a].state = "active" /\ accountRow[a].role = "super_admin"
    BY <1>3, <1>4, <2>1, <2>2
  <2> QED BY <2>3 DEF ActiveSuperAdmins, ActiveAdmins, Active, IsAdmin, AdminRoles
<1>11. AdministratorRemains /\ SuperAdministratorRemains
  BY <1>10 DEF AdministratorRemains, SuperAdministratorRemains, ActiveSuperAdmins
<1> QED BY <1>7, <1>9, <1>11 DEF AccountsInv

\* Every step keeps the invariant.
LEMMA AccountsStep ==
  ASSUME AccountsInv, [AccountsNext]_accountsVars
  PROVE  AccountsInv'
<1>1. CASE UNCHANGED accountsVars
  BY <1>1 DEF accountsVars, AccountsInv, RowsOK, RequestsOK, IsRow, IsRequest, ActorInv, RegisterInv, MadeInv,
              AdministratorRemains, SuperAdministratorRemains, ActiveAdmins, ActiveSuperAdmins, Active, IsAdmin
<1>2. CASE ElectionTurns
  BY <1>2 DEF ElectionTurns, AccountsInv, RowsOK, RequestsOK, IsRow, IsRequest, ActorInv, RegisterInv, MadeInv,
              AdministratorRemains, SuperAdministratorRemains, ActiveAdmins, ActiveSuperAdmins, Active, IsAdmin
<1>3. ASSUME NEW r \in RequestIds, HandleRequest(r) PROVE AccountsInv'
  <2>1. ASSUME NEW actor \in AccountIds, NEW op, Authenticate(r, actor, op) PROVE AccountsInv'
    BY <2>1, AuthenticateStep
  <2>2. ASSUME NEW s, NEW role, NEW name, BeginRegister(r, s, role, name) PROVE AccountsInv'
    BY <2>2, BeginRegisterStep
  <2>3. ASSUME NEW list, BeginImport(r, list) PROVE AccountsInv'
    BY <2>3, BeginImportStep
  <2>4. ASSUME NEW a \in AccountIds,
               SoftDeleteAccount(r, a) \/ RestoreAccount(r, a) \/ HardDeleteAccount(r, a)
                 \/ \E name \in GivenNames : UpdateAccount(r, a, name)
        PROVE  AccountsInv'
    BY <2>4, SoftDeleteStep, RestoreStep, HardDeleteStep, UpdateStep
  <2> QED BY <1>3, <2>1, <2>2, <2>3, <2>4, CommitRegisterStep, ReadNamesStep, CommitImportStep DEF HandleRequest
<1> QED BY <1>1, <1>2, <1>3 DEF AccountsNext

\* Whoever archives, deletes, restores, registers and imports at the same time, the system
\* keeps an administrator, loses its last super administrator only to a request whose actor
\* has been archived or deleted while it ran, and has no administrator that was not made by
\* a super administrator's request.
THEOREM AdministrationKeptTheorem == AccountsSpec => []AdministrationKept
<1>1. AccountsInv => AdministrationKept
  BY DEF AccountsInv, AdministrationKept, AdministratorsBySuper, MadeInv, IsAdmin, AdminRoles
<1> QED BY <1>1, AccountsInitially, AccountsStep, PTL DEF AccountsSpec

-----------------------------------------------------------------------------
(* The plan of an import. *)

PlanStart(students, names) == [students |-> students, names |-> names, imported |-> {}, skipped |-> {}]

\* The plan of the first n records, for every n.
PlansUpTo(plan, n, list, start) ==
  plan = [k \in 0..n |-> IF k = 0 THEN start ELSE ImportStep(plan[k - 1], list[k])]

LEMMA PlansExist ==
  ASSUME NEW L \in Nat, NEW list, NEW start
  PROVE  \E plan : PlansUpTo(plan, L, list, start)
<1> DEFINE P == {n \in Nat : \E plan : PlansUpTo(plan, n, list, start)}
<1>1. 0 \in P
  <2> DEFINE plan == [k \in 0..0 |-> start]
  <2>1. plan = [k \in 0..0 |-> IF k = 0 THEN start ELSE ImportStep(plan[k - 1], list[k])]
    <3>1. \A k \in 0..0 : k = 0
      OBVIOUS
    <3>2. QED
      BY <3>1
  <2> HIDE DEF plan
  <2>2. PlansUpTo(plan, 0, list, start)
    BY <2>1 DEF PlansUpTo
  <2>3. QED
    BY <2>2
<1>2. ASSUME NEW k \in 1..L, k - 1 \in P PROVE k \in P
  <2>1. k \in Nat /\ k # 0 /\ k - 1 \in Nat /\ 0..k = (0..(k - 1)) \union {k} /\ k \notin 0..(k - 1) /\ 0 \in 0..(k - 1)
    OBVIOUS
  <2>2. PICK before : PlansUpTo(before, k - 1, list, start)
    BY <1>2
  <2> DEFINE plan == [j \in 0..k |-> IF j = k THEN ImportStep(before[k - 1], list[k]) ELSE before[j]]
  <2>3. \A j \in 0..(k - 1) : before[j] = IF j = 0 THEN start ELSE ImportStep(before[j - 1], list[j])
    BY <2>2 DEF PlansUpTo
  <2>4. \A j \in 0..(k - 1) : plan[j] = before[j]
    BY <2>1
  <2>5. plan[k] = ImportStep(before[k - 1], list[k])
    BY <2>1
  <2>6. plan = [j \in 0..k |-> plan[j]]
    OBVIOUS
  <2> HIDE DEF plan
  <2>7. \A j \in 0..k : plan[j] = IF j = 0 THEN start ELSE ImportStep(plan[j - 1], list[j])
    <3> SUFFICES ASSUME NEW j \in 0..k PROVE plan[j] = IF j = 0 THEN start ELSE ImportStep(plan[j - 1], list[j])
      OBVIOUS
    <3>1. CASE j = k
      <4>1. k - 1 \in 0..(k - 1)
        BY <2>1
      <4>2. plan[k - 1] = before[k - 1]
        BY <2>4, <4>1
      <4>3. QED
        BY <2>1, <2>5, <3>1, <4>2
    <3>2. CASE j = 0
      BY <2>1, <2>3, <2>4, <3>2
    <3>3. CASE j # k /\ j # 0
      <4>1. j \in 0..(k - 1) /\ j - 1 \in 0..(k - 1)
        BY <2>1, <3>3
      <4>2. plan[j] = before[j] /\ plan[j - 1] = before[j - 1]
        BY <2>4, <4>1
      <4>3. QED
        BY <2>3, <3>3, <4>1, <4>2
    <3>4. QED
      BY <3>1, <3>2, <3>3
  <2>8. PlansUpTo(plan, k, list, start)
    BY <2>6, <2>7 DEF PlansUpTo
  <2>9. QED
    BY <2>1, <2>8
<1> HIDE DEF P
<1>3. L \in P
  BY <1>1, <1>2, UpTo
<1>4. QED
  BY <1>3 DEF P

PlanFields == {"students", "names", "imported", "skipped"}

IsPlan(plan) == plan = [f \in PlanFields |-> plan[f]]

\* The students a plan imports or skips.
Covered(plan) == {p[1] : p \in plan.imported} \union plan.skipped

LEMMA ImportStepCovers ==
  ASSUME NEW plan, IsPlan(plan), NEW record
  PROVE  /\ IsPlan(ImportStep(plan, record))
         /\ Covered(ImportStep(plan, record)) = Covered(plan) \union {record.student}
<1> DEFINE s == record.student
           name == FirstFreeName(record.base, plan.names)
           next == ImportStep(plan, record)
<1>1. CASE s \in plan.students
  <2>1. next = [plan EXCEPT !.skipped = plan.skipped \union {s}]
    BY <1>1 DEF ImportStep
  <2> HIDE DEF next, s
  <2>2. IsPlan(next) /\ next.imported = plan.imported /\ next.skipped = plan.skipped \union {s}
    BY <2>1 DEF PlanFields, IsPlan
  <2>3. Covered(next) = Covered(plan) \union {s}
    BY <2>2 DEF Covered
  <2>4. QED
    BY <2>2, <2>3 DEF next, s
<1>2. CASE s \notin plan.students /\ record.profane
  <2>1. next = [plan EXCEPT !.students = plan.students \union {s}, !.skipped = plan.skipped \union {s}]
    BY <1>2 DEF ImportStep
  <2> HIDE DEF next, s
  <2>2. IsPlan(next) /\ next.imported = plan.imported /\ next.skipped = plan.skipped \union {s}
    BY <2>1 DEF PlanFields, IsPlan
  <2>3. Covered(next) = Covered(plan) \union {s}
    BY <2>2 DEF Covered
  <2>4. QED
    BY <2>2, <2>3 DEF next, s
<1>3. CASE s \notin plan.students /\ ~record.profane
  <2>1. next = [plan EXCEPT !.students = plan.students \union {s}, !.names = plan.names \union {name},
                            !.imported = plan.imported \union {<<s, name>>}]
    BY <1>3 DEF ImportStep
  <2> HIDE DEF next, name, s
  <2>2. IsPlan(next) /\ next.imported = plan.imported \union {<<s, name>>} /\ next.skipped = plan.skipped
    BY <2>1 DEF PlanFields, IsPlan
  <2>3. ASSUME NEW pairs PROVE {p[1] : p \in pairs \union {<<s, name>>}} = {p[1] : p \in pairs} \union {s}
    <3> DEFINE new == <<s, name>>
    <3>1. new[1] = s
      OBVIOUS
    <3> HIDE DEF new
    <3>2. {p[1] : p \in pairs \union {new}} = {p[1] : p \in pairs} \union {s}
      BY <3>1
    <3>3. QED
      BY <3>2 DEF new
  <2>4. Covered(next) = Covered(plan) \union {s}
    BY <2>2, <2>3 DEF Covered
  <2>5. QED
    BY <2>2, <2>4 DEF next, s
<1>4. QED
  BY <1>1, <1>2, <1>3

\* The plan imports or skips every student of the list, and nobody else.
LEMMA PlanCoversList ==
  ASSUME NEW list, list \in Seq(ToSet(list)), NEW students, NEW names
  PROVE  LET plan == ImportPlan(list, students, names)
         IN {list[i].student : i \in DOMAIN list} = Covered(plan)
<1> DEFINE L == Len(list)
           start == PlanStart(students, names)
           plans == CHOOSE plan : PlansUpTo(plan, L, list, start)
<1>1. L \in Nat /\ DOMAIN list = 1..L
  OBVIOUS
<1>2. ImportPlan(list, students, names) = plans[L]
  BY DEF ImportPlan, PlansUpTo, PlanStart
<1>3. PlansUpTo(plans, L, list, start)
  BY <1>1, PlansExist
<1> HIDE DEF plans
<1>4. \A k \in 0..L : plans[k] = IF k = 0 THEN start ELSE ImportStep(plans[k - 1], list[k])
  BY <1>3 DEF PlansUpTo
<1> DEFINE first(n) == {list[i].student : i \in 1..n}
           P == {n \in 0..L : IsPlan(plans[n]) /\ first(n) = Covered(plans[n])}
<1>5. 0 \in P
  <2>1. plans[0] = start /\ 0 \in 0..L
    BY <1>1, <1>4
  <2>2. IsPlan(start) /\ start.imported = {} /\ start.skipped = {}
    BY DEF PlanStart, PlanFields, IsPlan
  <2> HIDE DEF start
  <2>3. first(0) = {} /\ Covered(start) = {}
    BY <2>2 DEF Covered
  <2>4. QED
    BY <2>1, <2>2, <2>3
<1>6. ASSUME NEW k \in 1..L, k - 1 \in P PROVE k \in P
  <2>1. k \in 0..L /\ k # 0 /\ 1..k = 1..(k - 1) \union {k}
    BY <1>1
  <2>2. plans[k] = ImportStep(plans[k - 1], list[k])
    BY <1>4, <2>1
  <2>3. first(k) = first(k - 1) \union {list[k].student}
    BY <2>1
  <2> HIDE DEF first
  <2>4. IsPlan(plans[k - 1]) /\ first(k - 1) = Covered(plans[k - 1])
    BY <1>6
  <2>5. IsPlan(plans[k]) /\ Covered(plans[k]) = first(k - 1) \union {list[k].student}
    BY <2>2, <2>4, ImportStepCovers
  <2>6. QED
    BY <2>1, <2>3, <2>5
<1> HIDE DEF P
<1>7. \A k \in 0..L : k \in P
  <2> HIDE DEF L
  <2>1. QED
    BY <1>1, <1>5, <1>6, UpTo
<1>8. L \in P
  BY <1>1, <1>7
<1>9. QED
  BY <1>1, <1>2, <1>8 DEF P

-----------------------------------------------------------------------------
(* What an import tells of. *)

\* The students of the accounts that request r has made.
MadeBy(r) == {accountRow[a].student : a \in {b \in AccountIds : accountRow[b].by = r}}

AnswerTrue(r) ==
  LET q == accountRequest[r]
  IN (q.phase = "done" /\ q.op = "import" /\ q.answer.result = "ok") =>
       /\ {q.list[i].student : i \in DOMAIN q.list} = {p[1] : p \in q.answer.imported} \union q.answer.skipped
       /\ MadeBy(r) = {p[1] : p \in q.answer.imported}

\* An account that was not made yet has no maker.
ImportInv ==
  /\ \A r \in RequestIds : AnswerTrue(r)
  /\ \A r \in RequestIds : accountRequest[r].list \in ImportLists \union {<<>>}
  /\ \A a \in AccountIds : accountRow[a].state = "unborn" => accountRow[a].by = Null

\* Accounts keep their student and their maker; new ones are made by r.
KeepsMakers(r) ==
  \A a \in AccountIds :
    \/ accountRow'[a] = accountRow[a]
    \/ /\ accountRow[a].state # "unborn" /\ accountRow'[a].state # "unborn"
       /\ accountRow'[a].by = accountRow[a].by /\ accountRow'[a].student = accountRow[a].student
    \/ accountRow[a].state = "unborn" /\ accountRow'[a].state # "unborn" /\ accountRow'[a].by = r

\* A step of request r: what the others have told stays true.
LEMMA ImportKept ==
  ASSUME ImportInv, NEW r \in RequestIds, KeepsMakers(r), AnswerTrue(r)',
         \A s \in RequestIds \ {r} : accountRequest'[s] = accountRequest[s],
         accountRequest'[r].list \in ImportLists \union {<<>>}
  PROVE  ImportInv'
<1>1. ASSUME NEW s \in RequestIds \ {r} PROVE AnswerTrue(s)'
  <2>1. AnswerTrue(s) /\ accountRequest'[s] = accountRequest[s]
    BY DEF ImportInv
  <2>2. \A a \in AccountIds : accountRow[a].by = s => accountRow'[a].by = s /\ accountRow'[a].student = accountRow[a].student
    BY AccountsAssumption DEF KeepsMakers, ImportInv
  <2>3. \A a \in AccountIds : accountRow'[a].by = s => accountRow[a].by = s /\ accountRow'[a].student = accountRow[a].student
    BY AccountsAssumption DEF KeepsMakers, ImportInv
  <2>4. MadeBy(s)' = MadeBy(s)
    BY <2>2, <2>3 DEF MadeBy
  <2>5. QED
    BY <2>1, <2>4 DEF AnswerTrue
<1>2. \A s \in RequestIds : AnswerTrue(s)'
  BY <1>1
<1>3. \A s \in RequestIds : accountRequest'[s].list \in ImportLists \union {<<>>}
  BY DEF ImportInv
<1>4. \A a \in AccountIds : accountRow'[a].state = "unborn" => accountRow'[a].by = Null
  BY DEF ImportInv, KeepsMakers
<1>5. QED
  BY <1>2, <1>3, <1>4 DEF ImportInv

\* What an answer leaves of its request.
LEMMA AnswerSays ==
  ASSUME AccountsInv, NEW r \in RequestIds, NEW answer, Answer(r, answer)
  PROVE  /\ accountRequest'[r].phase = "done" /\ accountRequest'[r].answer = answer
         /\ accountRequest'[r].op = accountRequest[r].op /\ accountRequest'[r].list = accountRequest[r].list
         /\ \A s \in RequestIds \ {r} : accountRequest'[s] = accountRequest[s]
<1> DEFINE q == accountRequest[r]
           q2 == [q EXCEPT !.phase = "done", !.answer = answer, !.names = {}, !.students = {}]
<1>1. IsRequest(q)
  BY DEF AccountsInv, RequestsOK
<1>2. IsRequest(q2) /\ q2.phase = "done" /\ q2.op = q.op /\ q2.list = q.list /\ q2.answer = answer
  BY <1>1 DEF IsRequest, RequestFields
<1>3. accountRequest' = [accountRequest EXCEPT ![r] = q2]
  BY DEF Answer
<1> HIDE DEF q2
<1>4. QED
  BY <1>2, <1>3, ReplaceRequest DEF AccountsInv

\* An answer that is none of an import, or tells of no import.
LEMMA OtherAnswerKeeps ==
  ASSUME AccountsInv, ImportInv, NEW r \in RequestIds, NEW answer, Answer(r, answer),
         accountRequest[r].op # "import" \/ answer.result # "ok", KeepsMakers(r)
  PROVE  ImportInv'
<1>1. AnswerTrue(r)'
  BY AnswerSays DEF AnswerTrue
<1>2. /\ \A s \in RequestIds \ {r} : accountRequest'[s] = accountRequest[s]
      /\ accountRequest'[r].list = accountRequest[r].list
  BY AnswerSays
<1>3. accountRequest'[r].list \in ImportLists \union {<<>>}
  BY <1>2 DEF ImportInv
<1>4. QED
  BY <1>1, <1>2, <1>3, ImportKept

LEMMA RefusalKeeps ==
  ASSUME AccountsInv, ImportInv, NEW r \in RequestIds, Refuse(r)
  PROVE  ImportInv'
<1>1. Answer(r, [NoAnswer EXCEPT !.result = "refused"]) /\ accountRow' = accountRow
  BY DEF Refuse
<1>2. [NoAnswer EXCEPT !.result = "refused"].result = "refused"
  BY DEF NoAnswer
<1>3. KeepsMakers(r)
  BY <1>1 DEF KeepsMakers
<1> DEFINE answer == [NoAnswer EXCEPT !.result = "refused"]
<1> HIDE DEF answer
<1>4. answer.result # "ok" /\ Answer(r, answer)
  BY <1>1, <1>2 DEF answer
<1>5. QED
  BY <1>3, <1>4, OtherAnswerKeeps

\* A request that goes on without telling anything.
LEMMA UnansweredKeeps ==
  ASSUME AccountsInv, ImportInv, NEW r \in RequestIds, UNCHANGED accountRow, NEW q,
         IsRequest(q), accountRequest' = [accountRequest EXCEPT ![r] = q],
         q.phase # "done", q.list \in ImportLists \union {<<>>}
  PROVE  ImportInv'
<1>1. accountRequest'[r] = q /\ \A s \in RequestIds \ {r} : accountRequest'[s] = accountRequest[s]
  BY ReplaceRequest DEF AccountsInv
<1>2. AnswerTrue(r)' /\ KeepsMakers(r)
  BY <1>1 DEF AnswerTrue, KeepsMakers
<1>3. QED
  BY <1>1, <1>2, ImportKept

\* A change of an account's state or name, by a request that is no import.
LEMMA FieldChangeKeeps ==
  ASSUME AccountsInv, ImportInv, NEW r \in RequestIds, NEW a \in AccountIds,
         accountRow[a].state # "unborn", accountRow'[a].state # "unborn",
         accountRow'[a].by = accountRow[a].by, accountRow'[a].student = accountRow[a].student,
         \A b \in AccountIds \ {a} : accountRow'[b] = accountRow[b],
         NEW answer, Answer(r, answer), accountRequest[r].op # "import"
  PROVE  ImportInv'
<1>1. KeepsMakers(r)
  BY DEF KeepsMakers
<1>2. QED
  BY <1>1, OtherAnswerKeeps

LEMMA ChangesKeepImports ==
  ASSUME AccountsInv, ImportInv, NEW r \in RequestIds, NEW a \in AccountIds,
         SoftDeleteAccount(r, a) \/ RestoreAccount(r, a) \/ HardDeleteAccount(r, a)
           \/ \E name \in GivenNames : UpdateAccount(r, a, name)
  PROVE  ImportInv'
<1> DEFINE ok == [NoAnswer EXCEPT !.result = "ok"]
<1>1. CASE Refuse(r)
  BY <1>1, RefusalKeeps
<1>2. ASSUME NEW v \in {"archived", "active", "deleted"}, Answer(r, ok), accountRequest[r].op # "import",
             accountRow[a].state # "unborn",
             accountRow' = [accountRow EXCEPT ![a] = [accountRow[a] EXCEPT !["state"] = v]]
      PROVE  ImportInv'
  <2>1. /\ accountRow'[a].state = v /\ accountRow'[a].by = accountRow[a].by
        /\ accountRow'[a].student = accountRow[a].student
        /\ \A b \in AccountIds \ {a} : accountRow'[b] = accountRow[b]
    BY <1>2, ReplaceField DEF AccountsInv, RowFields
  <2>2. QED
    BY <1>2, <2>1, FieldChangeKeeps
<1>3. CASE SoftDeleteAccount(r, a) /\ ~Refuse(r)
  BY <1>2, <1>3 DEF SoftDeleteAccount, MayArchive, Active, Arrived, Accept
<1>4. CASE RestoreAccount(r, a) /\ ~Refuse(r)
  BY <1>2, <1>4 DEF RestoreAccount, Arrived, Accept
<1>5. CASE HardDeleteAccount(r, a) /\ ~Refuse(r)
  BY <1>2, <1>5 DEF HardDeleteAccount, MayDelete, Exists, Arrived, Accept
<1>6. CASE (\E name \in GivenNames : UpdateAccount(r, a, name)) /\ ~Refuse(r)
  <2>1. PICK name \in GivenNames : UpdateAccount(r, a, name)
    BY <1>6
  <2>2. /\ Exists(a) /\ accountRequest[r].op = "update" /\ Answer(r, ok)
        /\ accountRow' = [accountRow EXCEPT ![a] = [accountRow[a] EXCEPT !["name"] = name]]
    BY <1>6, <2>1 DEF UpdateAccount, Arrived, Accept
  <2>3. /\ accountRow'[a].state = accountRow[a].state /\ accountRow'[a].by = accountRow[a].by
        /\ accountRow'[a].student = accountRow[a].student
        /\ \A b \in AccountIds \ {a} : accountRow'[b] = accountRow[b]
    BY <2>2, ReplaceField DEF AccountsInv, RowFields
  <2>4. accountRow[a].state # "unborn"
    BY <2>2 DEF Exists
  <2>5. QED
    BY <2>2, <2>3, <2>4, FieldChangeKeeps
<1>7. QED
  BY <1>1, <1>3, <1>4, <1>5, <1>6

LEMMA RegistrationKeepsImports ==
  ASSUME AccountsInv, ImportInv, NEW r \in RequestIds, CommitRegister(r)
  PROVE  ImportInv'
<1> DEFINE q == accountRequest[r]
           row == [state |-> "active", role |-> q.newRole, student |-> q.student, name |-> q.name, by |-> r]
<1>1. CASE Refuse(r)
  BY <1>1, RefusalKeeps
<1>2. CASE ~Refuse(r)
  <2>1. PICK a \in FreeIds : accountRow' = [accountRow EXCEPT ![a] = row]
    BY <1>2 DEF CommitRegister
  <2>2. Answer(r, [NoAnswer EXCEPT !.result = "ok"]) /\ q.op # "import"
    BY <1>2 DEF CommitRegister, Accept
  <2>3. a \in AccountIds /\ accountRow[a].state = "unborn"
    BY DEF FreeIds
  <2>4. row.state = "active" /\ row.by = r
    OBVIOUS
  <2> HIDE DEF row
  <2>5. accountRow'[a] = row /\ \A b \in AccountIds \ {a} : accountRow'[b] = accountRow[b]
    BY <2>1, <2>3 DEF AccountsInv, RowsOK
  <2>6. KeepsMakers(r)
    BY <2>3, <2>4, <2>5 DEF KeepsMakers
  <2>7. QED
    BY <2>2, <2>6, OtherAnswerKeeps
<1>3. QED
  BY <1>1, <1>2

\* The transaction of an import gives just the students of the plan an account each.
LEMMA ImportKeepsImports ==
  ASSUME AccountsInv, ImportInv, NEW r \in RequestIds, CommitImport(r)
  PROVE  ImportInv'
<1> DEFINE q == accountRequest[r]
           plan == ImportPlan(q.list, q.students, q.names)
           RowOf(p) == [state |-> "active", role |-> "user", student |-> p[1], name |-> p[2], by |-> r]
           answer == [result |-> "ok", imported |-> plan.imported, skipped |-> plan.skipped]
<1>1. CASE Refuse(r)
  BY <1>1, RefusalKeeps
<1>2. CASE ~Refuse(r)
  <2>1. PICK ids \in [plan.imported -> FreeIds] :
          /\ \A p1, p2 \in plan.imported : p1 # p2 => ids[p1] # ids[p2]
          /\ accountRow' = [a \in AccountIds |->
               IF \E p \in plan.imported : ids[p] = a
               THEN LET p == CHOOSE p \in plan.imported : ids[p] = a IN RowOf(p)
               ELSE accountRow[a]]
    BY <1>2 DEF CommitImport
  <2>2. Answer(r, answer) /\ q.phase = "committing" /\ q.op = "import"
    BY <1>2 DEF CommitImport
  <2>3. {q.list[i].student : i \in DOMAIN q.list} = Covered(plan)
    <3>1. q.list \in ImportLists \union {<<>>}
      BY DEF ImportInv
    <3>2. q.list \in Seq(ToSet(q.list))
      <4>1. CASE q.list = <<>>
        <5>1. <<>> \in Seq(ToSet(<<>>))
          OBVIOUS
        <5>2. QED
          BY <4>1, <5>1
      <4>2. CASE q.list \in ImportLists
        BY <4>2, AccountsAssumption
      <4>3. QED
        BY <3>1, <4>1, <4>2
    <3>3. QED
      BY <3>2, PlanCoversList
  <2>4. answer.result = "ok" /\ answer.imported = plan.imported /\ answer.skipped = plan.skipped
    OBVIOUS
  <2> HIDE DEF plan, answer
  <2>5. \A p : RowOf(p).by = r /\ RowOf(p).student = p[1] /\ RowOf(p).state = "active"
    OBVIOUS
  <2> HIDE DEF RowOf
  <2>6. ASSUME NEW p \in plan.imported
        PROVE  ids[p] \in AccountIds /\ accountRow[ids[p]].state = "unborn" /\ accountRow'[ids[p]] = RowOf(p)
    <3>1. ids[p] \in AccountIds /\ accountRow[ids[p]].state = "unborn"
      BY <2>1 DEF FreeIds
    <3> DEFINE chosen == CHOOSE x \in plan.imported : ids[x] = ids[p]
    <3>2. chosen \in plan.imported /\ ids[chosen] = ids[p]
      OBVIOUS
    <3>3. accountRow'[ids[p]] = RowOf(chosen)
      BY <2>1, <3>1
    <3> HIDE DEF chosen
    <3>4. chosen = p
      BY <2>1, <3>2
    <3>5. QED
      BY <3>1, <3>3, <3>4
  <2>7. ASSUME NEW a \in AccountIds, ~\E p \in plan.imported : ids[p] = a
        PROVE  accountRow'[a] = accountRow[a]
    BY <2>1, <2>7
  <2>8. KeepsMakers(r)
    BY <2>5, <2>6, <2>7 DEF KeepsMakers
  <2>9. \A a \in AccountIds : accountRow[a].by # r
    BY <2>2, AccountsAssumption DEF AccountsInv, MadeInv
  <2>10. MadeBy(r)' = {p[1] : p \in plan.imported}
    <3>1. ASSUME NEW a \in AccountIds, accountRow'[a].by = r
          PROVE  \E p \in plan.imported : accountRow'[a].student = p[1]
      <4>1. PICK p \in plan.imported : ids[p] = a
        BY <2>7, <2>9, <3>1
      <4>2. QED
        BY <2>5, <2>6, <4>1
    <3>2. ASSUME NEW p \in plan.imported
          PROVE  \E a \in AccountIds : accountRow'[a].by = r /\ accountRow'[a].student = p[1]
      BY <2>5, <2>6
    <3> DEFINE mine == {b \in AccountIds : accountRow'[b].by = r}
               theirs == {p[1] : p \in plan.imported}
    <3>3. MadeBy(r)' = {accountRow'[a].student : a \in mine}
      BY DEF MadeBy
    <3>4. \A x \in {accountRow'[a].student : a \in mine} : x \in theirs
      BY <3>1
    <3>5. \A x \in theirs : x \in {accountRow'[a].student : a \in mine}
      BY <3>2
    <3> HIDE DEF mine, theirs
    <3>6. {accountRow'[a].student : a \in mine} = theirs
      BY <3>4, <3>5
    <3>7. QED
      BY <3>3, <3>6 DEF theirs
  <2>11. /\ accountRequest'[r].phase = "done" /\ accountRequest'[r].answer = answer
         /\ accountRequest'[r].list = q.list
         /\ \A s \in RequestIds \ {r} : accountRequest'[s] = accountRequest[s]
    BY <2>2, AnswerSays
  <2>12. AnswerTrue(r)'
    BY <2>3, <2>4, <2>10, <2>11 DEF AnswerTrue, Covered
  <2>13. accountRequest'[r].list \in ImportLists \union {<<>>}
    BY <2>11 DEF ImportInv
  <2>14. QED
    BY <2>8, <2>11, <2>12, <2>13, ImportKept
<1>3. QED
  BY <1>1, <1>2

LEMMA ImportInitially == AccountsInit => ImportInv
<1> SUFFICES ASSUME AccountsInit PROVE ImportInv
  OBVIOUS
<1>1. PICK first \in Beginnings : accountRow = FirstRows(first)
  BY DEF AccountsInit
<1>2. \A r \in RequestIds : accountRequest[r].phase = "idle" /\ accountRequest[r].list = <<>>
  BY DEF AccountsInit, IdleRequest
<1>3. \A a \in AccountIds : accountRow[a].state = "unborn" => accountRow[a].by = Null
  BY <1>1 DEF FirstRows, NoAccount
<1>4. QED
  BY <1>2, <1>3 DEF ImportInv, AnswerTrue

LEMMA RequestsKeepImports ==
  ASSUME AccountsInv, ImportInv, NEW r \in RequestIds, HandleRequest(r)
  PROVE  ImportInv'
<1>1. IsRequest(accountRequest[r]) /\ accountRequest[r].list \in ImportLists \union {<<>>}
  BY DEF AccountsInv, RequestsOK, ImportInv
<1> DEFINE q == accountRequest[r]
<1>2. ASSUME NEW actor \in AccountIds, NEW op, Authenticate(r, actor, op) PROVE ImportInv'
  <2> DEFINE q2 == [IdleRequest EXCEPT !.phase = "authenticated", !.op = op, !.actor = actor,
                                       !.role = accountRow[actor].role]
  <2>1. IsRequest(q2) /\ q2.phase = "authenticated" /\ q2.list = <<>>
    BY Records DEF IsRequest, RequestFields, IdleRequest
  <2>2. accountRequest' = [accountRequest EXCEPT ![r] = q2] /\ accountRow' = accountRow
    BY <1>2 DEF Authenticate
  <2> HIDE DEF q2
  <2>3. QED
    BY <2>1, <2>2, UnansweredKeeps
<1>3. ASSUME NEW s, NEW role, NEW name, BeginRegister(r, s, role, name) PROVE ImportInv'
  <2> DEFINE q2 == [q EXCEPT !.phase = "committing", !.student = s, !.newRole = role, !.name = name]
  <2>1. IsRequest(q2) /\ q2.phase = "committing" /\ q2.list = q.list
    BY <1>1 DEF IsRequest, RequestFields
  <2>2. accountRequest' = [accountRequest EXCEPT ![r] = q2] /\ accountRow' = accountRow
    BY <1>3 DEF BeginRegister, AccountsInv, RequestsOK
  <2> HIDE DEF q2
  <2>3. QED
    BY <1>1, <2>1, <2>2, UnansweredKeeps
<1>4. ASSUME NEW list \in ImportLists, BeginImport(r, list) PROVE ImportInv'
  <2> DEFINE q2 == [q EXCEPT !.phase = "reading", !.list = list, !.students = KnownStudents]
  <2>1. IsRequest(q2) /\ q2.phase = "reading" /\ q2.list = list
    BY <1>1 DEF IsRequest, RequestFields
  <2>2. accountRequest' = [accountRequest EXCEPT ![r] = q2] /\ accountRow' = accountRow
    BY <1>4 DEF BeginImport, AccountsInv, RequestsOK
  <2> HIDE DEF q2
  <2>3. QED
    BY <2>1, <2>2, UnansweredKeeps
<1>5. ASSUME ReadNames(r) PROVE ImportInv'
  <2> DEFINE q2 == [q EXCEPT !.phase = "committing", !.names = TakenNames]
  <2>1. IsRequest(q2) /\ q2.phase = "committing" /\ q2.list = q.list
    BY <1>1 DEF IsRequest, RequestFields
  <2>2. accountRequest' = [accountRequest EXCEPT ![r] = q2] /\ accountRow' = accountRow
    BY <1>5 DEF ReadNames, AccountsInv, RequestsOK
  <2> HIDE DEF q2
  <2>3. QED
    BY <1>1, <2>1, <2>2, UnansweredKeeps
<1>6. QED
  BY <1>2, <1>3, <1>4, <1>5, RegistrationKeepsImports, ImportKeepsImports, ChangesKeepImports DEF HandleRequest

LEMMA ImportStepKeeps ==
  ASSUME AccountsInv, ImportInv, [AccountsNext]_accountsVars
  PROVE  ImportInv'
<1>1. CASE UNCHANGED <<accountRow, accountRequest>>
  BY <1>1 DEF ImportInv, AnswerTrue, MadeBy
<1>2. QED
  BY <1>1, RequestsKeepImports DEF AccountsNext, ElectionTurns, accountsVars

\* Whatever registrations, imports and deletions run at the same time, an import that is
\* answered has told of every record of its list, and the accounts that it made are just
\* those of the students that the answer lists with a password.
THEOREM ImportAnswersTrueTheorem == AccountsSpec => []ImportAnswersTrue
<1>1. AccountsInv /\ ImportInv => ImportAnswersTrue
  BY DEF ImportInv, AnswerTrue, MadeBy, ImportAnswersTrue
<1>2. AccountsInit => AccountsInv /\ ImportInv
  BY AccountsInitially, ImportInitially
<1>3. AccountsInv /\ ImportInv /\ [AccountsNext]_accountsVars => (AccountsInv /\ ImportInv)'
  BY AccountsStep, ImportStepKeeps
<1>4. QED
  BY <1>1, <1>2, <1>3, PTL DEF AccountsSpec

-----------------------------------------------------------------------------
(* The page of accounts: what its variables are. *)

Texts == SearchTexts \union {NoText}

UserRows == [ListedUsers -> [state : {"active", "archived", "deleted"}, changes : Nat]]

Entries == [ListParams -> UserRows \union {Null}]

Flights == [ListParams -> [sent : BOOLEAN, rows : UserRows \union {Null}]]

ShownLists == [params : ListParams, rows : UserRows \union {Null}]

Handlers ==
  [phase : {"idle", "sent", "failed", "ok", "reloading"}, kind : Kinds \union {"none", "add"},
   user : ListedUsers \union Nat \union {Null}]

ListsOK ==
  /\ userRow \in UserRows /\ usersEntry \in Entries /\ usersFlight \in Flights
  /\ usersNav \in Navigations \union {Null} /\ usersList \in ShownLists
  /\ searchBox \in [local : Texts, timer : Texts \union {Null}]

UsersPastOK ==
  usersPast \in [asked : Texts, lost : BOOLEAN, formMoved : BOOLEAN, persons : Nat, own : [ListedUsers -> Nat]]

\* A handler runs under its own flag, for an account or for the person entered.
HandlersOK ==
  /\ saving \in [SavingFlags -> Handlers]
  /\ \A f \in SavingFlags :
       saving[f].phase # "idle" =>
         /\ FlagOf(saving[f].kind) = f
         /\ \/ saving[f].kind \in Kinds /\ saving[f].user \in ListedUsers
            \/ saving[f].kind = "add" /\ saving[f].user \in Nat \ {0}

DialogOK ==
  /\ dialog = [f \in {"kind", "user", "row"} |-> dialog[f]]
  /\ dialog.kind \in Kinds \union {"none", "view", "add"}
  /\ dialog.kind \in Kinds \union {"view"} => dialog.user \in ListedUsers

ShownOK ==
  shown = [f \in {"reset", "added", "addForm", "editTimers", "audit", "auditLoading", "auditError"} |-> shown[f]]

UsersPageTypeOK == ListsOK /\ UsersPastOK /\ HandlersOK /\ DialogOK /\ ShownOK

-----------------------------------------------------------------------------
(* Own changes are listed. While no handler is about to reload the page,      *)
(* nothing that is kept, under way or shown is older than a change made here. *)

Fresh(rows) == rows # Null => \A u \in ListedUsers : rows[u].changes >= usersPast.own[u]

NoneToReload == \A f \in SavingFlags : saving[f].phase = "ok" => ~ReloadsAfter(saving[f].kind)

ListsFresh ==
  /\ \A u \in ListedUsers : userRow[u].changes >= usersPast.own[u]
  /\ NoneToReload =>
       /\ \A p \in ListParams : Fresh(usersEntry[p]) /\ Fresh(usersFlight[p].rows)
       /\ usersNav = Null => Fresh(usersList.rows)

\* Where a navigation leads: the page has what the cache keeps, or waits for a fetch.
LEMMA NavigateKeeps ==
  ASSUME NEW entry \in Entries, NEW flight \in Flights, NEW params \in ListParams,
         NEW by \in SavingFlags \union {"goto"}, usersList \in ShownLists,
         Navigate(entry, flight, params, by)
  PROVE  /\ usersList' \in ShownLists /\ usersNav' \in Navigations \union {Null}
         /\ usersFlight' \in Flights
         /\ \A p \in ListParams : usersFlight'[p].rows \in {Null, flight[p].rows}
         /\ usersNav' = Null => usersList'.rows = entry[params]
<1>1. CASE entry[params] # Null
  BY <1>1 DEF Navigate, Entries, ShownLists
<1>2. CASE entry[params] = Null
  <2>1. usersNav' = [params |-> params, by |-> by] /\ usersNav' \in Navigations /\ usersNav' # Null
    BY <1>2, UsersPageAssumption DEF Navigate, Navigations
  <2>2. usersFlight' = [flight EXCEPT ![params] = IF @ = NoFlight THEN SentFlight ELSE @]
    BY <1>2 DEF Navigate
  <2>3. usersFlight' \in Flights /\ \A p \in ListParams : usersFlight'[p].rows \in {Null, flight[p].rows}
    BY <2>2 DEF Flights, SentFlight
  <2>4. QED
    BY <1>2, <2>1, <2>3 DEF Navigate
<1>3. QED
  BY <1>1, <1>2

\* A step that leaves the lists and their accounts alone.
LEMMA ListsRest ==
  ASSUME ListsOK, ListsFresh, UNCHANGED <<userRow, listVars>>, usersPast'.own = usersPast.own,
         NoneToReload' => NoneToReload
  PROVE  ListsOK' /\ ListsFresh'
<1>1. UNCHANGED <<userRow, usersEntry, usersFlight, usersNav, usersList, searchBox>>
  BY DEF listVars
<1>2. QED
  BY <1>1 DEF ListsOK, ListsFresh, Fresh

\* A navigation by the voter's controls or the timer.
LEMMA UpdateFiltersKeeps ==
  ASSUME ListsOK, ListsFresh, NEW params \in ListParams, UpdateFilters(params),
         usersPast'.own = usersPast.own
  PROVE  /\ usersList' \in ShownLists /\ usersNav' \in Navigations \union {Null} /\ usersFlight' \in Flights
         /\ ListsFresh'
<1>1. UNCHANGED <<userRow, usersEntry, saving>>
  BY DEF UpdateFilters, dialogVars
<1>2. /\ usersList' \in ShownLists /\ usersNav' \in Navigations \union {Null} /\ usersFlight' \in Flights
      /\ \A p \in ListParams : usersFlight'[p].rows \in {Null, usersFlight[p].rows}
      /\ usersNav' = Null => usersList'.rows = usersEntry[params]
  BY NavigateKeeps DEF UpdateFilters, ListsOK
<1>3. NoneToReload' => NoneToReload
  BY <1>1 DEF NoneToReload
<1>4. ListsFresh'
  BY <1>1, <1>2, <1>3 DEF ListsFresh, Fresh
<1>5. QED
  BY <1>2, <1>4

LEMMA SearchTimerKeeps ==
  ASSUME ListsOK, UsersPastOK, ListsFresh, SearchTimerFires
  PROVE  ListsOK' /\ UsersPastOK' /\ ListsFresh'
<1> DEFINE params == [page |-> 1, search |-> searchBox.timer, filter |-> usersList.params.filter]
<1>1. searchBox.timer \in Texts /\ params \in ListParams
  BY DEF SearchTimerFires, ListsOK, ListParams, ShownLists, Texts
<1>2. /\ UpdateFilters(params) /\ UNCHANGED usersPast
      /\ searchBox' = [local |-> IF usersNav' = Null THEN params.search ELSE searchBox.local, timer |-> Null]
  BY DEF SearchTimerFires
<1>3. params.search \in Texts
  BY <1>1
<1> HIDE DEF params
<1>4. searchBox' \in [local : Texts, timer : Texts \union {Null}]
  BY <1>2, <1>3 DEF ListsOK
<1>5. /\ usersList' \in ShownLists /\ usersNav' \in Navigations \union {Null} /\ usersFlight' \in Flights
      /\ ListsFresh'
  BY <1>1, <1>2, UpdateFiltersKeeps
<1>6. UNCHANGED <<userRow, usersEntry>>
  BY <1>2 DEF UpdateFilters
<1>7. QED
  BY <1>2, <1>4, <1>5, <1>6 DEF ListsOK, UsersPastOK

\* The search box shows the search of the list that has arrived, or what was typed.
LEMMA SearchBoxKeeps ==
  ASSUME ListsOK, NEW text \in Texts, usersList' \in ShownLists, SyncSearchBox(text)
  PROVE  searchBox' \in [local : Texts, timer : Texts \union {Null}]
<1>1. usersList'.params.search \in Texts
  BY DEF ShownLists, ListParams, Texts
<1>2. QED
  BY <1>1 DEF SyncSearchBox, ListsOK

LEMMA FilterKeeps ==
  ASSUME ListsOK, ListsFresh, NEW params \in ListParams, NEW text \in Texts,
         UpdateFilters(params), SyncSearchBox(text), usersPast'.own = usersPast.own
  PROVE  ListsOK' /\ ListsFresh'
<1>1. /\ usersList' \in ShownLists /\ usersNav' \in Navigations \union {Null} /\ usersFlight' \in Flights
      /\ ListsFresh'
  BY UpdateFiltersKeeps
<1>2. UNCHANGED <<userRow, usersEntry>>
  BY DEF UpdateFilters
<1>3. QED
  BY <1>1, <1>2, SearchBoxKeeps DEF ListsOK

LEMMA ClickFilterKeeps ==
  ASSUME ListsOK, UsersPastOK, ListsFresh, NEW params \in ListParams, ClickFilter(params)
  PROVE  ListsOK' /\ UsersPastOK' /\ ListsFresh'
<1>1. searchBox.local \in Texts
  BY DEF ListsOK
<1>2. UsersPastOK' /\ usersPast'.own = usersPast.own
  <2> DEFINE lost == usersPast.lost \/ Overtakes(params)
  <2>1. lost \in BOOLEAN
    OBVIOUS
  <2>2. usersPast' = [usersPast EXCEPT !.lost = lost]
    BY DEF ClickFilter
  <2> HIDE DEF lost
  <2>3. QED
    BY <2>1, <2>2 DEF UsersPastOK
<1>3. QED
  BY <1>1, <1>2, FilterKeeps DEF ClickFilter

LEMMA ControlsKeep ==
  ASSUME ListsOK, UsersPastOK, ListsFresh, ToggleFilter \/ ClickPage \/ ClearFilters
  PROVE  ListsOK' /\ UsersPastOK' /\ ListsFresh'
<1>1. /\ searchBox.local \in Texts /\ usersList.params \in ListParams
  BY DEF ListsOK, ShownLists
<1>2. CASE ToggleFilter
  <2>1. [page |-> 1, search |-> searchBox.local, filter |-> ~usersList.params.filter] \in ListParams
    BY <1>1 DEF ListParams, Texts
  <2>2. QED
    BY <1>2, <2>1, ClickFilterKeeps DEF ToggleFilter
<1>3. CASE ClickPage
  <2>1. [page |-> 3 - usersList.params.page, search |-> searchBox.local,
         filter |-> usersList.params.filter] \in ListParams
    BY <1>1 DEF ListParams, Texts
  <2>2. QED
    BY <1>3, <2>1, ClickFilterKeeps DEF ClickPage
<1>4. CASE ClearFilters
  <2> DEFINE params == [FirstParams EXCEPT !.filter = usersList.params.filter]
             lost == searchBox.timer # Null
  <2>1. params \in ListParams /\ NoText \in Texts /\ lost \in BOOLEAN
    BY <1>1 DEF ListParams, FirstParams, Texts
  <2>2. /\ UpdateFilters(params) /\ SyncSearchBox(NoText)
        /\ usersPast' = [usersPast EXCEPT !.asked = NoText, !.lost = lost]
    BY <1>4 DEF ClearFilters
  <2> HIDE DEF params, lost
  <2>3. UsersPastOK' /\ usersPast'.own = usersPast.own
    BY <2>1, <2>2 DEF UsersPastOK
  <2>4. QED
    BY <2>1, <2>2, <2>3, FilterKeeps
<1>5. QED
  BY <1>2, <1>3, <1>4

\* An answer is read from the accounts as they are, and fills the cache and the page.
LEMMA ServeListKeeps ==
  ASSUME ListsOK, ListsFresh, NEW params \in ListParams, ServeList(params)
  PROVE  ListsOK' /\ ListsFresh'
<1>1. /\ UNCHANGED <<userRow, usersEntry, usersNav, usersList, searchBox, saving, usersPast>>
      /\ usersFlight' = [usersFlight EXCEPT ![params].rows = userRow]
  BY DEF ServeList, dialogVars
<1>2. usersFlight' \in Flights
  BY <1>1 DEF ListsOK, Flights
<1>3. \A p \in ListParams : usersFlight'[p].rows \in {userRow, usersFlight[p].rows}
  BY <1>1 DEF ListsOK, Flights
<1>4. QED
  BY <1>1, <1>2, <1>3 DEF ListsOK, ListsFresh, Fresh, NoneToReload

LEMMA ListArrivesKeeps ==
  ASSUME ListsOK, ListsFresh, NEW params \in ListParams, NEW rows, ListArrives(params, rows)
  PROVE  ListsOK' /\ ListsFresh'
<1>1. /\ UNCHANGED <<userRow, saving, usersPast>>
      /\ usersFlight' = [usersFlight EXCEPT ![params] = NoFlight]
      /\ usersEntry' = [usersEntry EXCEPT ![params] = rows]
      /\ rows \in {Null, usersFlight[params].rows}
  BY DEF ListArrives, dialogVars
<1>2. rows \in UserRows \union {Null} /\ (NoneToReload => Fresh(rows))
  BY <1>1 DEF ListsOK, Flights, ListsFresh, Fresh
<1>3. usersFlight' \in Flights /\ \A p \in ListParams : usersFlight'[p].rows \in {Null, usersFlight[p].rows}
  BY <1>1 DEF ListsOK, Flights, NoFlight
<1>4. usersEntry' \in Entries /\ \A p \in ListParams : usersEntry'[p] \in {rows, usersEntry[p]}
  BY <1>1, <1>2 DEF ListsOK, Entries
<1>5. /\ usersNav' \in Navigations \union {Null} /\ usersList' \in ShownLists
      /\ searchBox' \in [local : Texts, timer : Texts \union {Null}]
      /\ usersNav' = Null => usersList'.rows = rows \/ (usersNav = Null /\ usersList' = usersList)
  <2>1. CASE usersNav # Null /\ usersNav.params = params
    <3>1. usersNav' = Null /\ usersList' = [params |-> params, rows |-> rows]
      BY <2>1 DEF ListArrives
    <3>2. usersList' \in ShownLists
      BY <1>2, <3>1 DEF ShownLists
    <3>3. searchBox.local \in Texts /\ SyncSearchBox(searchBox.local)
      BY <2>1 DEF ListArrives, ListsOK
    <3>4. QED
      BY <3>1, <3>2, <3>3, SearchBoxKeeps
  <2>2. CASE ~(usersNav # Null /\ usersNav.params = params)
    BY <2>2 DEF ListArrives, ListsOK
  <2>3. QED
    BY <2>1, <2>2
<1>6. QED
  BY <1>1, <1>2, <1>3, <1>4, <1>5 DEF ListsOK, ListsFresh, Fresh, NoneToReload

-----------------------------------------------------------------------------
(* The handlers. *)

\* A handler moves on, or ends; what runs keeps its account.
HandlersMove ==
  \A f \in SavingFlags :
    saving'[f].phase # "idle" => /\ saving[f].phase # "idle"
                                 /\ saving'[f].kind = saving[f].kind /\ saving'[f].user = saving[f].user

LEMMA HandlerMoves ==
  ASSUME HandlersOK, NEW flag \in SavingFlags, NEW phase \in {"sent", "failed", "ok", "reloading"},
         saving[flag].phase # "idle", saving' = [saving EXCEPT ![flag].phase = phase]
  PROVE  /\ HandlersOK' /\ HandlersMove
         /\ saving'[flag].phase = phase /\ saving'[flag].kind = saving[flag].kind
         /\ \A f \in SavingFlags \ {flag} : saving'[f] = saving[f]
BY DEF HandlersOK, HandlersMove, Handlers

LEMMA HandlerEnds ==
  ASSUME HandlersOK, NEW flag \in SavingFlags, saving' = [saving EXCEPT ![flag] = NoHandler]
  PROVE  /\ HandlersOK' /\ HandlersMove /\ saving'[flag].phase = "idle"
         /\ \A f \in SavingFlags \ {flag} : saving'[f] = saving[f]
<1>1. NoHandler \in Handlers
  BY DEF NoHandler, Handlers
<1>2. NoHandler.phase = "idle"
  BY DEF NoHandler
<1>3. QED
  BY <1>1, <1>2 DEF HandlersOK, HandlersMove

\* A change of an account makes its row newer.
LEMMA RowChanged ==
  ASSUME userRow \in UserRows, NEW u \in ListedUsers, NEW state \in {"active", "archived", "deleted"},
         userRow' = [userRow EXCEPT ![u] = [state |-> state, changes |-> @.changes + 1]]
  PROVE  /\ userRow' \in UserRows
         /\ \A v \in ListedUsers : userRow'[v].changes >= userRow[v].changes
BY DEF UserRows

LEMMA OtherChangeKeeps ==
  ASSUME ListsOK, UsersPastOK, ListsFresh, NEW u \in ListedUsers,
         NEW state \in {"active", "archived", "deleted"}, OtherChange(u, state)
  PROVE  ListsOK' /\ ListsFresh'
<1>1. /\ UNCHANGED <<usersEntry, usersFlight, usersNav, usersList, searchBox, saving, usersPast>>
      /\ userRow' = [userRow EXCEPT ![u] = [state |-> state, changes |-> @.changes + 1]]
  BY DEF OtherChange, listVars, dialogVars
<1>2. /\ userRow' \in UserRows
      /\ \A v \in ListedUsers : userRow'[v].changes >= userRow[v].changes
  BY <1>1, RowChanged DEF ListsOK
<1>3. ASSUME NEW v \in ListedUsers PROVE userRow'[v].changes >= usersPast.own[v]
  <2>1. /\ userRow[v].changes \in Nat /\ userRow'[v].changes \in Nat /\ usersPast.own[v] \in Nat
    BY <1>2 DEF ListsOK, UserRows, UsersPastOK
  <2>2. userRow[v].changes >= usersPast.own[v]
    BY DEF ListsFresh
  <2>3. QED
    BY <1>2, <2>1, <2>2
<1>4. QED
  BY <1>1, <1>2, <1>3 DEF ListsOK, ListsFresh, Fresh, NoneToReload

\* Only a handler that reloads the page changes an account.
LEMMA ChangesReload ==
  ASSUME HandlersOK, NEW f \in SavingFlags, saving[f].phase # "idle",
         saving[f].kind \notin {"unlock", "reset", "add"}
  PROVE  saving[f].user \in ListedUsers /\ ReloadsAfter(saving[f].kind)
BY DEF HandlersOK, ReloadsAfter

LEMMA ServerHandlesKeeps ==
  ASSUME ListsOK, UsersPastOK, HandlersOK, ListsFresh, NEW flag \in SavingFlags, ServerHandles(flag)
  PROVE  /\ ListsOK' /\ UsersPastOK' /\ HandlersOK' /\ ListsFresh' /\ HandlersMove
         /\ usersPast'.formMoved = usersPast.formMoved /\ usersPast'.persons = usersPast.persons
<1> DEFINE h == saving[flag]
<1>1. h.phase = "sent" /\ UNCHANGED <<usersEntry, usersFlight, usersNav, usersList, searchBox>>
  BY DEF ServerHandles, listVars
<1>2. PICK phase \in {"failed", "ok"} : saving' = [saving EXCEPT ![flag].phase = phase]
  BY DEF ServerHandles
<1>3. /\ HandlersOK' /\ HandlersMove
      /\ saving'[flag].phase = phase /\ saving'[flag].kind = h.kind
      /\ \A f \in SavingFlags \ {flag} : saving'[f] = saving[f]
  BY <1>1, <1>2, HandlerMoves
<1>4. NoneToReload' => NoneToReload /\ (phase = "ok" => ~ReloadsAfter(h.kind))
  BY <1>1, <1>3 DEF NoneToReload
<1>5. CASE UNCHANGED <<userRow, usersPast>>
  BY <1>1, <1>3, <1>4, <1>5 DEF ListsOK, UsersPastOK, ListsFresh, Fresh
<1>6. ASSUME ~UNCHANGED <<userRow, usersPast>>
      PROVE  /\ ListsOK' /\ UsersPastOK' /\ ListsFresh'
             /\ usersPast'.formMoved = usersPast.formMoved /\ usersPast'.persons = usersPast.persons
  <2>1. /\ userRow' = IF h.kind \in {"unlock", "reset", "add"} THEN userRow
                      ELSE [userRow EXCEPT ![h.user] = [state |-> ResultState(h.kind, @.state), changes |-> @.changes + 1]]
        /\ \/ /\ saving' = [saving EXCEPT ![flag].phase = "ok"]
              /\ usersPast' = IF h.kind \in {"unlock", "reset", "add"} THEN usersPast
                              ELSE [usersPast EXCEPT !.own[h.user] = userRow'[h.user].changes]
           \/ saving' = [saving EXCEPT ![flag].phase = "failed"] /\ UNCHANGED usersPast
    BY <1>6 DEF ServerHandles
  <2>2. h.kind \notin {"unlock", "reset", "add"}
    BY <1>6, <2>1
  <2>3. h.user \in ListedUsers /\ ReloadsAfter(h.kind)
    BY <1>1, <2>2, ChangesReload
  <2>4. PICK u \in ListedUsers : u = h.user
    BY <2>3
  <2> DEFINE state == ResultState(h.kind, userRow[u].state)
  <2>5. state \in {"active", "archived", "deleted"}
    BY <2>4 DEF ResultState, ListsOK, UserRows
  <2>6. userRow' = [userRow EXCEPT ![u] = [state |-> state, changes |-> @.changes + 1]]
    BY <2>1, <2>2, <2>4
  <2> HIDE DEF state, h
  <2>7. /\ userRow' \in UserRows
        /\ \A v \in ListedUsers : userRow'[v].changes >= userRow[v].changes
    BY <2>5, <2>6, RowChanged DEF ListsOK
  <2>8. \/ phase = "ok" /\ usersPast' = [usersPast EXCEPT !.own[u] = userRow'[u].changes]
        \/ UNCHANGED usersPast
    <3>1. saving' = [saving EXCEPT ![flag].phase = "ok"] => saving'[flag].phase = "ok"
      BY <1>1, HandlerMoves DEF h
    <3>2. QED
      BY <2>1, <2>2, <2>4, <3>1, <1>3
  <2>9. /\ UsersPastOK' /\ usersPast'.formMoved = usersPast.formMoved /\ usersPast'.persons = usersPast.persons
        /\ \A v \in ListedUsers : usersPast'.own[v] \in {usersPast.own[v], userRow'[v].changes}
    <3>1. userRow'[u].changes \in Nat
      BY <2>7 DEF UserRows
    <3>2. QED
      BY <2>8, <3>1 DEF UsersPastOK
  <2>10. ASSUME NEW v \in ListedUsers PROVE userRow'[v].changes >= usersPast'.own[v]
    <3>1. /\ userRow[v].changes \in Nat /\ userRow'[v].changes \in Nat /\ usersPast.own[v] \in Nat
      BY <2>7 DEF ListsOK, UserRows, UsersPastOK
    <3>2. userRow[v].changes >= usersPast.own[v]
      BY DEF ListsFresh
    <3>3. QED
      BY <2>7, <2>9, <3>1, <3>2
  <2>11. NoneToReload' => NoneToReload /\ UNCHANGED usersPast
    BY <1>4, <2>3, <2>8
  <2>12. QED
    BY <1>1, <2>7, <2>9, <2>10, <2>11 DEF ListsOK, ListsFresh, Fresh
<1>7. QED
  BY <1>3, <1>5, <1>6

\* The caches are emptied before the page asks for its data again: it waits for a fetch.
LEMMA ReloadKeeps ==
  ASSUME ListsOK, NEW flag \in SavingFlags, Reload(flag), SyncSearchBox(searchBox.local),
         UNCHANGED userRow, usersPast'.own = usersPast.own, ListsFresh
  PROVE  ListsOK' /\ ListsFresh'
<1> DEFINE empty == [p \in ListParams |-> Null]
           idle == [p \in ListParams |-> NoFlight]
<1>1. empty \in Entries /\ idle \in Flights /\ \A p \in ListParams : idle[p].rows = Null
  BY DEF Entries, Flights, NoFlight
<1>2. usersEntry' = empty /\ Navigate(empty, idle, usersList.params, flag)
  BY DEF Reload
<1>3. usersList.params \in ListParams /\ empty[usersList.params] = Null
  BY DEF ListsOK, ShownLists
<1>4. \A p \in ListParams : usersEntry'[p] = Null
  BY <1>2
<1> HIDE DEF empty, idle
<1>5. /\ usersList' \in ShownLists /\ usersNav' \in Navigations \union {Null} /\ usersFlight' \in Flights
      /\ \A p \in ListParams : usersFlight'[p].rows = Null
      /\ usersNav' = Null => usersList'.rows = Null
  BY <1>1, <1>2, <1>3, NavigateKeeps DEF ListsOK
<1>6. searchBox' \in [local : Texts, timer : Texts \union {Null}]
  BY <1>5, SearchBoxKeeps DEF ListsOK
<1>7. QED
  BY <1>1, <1>2, <1>4, <1>5, <1>6 DEF ListsOK, ListsFresh, Fresh

-----------------------------------------------------------------------------
(* The dialogs, and what is shown in them. *)

AuditRequestsOK == auditRequests \subseteq [user : ListedUsers, newest : BOOLEAN]

\* The dialog of a reset stays as long as its handler runs.
ResetOwn ==
  /\ saving["reset"].phase # "idle" => dialog.kind = "reset" /\ dialog.user = saving["reset"].user
  /\ ResetShowsItsUser

\* Who is being added is who was entered last, and the form and the dialog are still
\* theirs if it was neither edited nor left.
AddOwn ==
  /\ saving["add"].phase # "idle" =>
       /\ saving["add"].user = usersPast.persons /\ usersPast.persons # 0
       /\ shown.addForm = usersPast.persons <=> ~usersPast.formMoved
       /\ dialog.kind = "add" \/ usersPast.formMoved
  /\ AddShowsItsUser

\* The request that is heeded is about the account viewed.
AuditOwn ==
  /\ dialog.kind = "view" => \A r \in auditRequests : r.newest => r.user = dialog.user
  /\ AuditLogsOfViewed

DialogsInv == DialogOK /\ ShownOK /\ AuditRequestsOK /\ ResetOwn /\ AddOwn /\ AuditOwn

\* A step of the lists, or of a handler that is not done.
LEMMA DialogsRest ==
  ASSUME DialogsInv, UNCHANGED <<dialog, shown, auditRequests>>, HandlersMove,
         usersPast'.formMoved = usersPast.formMoved, usersPast'.persons = usersPast.persons
  PROVE  DialogsInv'
<1>1. {"reset", "add"} \subseteq SavingFlags
  BY DEF SavingFlags
<1>2. DialogOK' /\ ShownOK' /\ AuditRequestsOK' /\ AuditOwn'
  BY DEF DialogsInv, DialogOK, ShownOK, AuditRequestsOK, AuditOwn, AuditLogsOfViewed
<1>3. ResetOwn'
  BY <1>1 DEF DialogsInv, ResetOwn, ResetShowsItsUser, HandlersMove
<1>4. AddOwn'
  BY <1>1 DEF DialogsInv, AddOwn, AddShowsItsUser, HandlersMove
<1>5. QED
  BY <1>2, <1>3, <1>4 DEF DialogsInv

\* Without a dialog, or with another, no reset runs or is shown.
LEMMA NoResetElsewhere ==
  ASSUME DialogsInv, dialog.kind # "reset"
  PROVE  saving["reset"].phase = "idle" /\ shown.reset = Null
BY DEF DialogsInv, ResetOwn, ResetShowsItsUser

\* A dialog other than the view is opened where none was, or on the view.
LEMMA DialogOpens ==
  ASSUME DialogsInv, NEW kind \in Kinds \union {"add"}, NEW user, NEW row,
         kind \in Kinds => user \in ListedUsers,
         dialog.kind \notin {"reset", "add"}, dialog' = [kind |-> kind, user |-> user, row |-> row],
         UNCHANGED <<saving, shown, auditRequests, usersPast>>
  PROVE  DialogsInv'
<1>1. saving["reset"].phase = "idle" /\ shown.reset = Null
  BY NoResetElsewhere
<1>2. dialog'.kind = kind /\ dialog'.user = user /\ kind # "view"
  BY DEF Kinds
<1>3. DialogOK'
  BY <1>2 DEF DialogOK
<1>4. QED
  BY <1>1, <1>2, <1>3 DEF DialogsInv, ShownOK, AuditRequestsOK, ResetOwn, ResetShowsItsUser, AddOwn,
     AddShowsItsUser, AuditOwn, AuditLogsOfViewed

LEMMA OpenDialogKeeps ==
  ASSUME DialogsInv, NEW kind \in Kinds, NEW u \in ListedUsers,
         OpenDialog(kind, u) \/ OpenFromView(kind) \/ OpenAdd
  PROVE  DialogsInv'
<1>1. CASE OpenDialog(kind, u)
  <2>1. dialog.kind \notin {"reset", "add"} /\ dialog' = [kind |-> kind, user |-> u, row |-> usersList.rows[u]]
    BY <1>1 DEF OpenDialog, NoDialog
  <2>2. QED
    BY <1>1, <2>1, DialogOpens DEF OpenDialog
<1>2. CASE OpenFromView(kind)
  <2>1. dialog.kind = "view" /\ dialog.user \in ListedUsers
    BY <1>2 DEF OpenFromView, DialogsInv, DialogOK
  <2>2. dialog' = [kind |-> kind, user |-> dialog.user, row |-> dialog.row]
    BY <1>2 DEF OpenFromView, DialogsInv, DialogOK
  <2>3. QED
    BY <1>2, <2>1, <2>2, DialogOpens DEF OpenFromView
<1>3. CASE OpenAdd
  <2>1. dialog.kind \notin {"reset", "add"} /\ dialog' = [kind |-> "add", user |-> Null, row |-> Null]
    BY <1>3 DEF OpenAdd, NoDialog
  <2>2. "add" \notin Kinds
    BY DEF Kinds
  <2>3. QED
    BY <1>3, <2>1, <2>2, DialogOpens DEF OpenAdd
<1>4. QED
  BY <1>1, <1>2, <1>3

LEMMA OpenViewKeeps ==
  ASSUME DialogsInv, NEW u \in ListedUsers, OpenView(u)
  PROVE  DialogsInv'
<1>1. /\ dialog = NoDialog /\ dialog' = [kind |-> "view", user |-> u, row |-> usersList.rows[u]]
      /\ auditRequests' = {[r EXCEPT !.newest = FALSE] : r \in auditRequests} \union {[user |-> u, newest |-> TRUE]}
      /\ shown' = [shown EXCEPT !.auditLoading = TRUE, !.auditError = FALSE]
      /\ UNCHANGED <<saving, usersPast>>
  BY DEF OpenView
<1>2. saving["reset"].phase = "idle" /\ shown.reset = Null
  BY <1>1, NoResetElsewhere DEF NoDialog
<1>3. DialogOK'
  BY <1>1 DEF DialogOK
<1>4. /\ shown'.reset = shown.reset /\ shown'.added = shown.added /\ shown'.addForm = shown.addForm
      /\ shown'.auditLoading = TRUE /\ ShownOK'
  BY <1>1 DEF DialogsInv, ShownOK
<1>5. AuditRequestsOK' /\ \A r \in auditRequests' : r.newest => r.user = u
  <2> SUFFICES ASSUME NEW r \in auditRequests'
               PROVE  r \in [user : ListedUsers, newest : BOOLEAN] /\ (r.newest => r.user = u)
    BY DEF AuditRequestsOK
  <2>1. CASE r = [user |-> u, newest |-> TRUE]
    BY <2>1
  <2>2. ASSUME NEW s \in auditRequests, r = [s EXCEPT !.newest = FALSE]
        PROVE  r \in [user : ListedUsers, newest : BOOLEAN] /\ (r.newest => r.user = u)
    <3>1. s \in [user : ListedUsers, newest : BOOLEAN]
      BY DEF DialogsInv, AuditRequestsOK
    <3>2. QED
      BY <2>2, <3>1
  <2>3. QED
    BY <1>1, <2>1, <2>2
<1>6. AuditOwn'
  BY <1>1, <1>4, <1>5 DEF AuditOwn, AuditLogsOfViewed
<1>7. ResetOwn' /\ AddOwn'
  BY <1>1, <1>2, <1>4 DEF DialogsInv, ResetOwn, ResetShowsItsUser, AddOwn, AddShowsItsUser, NoDialog
<1>8. QED
  BY <1>3, <1>4, <1>5, <1>6, <1>7 DEF DialogsInv

LEMMA AuditAnsweredKeeps ==
  ASSUME DialogsInv, NEW r \in auditRequests, NEW ok \in BOOLEAN, AuditAnswered(r, ok)
  PROVE  DialogsInv'
<1> DEFINE refused == ~ok
           about == IF ok THEN r.user ELSE shown.audit
<1>1. /\ UNCHANGED <<dialog, saving, usersPast>> /\ auditRequests' = auditRequests \ {r}
      /\ shown' = IF ~r.newest THEN shown
                  ELSE [shown EXCEPT !.auditLoading = FALSE, !.auditError = refused, !.audit = about]
  <2>1. shown' = IF ~r.newest THEN shown
                 ELSE [shown EXCEPT !.auditLoading = FALSE, !.auditError = ~ok, !.audit = IF ok THEN r.user ELSE @]
    BY DEF AuditAnswered
  <2>2. ~r.newest => shown' = shown
    BY <2>1
  <2>3. r.newest => shown' = [shown EXCEPT !.auditLoading = FALSE, !.auditError = ~ok, !.audit = IF ok THEN r.user ELSE @]
    BY <2>1
  <2>4. QED
    BY <2>2, <2>3 DEF AuditAnswered
<1>0. (ok => about = r.user) /\ (refused <=> ~ok)
  OBVIOUS
<1> HIDE DEF refused, about
<1>2. /\ shown'.reset = shown.reset /\ shown'.added = shown.added /\ shown'.addForm = shown.addForm
      /\ ShownOK'
  BY <1>1 DEF DialogsInv, ShownOK
<1>3. ResetOwn' /\ AddOwn' /\ DialogOK' /\ AuditRequestsOK'
  BY <1>1, <1>2 DEF DialogsInv, ResetOwn, ResetShowsItsUser, AddOwn, AddShowsItsUser, DialogOK, AuditRequestsOK
<1>4. AuditLogsOfViewed'
  <2>1. CASE ~r.newest
    BY <1>1, <2>1 DEF DialogsInv, AuditOwn, AuditLogsOfViewed
  <2>2. CASE r.newest /\ ok
    <3>1. shown'.audit = r.user
      BY <1>0, <1>1, <2>2 DEF DialogsInv, ShownOK
    <3>2. QED
      BY <1>1, <2>2, <3>1 DEF DialogsInv, AuditOwn, AuditLogsOfViewed
  <2>3. CASE r.newest /\ ~ok
    <3>1. shown'.auditError = refused
      BY <1>1, <2>3 DEF DialogsInv, ShownOK
    <3>2. QED
      BY <1>0, <2>3, <3>1 DEF AuditLogsOfViewed
  <2>4. QED
    BY <2>1, <2>2, <2>3
<1>5. AuditOwn'
  BY <1>1, <1>4 DEF DialogsInv, AuditOwn
<1>6. QED
  BY <1>2, <1>3, <1>5 DEF DialogsInv

\* No dialog is one, about nobody.
LEMMA NoDialogOK ==
  dialog' = NoDialog => DialogOK' /\ dialog'.kind = "none"
<1>1. /\ NoDialog = [f \in {"kind", "user", "row"} |-> NoDialog[f]] /\ NoDialog.kind = "none"
  BY DEF NoDialog
<1>2. "none" \notin Kinds \union {"view"}
  BY DEF Kinds
<1>3. QED
  BY <1>1, <1>2 DEF DialogOK

\* A step that leaves what an addition and the audit logs show, and opens no dialog.
LEMMA NoDialogOpens ==
  ASSUME DialogsInv, HandlersMove, UNCHANGED <<auditRequests, usersPast>>,
         dialog' \in {dialog, NoDialog}, dialog' = NoDialog => dialog.kind \notin {"reset", "add"}, ShownOK',
         shown'.reset = shown.reset, shown'.added = shown.added, shown'.addForm = shown.addForm,
         shown'.audit = shown.audit, shown'.auditLoading = shown.auditLoading,
         shown'.auditError = shown.auditError
  PROVE  DialogsInv'
<1>1. {"reset", "add"} \subseteq SavingFlags
  BY DEF SavingFlags
<1>2. DialogOK' /\ (dialog' = dialog \/ dialog'.kind = "none")
  BY NoDialogOK DEF DialogsInv, DialogOK
<1>0. AuditRequestsOK' /\ AuditOwn'
  BY <1>2 DEF DialogsInv, AuditRequestsOK, AuditOwn, AuditLogsOfViewed
<1>3. ResetOwn'
  <2>1. CASE dialog' = dialog
    BY <1>1, <2>1 DEF DialogsInv, ResetOwn, ResetShowsItsUser, HandlersMove
  <2>2. CASE dialog' = NoDialog
    BY <1>1, <2>2, NoResetElsewhere DEF ResetOwn, ResetShowsItsUser, HandlersMove
  <2>3. QED
    BY <2>1, <2>2
<1>4. AddOwn'
  <2>1. dialog'.kind = "add" \/ dialog.kind # "add"
    OBVIOUS
  <2>2. QED
    BY <1>1, <2>1 DEF DialogsInv, AddOwn, AddShowsItsUser, HandlersMove
<1>5. QED
  BY <1>0, <1>2, <1>3, <1>4 DEF DialogsInv

LEMMA EditTimerKeeps ==
  ASSUME DialogsInv, EditTimerFires
  PROVE  DialogsInv'
<1>1. /\ shown' = [shown EXCEPT !.editTimers = @ - 1] /\ UNCHANGED <<auditRequests, saving, usersPast>>
      /\ dialog' = IF dialog.kind = "edit" THEN NoDialog ELSE dialog
  BY DEF EditTimerFires
<1>2. /\ ShownOK' /\ shown'.reset = shown.reset /\ shown'.added = shown.added
      /\ shown'.addForm = shown.addForm /\ shown'.audit = shown.audit
      /\ shown'.auditLoading = shown.auditLoading /\ shown'.auditError = shown.auditError
  BY <1>1 DEF DialogsInv, ShownOK
<1>3. HandlersMove
  BY <1>1 DEF HandlersMove
<1>4. dialog' \in {dialog, NoDialog} /\ (dialog' = NoDialog => dialog.kind \notin {"reset", "add"})
  BY <1>1 DEF NoDialog
<1>5. QED
  BY <1>1, <1>2, <1>3, <1>4, NoDialogOpens

LEMMA CloseDialogKeeps ==
  ASSUME DialogsInv, UsersPastOK, CloseDialog
  PROVE  DialogsInv' /\ UsersPastOK' /\ usersPast'.own = usersPast.own
<1> DEFINE left == usersPast.formMoved \/ (dialog.kind = "add" /\ saving["add"].phase # "idle")
<1>1. /\ MayClose /\ dialog' = NoDialog /\ shown' = Cleaned(dialog.kind)
      /\ usersPast' = [usersPast EXCEPT !.formMoved = left]
      /\ UNCHANGED <<saving, auditRequests>>
  BY DEF CloseDialog
<1>2. /\ left \in BOOLEAN
      /\ left <=> usersPast.formMoved \/ (dialog.kind = "add" /\ saving["add"].phase # "idle")
  OBVIOUS
<1> HIDE DEF left
<1>3. /\ UsersPastOK' /\ usersPast'.own = usersPast.own /\ usersPast'.formMoved = left
      /\ usersPast'.persons = usersPast.persons
  BY <1>1, <1>2 DEF UsersPastOK
<1>4. dialog'.kind = "none" /\ DialogOK'
  BY <1>1, NoDialogOK
<1>5. /\ ShownOK'
      /\ shown'.reset = IF dialog.kind = "reset" THEN Null ELSE shown.reset
      /\ shown'.added = IF dialog.kind = "add" THEN Null ELSE shown.added
      /\ shown'.addForm = IF dialog.kind = "add" THEN 0 ELSE shown.addForm
  BY <1>1 DEF DialogsInv, ShownOK, Cleaned
<1>6. ResetOwn'
  <2>1. dialog.kind = "reset" => saving["reset"].phase = "idle"
    BY <1>1 DEF MayClose
  <2>2. saving["reset"].phase = "idle" /\ shown'.reset = Null
    BY <1>5, <2>1, NoResetElsewhere
  <2>3. QED
    BY <1>1, <2>2 DEF ResetOwn, ResetShowsItsUser
<1>7. AddOwn'
  <2>1. CASE dialog.kind = "add"
    BY <1>1, <1>2, <1>3, <1>5, <2>1 DEF DialogsInv, AddOwn, AddShowsItsUser
  <2>2. CASE dialog.kind # "add"
    BY <1>1, <1>2, <1>3, <1>5, <2>2 DEF DialogsInv, AddOwn, AddShowsItsUser
  <2>3. QED
    BY <2>1, <2>2
<1>8. AuditOwn' /\ AuditRequestsOK'
  BY <1>1, <1>4 DEF DialogsInv, AuditOwn, AuditLogsOfViewed, AuditRequestsOK
<1>9. QED
  BY <1>3, <1>4, <1>5, <1>6, <1>7, <1>8 DEF DialogsInv

\* A change is sent for the account of the dialog.
LEMMA ConfirmKeeps ==
  ASSUME DialogsInv, HandlersOK, Confirm
  PROVE  DialogsInv' /\ HandlersOK' /\ (NoneToReload' => NoneToReload)
<1> DEFINE flag == FlagOf(dialog.kind)
           h == [phase |-> "sent", kind |-> dialog.kind, user |-> dialog.user]
<1>1. /\ dialog.kind \in Kinds /\ saving[flag].phase = "idle"
      /\ dialog.kind = "reset" => shown.reset = Null
      /\ saving' = [saving EXCEPT ![flag] = h] /\ UNCHANGED <<dialog, shown, auditRequests, usersPast>>
  BY DEF Confirm
<1>2. flag \in SavingFlags /\ flag # "add" /\ (flag = "reset" <=> dialog.kind = "reset")
  BY <1>1 DEF FlagOf, SavingFlags, Kinds
<1>3. /\ h \in Handlers /\ h.phase = "sent" /\ h.kind = dialog.kind /\ h.user = dialog.user
      /\ h.user \in ListedUsers
  BY <1>1 DEF DialogsInv, DialogOK, Handlers
<1> HIDE DEF flag, h
<1>5. saving'[flag] = h /\ \A f \in SavingFlags \ {flag} : saving'[f] = saving[f]
  BY <1>1, <1>2 DEF HandlersOK
<1>6. HandlersOK'
  <2>1. saving' \in [SavingFlags -> Handlers]
    BY <1>1, <1>2, <1>3 DEF HandlersOK
  <2>2. ASSUME NEW f \in SavingFlags, saving'[f].phase # "idle"
        PROVE  /\ FlagOf(saving'[f].kind) = f
               /\ \/ saving'[f].kind \in Kinds /\ saving'[f].user \in ListedUsers
                  \/ saving'[f].kind = "add" /\ saving'[f].user \in Nat \ {0}
    <3>1. CASE f = flag
      <4>1. saving'[f].kind = dialog.kind /\ saving'[f].user \in ListedUsers
        BY <1>3, <1>5, <3>1
      <4>2. FlagOf(saving'[f].kind) = f
        BY <3>1, <4>1 DEF flag
      <4>3. QED
        BY <1>1, <4>1, <4>2
    <3>2. CASE f # flag
      BY <1>5, <2>2, <3>2 DEF HandlersOK
    <3>3. QED
      BY <3>1, <3>2
  <2>3. QED
    BY <2>1, <2>2 DEF HandlersOK
<1>7. NoneToReload' => NoneToReload
  BY <1>1, <1>3, <1>5 DEF NoneToReload
<1>8. {"reset", "add"} \subseteq SavingFlags
  BY DEF SavingFlags
<1>9. ResetOwn'
  <2>1. CASE flag = "reset"
    BY <1>1, <1>2, <1>3, <1>5, <2>1 DEF ResetOwn, ResetShowsItsUser
  <2>2. CASE flag # "reset"
    BY <1>1, <1>5, <1>8, <2>2 DEF DialogsInv, ResetOwn, ResetShowsItsUser
  <2>3. QED
    BY <2>1, <2>2
<1>10. AddOwn'
  BY <1>1, <1>2, <1>5, <1>8 DEF DialogsInv, AddOwn, AddShowsItsUser
<1>11. DialogOK' /\ ShownOK' /\ AuditRequestsOK' /\ AuditOwn'
  BY <1>1 DEF DialogsInv, DialogOK, ShownOK, AuditRequestsOK, AuditOwn, AuditLogsOfViewed
<1>12. QED
  BY <1>6, <1>7, <1>9, <1>10, <1>11 DEF DialogsInv

LEMMA ConfirmAddKeeps ==
  ASSUME DialogsInv, HandlersOK, UsersPastOK, ConfirmAdd
  PROVE  /\ DialogsInv' /\ HandlersOK' /\ UsersPastOK'
         /\ usersPast'.own = usersPast.own /\ (NoneToReload' => NoneToReload)
<1> DEFINE n == usersPast.persons + 1
           h == [phase |-> "sent", kind |-> "add", user |-> n]
<1>1. /\ dialog.kind = "add" /\ saving["add"].phase = "idle" /\ shown.added = Null
      /\ saving' = [saving EXCEPT !["add"] = h] /\ shown' = [shown EXCEPT !.addForm = n]
      /\ usersPast' = [usersPast EXCEPT !.persons = n, !.formMoved = FALSE]
      /\ UNCHANGED <<dialog, auditRequests>>
  BY DEF ConfirmAdd
<1>2. n \in Nat \ {0}
  BY DEF UsersPastOK
<1>3. h \in Handlers /\ h.phase = "sent" /\ h.kind = "add" /\ h.user = n
  BY <1>2 DEF Handlers
<1> HIDE DEF n, h
<1>4. /\ UsersPastOK' /\ usersPast'.own = usersPast.own
      /\ usersPast'.persons = n /\ usersPast'.formMoved = FALSE
  BY <1>1, <1>2 DEF UsersPastOK
<1>5. "add" \in SavingFlags /\ "reset" \in SavingFlags \ {"add"}
  BY DEF SavingFlags
<1>6. saving'["add"] = h /\ \A f \in SavingFlags \ {"add"} : saving'[f] = saving[f]
  BY <1>1, <1>5 DEF HandlersOK
<1>7. HandlersOK'
  BY <1>1, <1>2, <1>3, <1>5, <1>6 DEF HandlersOK, FlagOf
<1>8. NoneToReload' => NoneToReload
  BY <1>1, <1>3, <1>5, <1>6 DEF NoneToReload
<1>9. /\ ShownOK' /\ shown'.addForm = n /\ shown'.added = Null /\ shown'.reset = shown.reset
      /\ shown'.audit = shown.audit /\ shown'.auditLoading = shown.auditLoading
      /\ shown'.auditError = shown.auditError
  BY <1>1 DEF DialogsInv, ShownOK
<1>10. ResetOwn' /\ AddOwn'
  BY <1>1, <1>2, <1>3, <1>4, <1>5, <1>6, <1>9 DEF DialogsInv, ResetOwn, ResetShowsItsUser, AddOwn, AddShowsItsUser
<1>11. DialogOK' /\ AuditRequestsOK' /\ AuditOwn'
  BY <1>1, <1>9 DEF DialogsInv, DialogOK, AuditRequestsOK, AuditOwn, AuditLogsOfViewed
<1>12. QED
  BY <1>4, <1>7, <1>8, <1>9, <1>10, <1>11 DEF DialogsInv

LEMMA EnterAnotherKeeps ==
  ASSUME DialogsInv, HandlersOK, UsersPastOK, EnterAnother
  PROVE  DialogsInv' /\ UsersPastOK' /\ usersPast'.own = usersPast.own
<1>1. /\ dialog.kind = "add" /\ saving["add"].phase # "idle" /\ shown.added = Null
      /\ shown' = [shown EXCEPT !.addForm = usersPast.persons + 1]
      /\ usersPast' = [usersPast EXCEPT !.formMoved = TRUE]
      /\ UNCHANGED <<dialog, saving, auditRequests>>
  BY DEF EnterAnother
<1>2. /\ UsersPastOK' /\ usersPast'.own = usersPast.own
      /\ usersPast'.persons = usersPast.persons /\ usersPast'.formMoved
      /\ usersPast.persons \in Nat
  BY <1>1 DEF UsersPastOK
<1>3. /\ ShownOK' /\ shown'.added = Null /\ shown'.reset = shown.reset
      /\ shown'.addForm = usersPast.persons + 1
      /\ shown'.audit = shown.audit /\ shown'.auditLoading = shown.auditLoading
      /\ shown'.auditError = shown.auditError
  BY <1>1 DEF DialogsInv, ShownOK
<1>4. QED
  BY <1>1, <1>2, <1>3 DEF DialogsInv, DialogOK, AuditRequestsOK, ResetOwn, ResetShowsItsUser, AddOwn,
     AddShowsItsUser, AuditOwn, AuditLogsOfViewed

LEMMA HandlerFailsKeeps ==
  ASSUME DialogsInv, HandlersOK, NEW flag \in SavingFlags, HandlerFails(flag)
  PROVE  DialogsInv' /\ HandlersOK' /\ (NoneToReload' => NoneToReload)
<1>1. /\ saving[flag].phase = "failed" /\ saving' = [saving EXCEPT ![flag] = NoHandler]
      /\ UNCHANGED <<dialog, shown, auditRequests, usersPast>>
  BY DEF HandlerFails
<1>2. /\ HandlersOK' /\ HandlersMove /\ \A f \in SavingFlags \ {flag} : saving'[f] = saving[f]
  BY <1>1, HandlerEnds
<1>3. NoneToReload' => NoneToReload
  BY <1>1, <1>2 DEF NoneToReload
<1>4. QED
  BY <1>1, <1>2, <1>3, DialogsRest

\* A handler that does not reload: an account is unlocked, or its password reset.
LEMMA HandlerDone ==
  ASSUME DialogsInv, HandlersOK, NEW flag \in SavingFlags, HandlerAnswered(flag),
         ~ReloadsAfter(saving[flag].kind)
  PROVE  /\ DialogsInv' /\ HandlersOK' /\ (NoneToReload' => NoneToReload)
         /\ UNCHANGED <<listVars, usersPast>>
<1> DEFINE h == saving[flag]
<1>1. /\ h.phase = "ok" /\ saving' = [saving EXCEPT ![flag] = NoHandler]
      /\ dialog' = IF h.kind = dialog.kind /\ h.kind = "unlock" THEN NoDialog ELSE dialog
      /\ shown' = IF h.kind = "reset" THEN [shown EXCEPT !.reset = h.user] ELSE shown
      /\ UNCHANGED <<listVars, usersPast, auditRequests>>
  BY DEF HandlerAnswered
<1>2. /\ HandlersOK' /\ HandlersMove /\ saving'[flag].phase = "idle"
      /\ \A f \in SavingFlags \ {flag} : saving'[f] = saving[f]
  BY <1>1, HandlerEnds
<1>3. NoneToReload' => NoneToReload
  BY <1>1, <1>2 DEF NoneToReload
<1>4. CASE h.kind # "reset"
  <2>1. shown' = shown /\ ShownOK'
    BY <1>1, <1>4 DEF DialogsInv, ShownOK
  <2>2. dialog' \in {dialog, NoDialog} /\ (dialog' = NoDialog => dialog.kind \notin {"reset", "add"})
    BY <1>1 DEF NoDialog
  <2>3. QED
    BY <1>1, <1>2, <1>3, <2>1, <2>2, NoDialogOpens
<1>5. CASE h.kind = "reset"
  <2>1. flag = "reset"
    BY <1>1, <1>5 DEF HandlersOK, FlagOf
  <2>2. dialog.kind = "reset" /\ dialog.user = h.user /\ dialog' = dialog
    BY <1>1, <1>5, <2>1 DEF DialogsInv, ResetOwn
  <2> HIDE DEF h
  <2>3. /\ ShownOK' /\ shown'.reset = h.user /\ shown'.added = shown.added /\ shown'.addForm = shown.addForm
        /\ shown'.audit = shown.audit /\ shown'.auditLoading = shown.auditLoading
        /\ shown'.auditError = shown.auditError
    BY <1>1, <1>5 DEF DialogsInv, ShownOK
  <2>4. ResetOwn'
    BY <1>2, <2>1, <2>2, <2>3 DEF ResetOwn, ResetShowsItsUser
  <2>5. "add" \in SavingFlags
    BY DEF SavingFlags
  <2>6. AddOwn'
    BY <1>1, <1>2, <2>3, <2>5 DEF DialogsInv, AddOwn, AddShowsItsUser, HandlersMove
  <2>7. DialogOK' /\ AuditRequestsOK' /\ AuditOwn'
    BY <1>1, <2>2, <2>3 DEF DialogsInv, DialogOK, AuditRequestsOK, AuditOwn, AuditLogsOfViewed
  <2>8. QED
    BY <1>1, <1>2, <1>3, <2>3, <2>4, <2>6, <2>7 DEF DialogsInv
<1>6. QED
  BY <1>4, <1>5

\* A handler that reloads.
LEMMA HandlerReloads ==
  ASSUME DialogsInv, HandlersOK, UsersPastOK, ListsOK, ListsFresh,
         NEW flag \in SavingFlags, HandlerAnswered(flag), ReloadsAfter(saving[flag].kind)
  PROVE  DialogsInv' /\ HandlersOK' /\ UsersPastOK' /\ ListsOK' /\ ListsFresh'
<1> DEFINE lost == usersPast.lost \/ Overtakes(usersList.params)
<1>1. /\ saving[flag].phase = "ok" /\ saving' = [saving EXCEPT ![flag].phase = "reloading"]
      /\ Reload(flag) /\ SyncSearchBox(searchBox.local)
      /\ usersPast' = [usersPast EXCEPT !.lost = lost]
      /\ UNCHANGED <<userRow, dialog, shown, auditRequests>>
  BY DEF HandlerAnswered
<1>2. lost \in BOOLEAN
  OBVIOUS
<1> HIDE DEF lost
<1>3. /\ UsersPastOK' /\ usersPast'.own = usersPast.own
      /\ usersPast'.formMoved = usersPast.formMoved /\ usersPast'.persons = usersPast.persons
  BY <1>1, <1>2 DEF UsersPastOK
<1>4. HandlersOK' /\ HandlersMove
  BY <1>1, HandlerMoves
<1>5. ListsOK' /\ ListsFresh'
  BY <1>1, <1>3, ReloadKeeps
<1>6. DialogsInv'
  BY <1>1, <1>3, <1>4, DialogsRest
<1>7. QED
  BY <1>3, <1>4, <1>5, <1>6

LEMMA HandlerFinishesKeeps ==
  ASSUME DialogsInv, HandlersOK, NEW flag \in SavingFlags, HandlerFinishes(flag)
  PROVE  DialogsInv' /\ HandlersOK' /\ (NoneToReload' => NoneToReload)
<1> DEFINE h == saving[flag]
<1>1. /\ h.phase = "reloading" /\ saving' = [saving EXCEPT ![flag] = NoHandler]
      /\ dialog' = IF h.kind = dialog.kind /\ flag = "action" THEN NoDialog ELSE dialog
      /\ shown' = CASE flag = "add" -> [shown EXCEPT !.added = [user |-> h.user, password |-> shown.addForm]]
                    [] flag = "edit" -> [shown EXCEPT !.editTimers = @ + 1]
                    [] OTHER -> shown
      /\ UNCHANGED <<auditRequests, usersPast>>
  BY DEF HandlerFinishes
<1>2. /\ HandlersOK' /\ HandlersMove /\ saving'[flag].phase = "idle"
      /\ \A f \in SavingFlags \ {flag} : saving'[f] = saving[f]
  BY <1>1, HandlerEnds
<1>3. NoneToReload' => NoneToReload
  BY <1>1, <1>2 DEF NoneToReload
<1>4. CASE flag # "add"
  <2>1. /\ ShownOK' /\ shown'.reset = shown.reset /\ shown'.added = shown.added
        /\ shown'.addForm = shown.addForm /\ shown'.audit = shown.audit
        /\ shown'.auditLoading = shown.auditLoading /\ shown'.auditError = shown.auditError
    BY <1>1, <1>4 DEF DialogsInv, ShownOK
  <2>2. dialog' = NoDialog => dialog.kind \notin {"reset", "add"}
    <3>1. FlagOf(h.kind) = flag
      BY <1>1 DEF HandlersOK
    <3>2. flag = "action" => h.kind \notin {"reset", "add"}
      BY <3>1 DEF FlagOf
    <3>3. QED
      BY <1>1, <3>2 DEF NoDialog
  <2>3. dialog' \in {dialog, NoDialog}
    BY <1>1
  <2>4. QED
    BY <1>1, <1>2, <1>3, <2>1, <2>2, <2>3, NoDialogOpens
<1>5. CASE flag = "add"
  <2>1. dialog' = dialog /\ shown' = [shown EXCEPT !.added = [user |-> h.user, password |-> shown.addForm]]
    BY <1>1, <1>5
  <2>2. /\ ShownOK' /\ shown'.reset = shown.reset /\ shown'.addForm = shown.addForm
        /\ shown'.added = [user |-> h.user, password |-> shown.addForm] /\ shown'.audit = shown.audit
        /\ shown'.auditLoading = shown.auditLoading /\ shown'.auditError = shown.auditError
    BY <2>1 DEF DialogsInv, ShownOK
  <2>3. /\ h.user = usersPast.persons /\ (shown.addForm = usersPast.persons <=> ~usersPast.formMoved)
        /\ dialog.kind = "add" \/ usersPast.formMoved
    BY <1>1, <1>5 DEF DialogsInv, AddOwn
  <2>4. AddOwn'
    BY <1>1, <1>2, <1>5, <2>1, <2>2, <2>3 DEF AddOwn, AddShowsItsUser
  <2>5. "reset" \in SavingFlags
    BY DEF SavingFlags
  <2>6. ResetOwn'
    BY <1>2, <2>1, <2>2, <2>5 DEF DialogsInv, ResetOwn, ResetShowsItsUser, HandlersMove
  <2>7. DialogOK' /\ AuditRequestsOK' /\ AuditOwn'
    BY <1>1, <2>1, <2>2 DEF DialogsInv, DialogOK, AuditRequestsOK, AuditOwn, AuditLogsOfViewed
  <2>8. QED
    BY <1>2, <1>3, <2>2, <2>4, <2>6, <2>7 DEF DialogsInv
<1>6. QED
  BY <1>4, <1>5

-----------------------------------------------------------------------------
UsersInv == ListsOK /\ UsersPastOK /\ HandlersOK /\ ListsFresh /\ DialogsInv

LEMMA UsersPageInitInv == UsersPageInit => UsersInv
<1> SUFFICES ASSUME UsersPageInit PROVE UsersInv
  OBVIOUS
<1>1. FirstParams \in ListParams /\ NoText \in Texts
  BY DEF FirstParams, ListParams, Texts
<1>2. userRow \in UserRows /\ \A u \in ListedUsers : userRow[u].changes = 0
  BY DEF UsersPageInit, UserRows
<1>3. usersEntry \in Entries /\ \A p \in ListParams : usersEntry[p] \in {Null, userRow}
  <2> DEFINE none == [p \in ListParams |-> Null]
  <2>1. none \in [ListParams -> {Null}] /\ usersEntry = [none EXCEPT ![FirstParams] = userRow]
    BY DEF UsersPageInit
  <2> HIDE DEF none
  <2>2. QED
    BY <1>1, <1>2, <2>1 DEF Entries
<1>4. usersFlight \in Flights /\ \A p \in ListParams : usersFlight[p].rows = Null
  BY DEF UsersPageInit, Flights, NoFlight
<1>5. ListsOK /\ UsersPastOK
  BY <1>1, <1>2, <1>3, <1>4 DEF UsersPageInit, ListsOK, UsersPastOK, ShownLists
<1>6. ListsFresh
  BY <1>2, <1>3, <1>4 DEF UsersPageInit, ListsFresh, Fresh
<1>7. HandlersOK /\ \A f \in SavingFlags : saving[f].phase = "idle"
  BY DEF UsersPageInit, HandlersOK, NoHandler, Handlers
<1>8. DialogsInv
  <2>1. "reset" \in SavingFlags /\ "add" \in SavingFlags
    BY DEF SavingFlags
  <2>2. dialog.kind = "none" /\ DialogOK
    <3>1. dialog = NoDialog
      BY DEF UsersPageInit
    <3>2. "none" \notin Kinds \union {"view"}
      BY DEF Kinds
    <3>3. QED
      BY <3>1, <3>2 DEF DialogOK, NoDialog
  <2>3. ShownOK /\ shown.reset = Null /\ shown.added = Null
    BY DEF UsersPageInit, ShownOK
  <2>4. ResetOwn /\ AddOwn /\ AuditOwn
    BY <1>7, <2>1, <2>2, <2>3 DEF ResetOwn, ResetShowsItsUser, AddOwn, AddShowsItsUser, AuditOwn, AuditLogsOfViewed
  <2>5. QED
    BY <2>2, <2>3, <2>4 DEF DialogsInv, AuditRequestsOK, UsersPageInit
<1>9. QED
  BY <1>5, <1>6, <1>7, <1>8 DEF UsersInv

\* A step of the lists, while the handlers and dialogs rest.
LEMMA ListStepInv ==
  ASSUME UsersInv, UNCHANGED dialogVars,
         usersPast'.formMoved = usersPast.formMoved, usersPast'.persons = usersPast.persons,
         ListsOK', UsersPastOK', ListsFresh'
  PROVE  UsersInv'
<1>1. UNCHANGED <<dialog, saving, shown, auditRequests>>
  BY DEF dialogVars
<1>2. HandlersMove
  BY <1>1 DEF HandlersMove
<1>3. HandlersOK'
  BY <1>1 DEF UsersInv, HandlersOK
<1>4. DialogsInv'
  BY <1>1, <1>2, DialogsRest DEF UsersInv
<1>5. QED
  BY <1>3, <1>4 DEF UsersInv

\* A step of the dialogs, while the lists rest.
LEMMA DialogStepInv ==
  ASSUME UsersInv, UNCHANGED <<userRow, listVars>>, usersPast'.own = usersPast.own,
         NoneToReload' => NoneToReload, UsersPastOK', HandlersOK', DialogsInv'
  PROVE  UsersInv'
BY ListsRest DEF UsersInv

LEMMA UsersListsNextInv ==
  ASSUME UsersInv,
         \/ \E text \in SearchTexts \union {NoText} : HandleSearchInput(text)
         \/ SearchTimerFires \/ ToggleFilter \/ ClickPage \/ ClearFilters
         \/ \E params \in ListParams : ListSteps(params)
         \/ \E u \in ListedUsers, state \in {"active", "archived", "deleted"} : OtherChange(u, state)
  PROVE  UsersInv'
<1>1. ListsOK /\ UsersPastOK /\ ListsFresh
  BY DEF UsersInv
<1>2. ASSUME NEW text \in SearchTexts \union {NoText}, HandleSearchInput(text) PROVE UsersInv'
  <2>1. /\ UNCHANGED <<userRow, usersEntry, usersFlight, usersNav, usersList, dialogVars>>
        /\ searchBox' = [local |-> text, timer |-> text]
        /\ usersPast' = [usersPast EXCEPT !.asked = text]
    BY <1>2 DEF HandleSearchInput
  <2>2. /\ UsersPastOK' /\ usersPast'.own = usersPast.own
        /\ usersPast'.formMoved = usersPast.formMoved /\ usersPast'.persons = usersPast.persons
    BY <1>1, <2>1 DEF UsersPastOK, Texts
  <2>3. UNCHANGED saving
    BY <2>1 DEF dialogVars
  <2>4. ListsOK' /\ ListsFresh'
    BY <1>1, <2>1, <2>2, <2>3 DEF ListsOK, ListsFresh, Fresh, NoneToReload, Texts
  <2>5. QED
    BY <2>1, <2>2, <2>4, ListStepInv
<1>3. CASE SearchTimerFires
  <2>1. UNCHANGED <<usersPast, dialogVars>>
    BY <1>3 DEF SearchTimerFires, UpdateFilters
  <2>2. QED
    BY <1>1, <1>3, <2>1, SearchTimerKeeps, ListStepInv
<1>4. CASE ToggleFilter \/ ClickPage \/ ClearFilters
  <2>1. UNCHANGED dialogVars
    BY <1>4 DEF ToggleFilter, ClickPage, ClearFilters, ClickFilter, UpdateFilters
  <2>2. usersPast'.formMoved = usersPast.formMoved /\ usersPast'.persons = usersPast.persons
    BY <1>1, <1>4 DEF ToggleFilter, ClickPage, ClearFilters, ClickFilter, UsersPastOK
  <2>3. QED
    BY <1>1, <1>4, <2>1, <2>2, ControlsKeep, ListStepInv
<1>5. ASSUME NEW params \in ListParams, ListSteps(params) PROVE UsersInv'
  <2>1. UNCHANGED <<usersPast, dialogVars>>
    BY <1>5 DEF ListSteps, ServeList, ListArrives
  <2>2. ListsOK' /\ ListsFresh'
    BY <1>1, <1>5, ServeListKeeps, ListArrivesKeeps DEF ListSteps
  <2>3. UsersPastOK'
    BY <1>1, <2>1 DEF UsersPastOK
  <2>4. QED
    BY <2>1, <2>2, <2>3, ListStepInv
<1>6. ASSUME NEW u \in ListedUsers, NEW state \in {"active", "archived", "deleted"}, OtherChange(u, state)
      PROVE  UsersInv'
  <2>1. UNCHANGED <<usersPast, dialogVars>>
    BY <1>6 DEF OtherChange
  <2>2. ListsOK' /\ ListsFresh'
    BY <1>1, <1>6, OtherChangeKeeps
  <2>3. UsersPastOK'
    BY <1>1, <2>1 DEF UsersPastOK
  <2>4. QED
    BY <2>1, <2>2, <2>3, ListStepInv
<1>7. QED
  BY <1>2, <1>3, <1>4, <1>5, <1>6

LEMMA HandlerStepsInv ==
  ASSUME UsersInv, NEW flag \in SavingFlags, HandlerSteps(flag)
  PROVE  UsersInv'
<1>1. ListsOK /\ UsersPastOK /\ HandlersOK /\ ListsFresh /\ DialogsInv
  BY DEF UsersInv
<1>2. CASE ServerHandles(flag)
  <2>1. UNCHANGED <<dialog, shown, auditRequests>>
    BY <1>2 DEF ServerHandles
  <2>2. QED
    BY <1>1, <1>2, <2>1, ServerHandlesKeeps, DialogsRest DEF UsersInv
<1>3. CASE HandlerFails(flag)
  <2>1. UNCHANGED <<userRow, listVars, usersPast>>
    BY <1>3 DEF HandlerFails
  <2>2. UsersPastOK'
    BY <1>1, <2>1 DEF UsersPastOK
  <2>3. QED
    BY <1>1, <1>3, <2>1, <2>2, HandlerFailsKeeps, DialogStepInv
<1>4. CASE HandlerAnswered(flag)
  <2>1. CASE ReloadsAfter(saving[flag].kind)
    BY <1>1, <1>4, <2>1, HandlerReloads DEF UsersInv
  <2>2. CASE ~ReloadsAfter(saving[flag].kind)
    <3>1. UNCHANGED <<userRow, listVars, usersPast>>
      BY <1>1, <1>4, <2>2, HandlerDone DEF HandlerAnswered
    <3>2. UsersPastOK'
      BY <1>1, <3>1 DEF UsersPastOK
    <3>3. QED
      BY <1>1, <1>4, <2>2, <3>1, <3>2, HandlerDone, DialogStepInv
  <2>3. QED
    BY <2>1, <2>2
<1>5. CASE HandlerFinishes(flag)
  <2>1. UNCHANGED <<userRow, listVars, usersPast>>
    BY <1>5 DEF HandlerFinishes
  <2>2. UsersPastOK'
    BY <1>1, <2>1 DEF UsersPastOK
  <2>3. QED
    BY <1>1, <1>5, <2>1, <2>2, HandlerFinishesKeeps, DialogStepInv
<1>6. QED
  BY <1>2, <1>3, <1>4, <1>5 DEF HandlerSteps

LEMMA UsersDialogsNextInv ==
  ASSUME UsersInv,
         \/ \E u \in ListedUsers : OpenView(u) \/ \E kind \in Kinds : OpenDialog(kind, u)
         \/ \E kind \in Kinds : OpenFromView(kind)
         \/ OpenAdd \/ CloseDialog \/ Confirm \/ ConfirmAdd \/ EnterAnother \/ EditTimerFires
         \/ \E r \in auditRequests, ok \in BOOLEAN : AuditAnswered(r, ok)
  PROVE  UsersInv'
<1>1. ListsOK /\ UsersPastOK /\ HandlersOK /\ ListsFresh /\ DialogsInv
  BY DEF UsersInv
<1>2. ASSUME UNCHANGED <<userRow, listVars, saving, usersPast>>, DialogsInv' PROVE UsersInv'
  <2>1. UsersPastOK' /\ HandlersOK' /\ (NoneToReload' => NoneToReload)
    BY <1>1, <1>2 DEF UsersPastOK, HandlersOK, NoneToReload
  <2>2. QED
    BY <1>2, <2>1, DialogStepInv
<1>3. ASSUME NEW u \in ListedUsers, OpenView(u) PROVE UsersInv'
  BY <1>1, <1>2, <1>3, OpenViewKeeps DEF OpenView
<1>4. ASSUME NEW u \in ListedUsers, NEW kind \in Kinds, OpenDialog(kind, u) PROVE UsersInv'
  BY <1>1, <1>2, <1>4, OpenDialogKeeps DEF OpenDialog
<1>5. ASSUME NEW kind \in Kinds, OpenFromView(kind) PROVE UsersInv'
  <2>1. dialog.user \in ListedUsers
    BY <1>1, <1>5 DEF OpenFromView, DialogsInv, DialogOK
  <2>2. QED
    BY <1>1, <1>2, <1>5, <2>1, OpenDialogKeeps DEF OpenFromView
<1>6. CASE OpenAdd
  <2>1. dialog.kind \notin {"reset", "add"} /\ dialog' = [kind |-> "add", user |-> Null, row |-> Null]
    BY <1>6 DEF OpenAdd, NoDialog
  <2>2. "add" \notin Kinds
    BY DEF Kinds
  <2>3. QED
    BY <1>1, <1>2, <1>6, <2>1, <2>2, DialogOpens DEF OpenAdd
<1>7. CASE CloseDialog
  <2>1. UNCHANGED <<userRow, listVars, saving>>
    BY <1>7 DEF CloseDialog
  <2>2. HandlersOK' /\ (NoneToReload' => NoneToReload)
    BY <1>1, <2>1 DEF HandlersOK, NoneToReload
  <2>3. QED
    BY <1>1, <1>7, <2>1, <2>2, CloseDialogKeeps, DialogStepInv
<1>8. CASE Confirm
  <2>1. UNCHANGED <<userRow, listVars, usersPast>>
    BY <1>8 DEF Confirm
  <2>2. UsersPastOK'
    BY <1>1, <2>1 DEF UsersPastOK
  <2>3. QED
    BY <1>1, <1>8, <2>1, <2>2, ConfirmKeeps, DialogStepInv
<1>9. CASE ConfirmAdd
  <2>1. UNCHANGED <<userRow, listVars>>
    BY <1>9 DEF ConfirmAdd
  <2>2. QED
    BY <1>1, <1>9, <2>1, ConfirmAddKeeps, DialogStepInv
<1>10. CASE EnterAnother
  <2>1. UNCHANGED <<userRow, listVars, saving>>
    BY <1>10 DEF EnterAnother
  <2>2. HandlersOK' /\ (NoneToReload' => NoneToReload)
    BY <1>1, <2>1 DEF HandlersOK, NoneToReload
  <2>3. QED
    BY <1>1, <1>10, <2>1, <2>2, EnterAnotherKeeps, DialogStepInv
<1>11. CASE EditTimerFires
  BY <1>1, <1>2, <1>11, EditTimerKeeps DEF EditTimerFires
<1>12. ASSUME NEW r \in auditRequests, NEW ok \in BOOLEAN, AuditAnswered(r, ok) PROVE UsersInv'
  BY <1>1, <1>2, <1>12, AuditAnsweredKeeps DEF AuditAnswered
<1>13. QED
  BY <1>3, <1>4, <1>5, <1>6, <1>7, <1>8, <1>9, <1>10, <1>11, <1>12

LEMMA UsersPageNextInv == UsersInv /\ [UsersPageNext]_usersPageVars => UsersInv'
<1> SUFFICES ASSUME UsersInv, [UsersPageNext]_usersPageVars PROVE UsersInv'
  OBVIOUS
<1>1. CASE UNCHANGED usersPageVars
  <2>1. UNCHANGED <<userRow, listVars, dialogVars, usersPast>>
    BY <1>1 DEF usersPageVars
  <2>2. UNCHANGED <<dialog, saving, shown, auditRequests>>
    BY <2>1 DEF dialogVars
  <2>3. HandlersMove /\ UsersPastOK' /\ HandlersOK' /\ (NoneToReload' => NoneToReload)
    BY <2>1, <2>2 DEF HandlersMove, UsersInv, UsersPastOK, HandlersOK, NoneToReload
  <2>4. DialogsInv'
    BY <2>1, <2>2, <2>3, DialogsRest DEF UsersInv
  <2>5. QED
    BY <2>1, <2>3, <2>4, DialogStepInv
<1>2. CASE UsersPageNext
  BY <1>2, UsersListsNextInv, UsersDialogsNextInv, HandlerStepsInv DEF UsersPageNext
<1>3. QED
  BY <1>1, <1>2

LEMMA UsersPageInvariant == UsersPageSpec => []UsersInv
BY UsersPageInitInv, UsersPageNextInv, PTL DEF UsersPageSpec

\* What the page of accounts shows belongs together, for any accounts, search texts and
\* numbers of changes: the list with the changes made on it, and each dialog with its account.
THEOREM UsersPageShowsOwn == UsersPageSpec => []UsersPageCorrect
<1>1. UsersInv => UsersPageCorrect
  <2> SUFFICES ASSUME UsersInv PROVE UsersPageCorrect
    OBVIOUS
  <2>1. OwnChangesListed
    <3> SUFFICES ASSUME NEW u \in ListedUsers,
                        \A f \in SavingFlags : saving[f].phase \notin {"ok", "reloading"}
                 PROVE  /\ (usersNav = Null /\ usersList.rows # Null) => usersList.rows[u].changes >= usersPast.own[u]
                        /\ \A p \in ListParams : usersEntry[p] # Null => usersEntry[p][u].changes >= usersPast.own[u]
      BY DEF OwnChangesListed
    <3>1. NoneToReload
      BY DEF NoneToReload
    <3>2. QED
      BY <3>1 DEF UsersInv, ListsFresh, Fresh
  <2>2. QED
    BY <2>1 DEF UsersInv, DialogsInv, ResetOwn, AddOwn, AuditOwn, UsersPageCorrect
<1>2. QED
  BY <1>1, UsersPageInvariant, PTL

-----------------------------------------------------------------------------
(* The page of an election: what its variables are. *)

RowFieldsOf(x) == x = [status |-> x.status, version |-> x.version] /\ x.version \in Nat

ListFieldsOf(x) == x = [names |-> x.names, version |-> x.version] /\ x.version \in Nat

ServerOK ==
  /\ server = [election |-> server["election"], positions |-> server["positions"]]
  /\ RowFieldsOf(server["election"]) /\ ListFieldsOf(server["positions"])

LoadFields == {"phase", "by", "orphan", "value", "election", "positions"}

Phases == {"idle", "election", "positions", "done", "failed"}

IsLoad(x) == x = [f \in LoadFields |-> x[f]] /\ x.phase \in Phases /\ x.orphan \in BOOLEAN

\* The router's load waits for a resource, or there is none; what it has of its own is
\* the election's row, and the answer to an orphaned request.
RouterOK(x) ==
  /\ IsLoad(x) /\ x.phase \notin {"done", "failed"}
  /\ x.phase = "idle" => x = NoLoad
  /\ x.phase = "positions" => x.election # Null
  /\ x.phase = "election" => x.election = Null
  /\ x.value # Null => x.orphan

IsFetch(x) == x = [sent |-> x.sent, value |-> x.value]

CacheOK ==
  /\ entries = [r \in Resources |-> entries[r]]
  /\ flights = [r \in Resources |-> flights[r]] /\ \A r \in Resources : IsFetch(flights[r])
  /\ loads = [l \in Loaders |-> loads[l]] /\ \A l \in Loaders : IsLoad(loads[l])
  /\ RouterOK(loads["router"])

TaskFields == {"phase", "kind", "names", "made", "list", "version"}

IsTask(x) ==
  /\ x = [f \in TaskFields |-> x[f]]
  /\ x.phase \in {"idle", "sent", "answered", "failed", "reloading", "loading"}
  /\ x.version \in Nat
  /\ x.phase = "idle" => x = NoTask

\* The task of a form that is not done: what is still to be made.
Unfinished == {"sent", "answered", "failed"}

FormOK(x) ==
  /\ x.made \in {0, 1}
  /\ x.phase \in {"idle", "reloading"} \union Unfinished
  /\ x.phase \in Unfinished =>
       /\ x.kind \in {"add", "edit", "election", "common"}
       /\ x.names \in Seq(Presets \union {AddedName, Null}) /\ Len(x.names) > 0
       /\ x.kind # "common" => Len(x.names) = 1 /\ x.made = 0

TasksOK ==
  /\ tasks = [h \in Tasks |-> tasks[h]] /\ \A h \in Tasks : IsTask(tasks[h])
  /\ FormOK(tasks["form"])
  /\ tasks["reorder"].kind = Null
  /\ \A h \in LifecycleTasks : tasks[h].kind \notin {"add", "common", "election"}

ElectionPastOK ==
  /\ electionPast = [f \in {"told", "created", "together", "putBack", "behind"} |-> electionPast[f]]
  /\ electionPast.told \in [Resources -> Nat]
  /\ electionPast.together \in BOOLEAN /\ electionPast.behind \in BOOLEAN

ControlsOK == controls \in [refreshing : BOOLEAN, stale : BOOLEAN]

\* The status a dialog of the lifecycle leads to.
ModalOK == modal = [kind |-> modal.kind, to |-> modal.to] /\ modal.to \notin {"add", "common", "election"}

-----------------------------------------------------------------------------
(* The list and the row are not older than what the page was told.            *)

FreshList(x, past) == x.version >= past.told["positions"] /\ past.created \subseteq x.names

FreshRow(x, past) == x.version >= past.told["election"]

\* The server has done what the page was told.
ServerTold ==
  /\ FreshList(server["positions"], electionPast) /\ FreshRow(server["election"], electionPast)
  /\ \A h \in Tasks : tasks[h].phase = "answered" => tasks[h].version <= server[Changed(h)].version
  /\ tasks["form"].phase = "answered" /\ tasks["form"].kind \in {"add", "common"} =>
       Head(tasks["form"].names) \in server["positions"].names

\* A form has been told of a position, and has not begun to load the page again.
ListDue == tasks["form"].phase \in Unfinished /\ tasks["form"].made > 0

\* A change of the lifecycle is done, and the page is yet to be loaded again.
RowDue ==
  \/ controls.stale /\ tasks["again"].phase # "reloading"
  \/ \E h \in LifecycleTasks : tasks[h].phase = "loading"

CachedRowFresh ==
  /\ entries["election"] # Null => FreshRow(entries["election"], electionPast)
  /\ flights["election"].value # Null => FreshRow(flights["election"].value, electionPast)

CachedListFresh ==
  /\ entries["positions"] # Null => FreshList(entries["positions"], electionPast)
  /\ flights["positions"].value # Null => FreshList(flights["positions"].value, electionPast)

\* What the router has of its own, or else the page.
ListKept(router, data, past) ==
  /\ router.phase = "done" => FreshList(router.positions, past)
  /\ router.phase = "positions" /\ router.value # Null => FreshList(router.value, past)
  /\ router = NoLoad /\ data # Null => FreshList(data.positions, past)

RowKept(router, data, past) ==
  /\ router.phase \in {"positions", "done"} => FreshRow(router.election, past)
  /\ router.phase = "election" /\ router.value # Null => FreshRow(router.value, past)
  /\ router = NoLoad /\ data # Null => FreshRow(data.election, past)

PageListFresh == ListKept(loads["router"], electionData, electionPast)

PageRowFresh == RowKept(loads["router"], electionData, electionPast)

PageFresh ==
  /\ CachedRowFresh
  /\ ~ListDue => CachedListFresh /\ PageListFresh
  /\ ~electionPast.together /\ ~RowDue => PageRowFresh

\* A list of its own hides that of the data only while a reorder, or the load after it, goes on.
LocalGoes ==
  localPositions # Null /\ electionData # Null /\ loads["router"] = NoLoad =>
    localPositions = electionPast.putBack \/ tasks["reorder"].phase \in Unfinished

\* What a form of common positions is still to ask for has not been made.
StillToMake ==
  LET task == tasks["form"]
  IN task.kind = "common" /\ task.phase \in Unfinished /\ task.list = Null /\ ~electionPast.behind =>
       /\ \A i, j \in 1..Len(task.names) : task.names[i] = task.names[j] => i = j
       /\ \A i \in 1..Len(task.names) : task.names[i] \notin electionPast.created

\* One change of the lifecycle goes on at a time, and its flags are its own.
OneChange ==
  ~electionPast.together =>
    /\ \A h1, h2 \in LifecycleTasks : h1 # h2 => tasks[h1] = NoTask \/ tasks[h2] = NoTask
    /\ controls.stale => tasks["transition"] = NoTask /\ tasks["extend"] = NoTask
    /\ \A h \in LifecycleTasks : tasks[h].phase \in {"loading", "reloading"} => controls.refreshing

ElectionPageInv ==
  /\ ServerOK /\ CacheOK /\ TasksOK /\ ElectionPastOK /\ ControlsOK /\ ModalOK
  /\ ServerTold /\ PageFresh /\ LocalGoes /\ StillToMake /\ OneChange

-----------------------------------------------------------------------------
(* The cache and the loads. *)

\* The row that a loader goes on with.
RowFor(load, entry) == IF load.election # Null THEN load.election ELSE entry["election"]

\* What a loader has after it has gone on.
WentOn(x, load, entry) ==
  /\ IsLoad(x) /\ x.phase \in {"election", "positions", "done"}
  /\ x.orphan = FALSE /\ x.value = Null /\ x.by = load.by /\ x.election = RowFor(load, entry)
  /\ x.phase = "election" <=> x.election = Null
  /\ x.phase = "positions" => entry["positions"] = Null
  /\ x.phase = "done" => entry["positions"] # Null /\ x.positions = entry["positions"]

LEMMA FurtherShape ==
  ASSUME NEW load, NEW entry
  PROVE  WentOn(Further(load, entry), load, entry)
<1> DEFINE e == RowFor(load, entry)
           at == IF e = Null THEN "election" ELSE IF entry["positions"] = Null THEN "positions" ELSE "done"
           list == IF e = Null THEN Null ELSE entry["positions"]
<1>1. Further(load, entry) = [phase |-> at, by |-> load.by, orphan |-> FALSE, value |-> Null, election |-> e,
                              positions |-> list]
  <2>1. Further(load, entry) = [NoLoad EXCEPT !.by = load.by, !.election = e, !.positions = list, !.phase = at]
    BY DEF Further, RowFor
  <2> HIDE DEF at, list, e
  <2>2. QED
    BY <2>1 DEF NoLoad
<1>2. /\ at \in {"election", "positions", "done"} /\ (at = "election" <=> e = Null)
      /\ at = "positions" => entry["positions"] = Null
      /\ at = "done" => entry["positions"] # Null /\ list = entry["positions"]
  OBVIOUS
<1> HIDE DEF at, list, e
<1>3. QED
  BY <1>1, <1>2 DEF WentOn, IsLoad, LoadFields, Phases, e

LEMMA NoLoadOK == RouterOK(NoLoad) /\ NoLoad.phase = "idle"
BY DEF RouterOK, IsLoad, NoLoad, LoadFields, Phases

\* A load that has gone on and is not complete is one the router may have.
LEMMA FurtherOK ==
  ASSUME NEW load, NEW entry, Further(load, entry).phase # "done"
  PROVE  RouterOK(Further(load, entry)) /\ Further(load, entry) # NoLoad
<1>1. WentOn(Further(load, entry), load, entry)
  BY FurtherShape
<1>2. QED
  BY <1>1, NoLoadOK DEF RouterOK, WentOn

LEMMA FurtherIsLoad ==
  ASSUME NEW load, NEW entry
  PROVE  IsLoad(Further(load, entry)) /\ Further(load, entry) # NoLoad
<1>1. WentOn(Further(load, entry), load, entry)
  BY FurtherShape
<1>2. QED
  BY <1>1, NoLoadOK DEF WentOn

\* When the load is complete the page shows it.
LEMMA AppliedKeeps ==
  ASSUME NEW load, load = [l \in Loaders |-> load[l]], \A l \in Loaders : IsLoad(load[l]),
         load["router"].phase # "done" => RouterOK(load["router"]), Applied(load)
  PROVE  /\ loads' = [l \in Loaders |-> loads'[l]] /\ \A l \in Loaders : IsLoad(loads'[l])
         /\ RouterOK(loads'["router"])
         /\ \A past : ListKept(load["router"], electionData, past) => ListKept(loads'["router"], electionData', past)
         /\ \A past : RowKept(load["router"], electionData, past) => RowKept(loads'["router"], electionData', past)
         /\ \/ localPositions' = Null
            \/ loads' = load /\ UNCHANGED <<electionData, localPositions>>
<1>1. "router" \in Loaders
  BY DEF Loaders
<1>2. CASE load["router"].phase = "done"
  <2>1. /\ loads' = [load EXCEPT !["router"] = NoLoad] /\ localPositions' = Null
        /\ electionData' = IF electionData = Null THEN Null
                           ELSE [election |-> load["router"].election, positions |-> load["router"].positions]
    BY <1>2 DEF Applied
  <2>2. /\ loads' = [l \in Loaders |-> loads'[l]] /\ loads'["router"] = NoLoad
        /\ \A l \in Loaders \ {"router"} : loads'[l] = load[l]
    BY <1>1, <2>1
  <2>3. \A l \in Loaders : IsLoad(loads'[l])
    BY <2>2, NoLoadOK DEF RouterOK
  <2>4. /\ electionData' # Null => /\ electionData'.election = load["router"].election
                                   /\ electionData'.positions = load["router"].positions
    BY <2>1
  <2>5. QED
    BY <1>2, <2>1, <2>2, <2>3, <2>4, NoLoadOK DEF ListKept, RowKept
<1>3. CASE load["router"].phase # "done"
  <2>1. loads' = load /\ UNCHANGED <<electionData, localPositions>>
    BY <1>3 DEF Applied, viewVars
  <2>2. QED
    BY <1>3, <2>1
<1>4. QED
  BY <1>2, <1>3

\* Fetches are only ever sent.
LEMMA FetchingKeeps ==
  ASSUME NEW flight, NEW load, flight = [r \in Resources |-> flight[r]], \A r \in Resources : IsFetch(flight[r])
  PROVE  LET after == Fetching(flight, load)
         IN /\ after = [r \in Resources |-> after[r]]
            /\ \A r \in Resources : IsFetch(after[r]) /\ after[r].value = flight[r].value
<1> DEFINE after == Fetching(flight, load)
<1>1. after = [r \in Resources |-> after[r]]
  BY DEF Fetching
<1>2. ASSUME NEW r \in Resources
      PROVE  IsFetch(after[r]) /\ after[r].value = flight[r].value
  <2>1. after[r] = [flight[r] EXCEPT !.sent = TRUE] \/ after[r] = flight[r]
    BY DEF Fetching
  <2> HIDE DEF after
  <2>2. QED
    BY <2>1 DEF IsFetch
<1>3. QED
  BY <1>1, <1>2

\* The loads after an invalidation.
LEMMA OrphanedKeeps ==
  ASSUME CacheOK, NEW dropped \in SUBSET Resources
  PROVE  /\ Orphaned(dropped) = [l \in Loaders |-> Orphaned(dropped)[l]]
         /\ \A l \in Loaders : IsLoad(Orphaned(dropped)[l])
         /\ RouterOK(Orphaned(dropped)["router"])
         /\ Orphaned(dropped)["router"].phase = loads["router"].phase
         /\ Orphaned(dropped)["router"].value = loads["router"].value
         /\ Orphaned(dropped)["router"].election = loads["router"].election
         /\ Orphaned(dropped)["router"] = NoLoad <=> loads["router"] = NoLoad
<1> DEFINE o == Orphaned(dropped)
<1>1. o = [l \in Loaders |-> o[l]]
  BY DEF Orphaned
<1>2. \A l \in Loaders : o[l] = loads[l] \/ (o[l] = [loads[l] EXCEPT !.orphan = TRUE] /\ loads[l].phase \in dropped)
  BY DEF Orphaned
<1> HIDE DEF o
<1>3. ASSUME NEW l \in Loaders
      PROVE  IsLoad(o[l])
  BY <1>2 DEF CacheOK, IsLoad, LoadFields
<1>4. "router" \in Loaders /\ RouterOK(loads["router"]) /\ IsLoad(loads["router"]) /\ NoLoad.phase = "idle"
  BY NoLoadOK DEF Loaders, CacheOK
<1>5. CASE o["router"] = loads["router"]
  BY <1>1, <1>3, <1>4, <1>5 DEF o
<1>6. CASE o["router"] = [loads["router"] EXCEPT !.orphan = TRUE] /\ loads["router"].phase \in dropped
  <2>1. /\ o["router"].phase = loads["router"].phase /\ o["router"].orphan = TRUE
        /\ o["router"].value = loads["router"].value /\ o["router"].election = loads["router"].election
    BY <1>4, <1>6 DEF IsLoad, LoadFields
  <2>2. loads["router"].phase # "idle"
    BY <1>6 DEF Resources
  <2>3. RouterOK(o["router"])
    BY <1>3, <1>4, <2>1, <2>2 DEF RouterOK
  <2>4. QED
    BY <1>1, <1>3, <1>4, <2>1, <2>2, <2>3 DEF o
<1>7. QED
  BY <1>2, <1>4, <1>5, <1>6

\* The loads with the one that begins after an invalidation.
LoadsWith(dropped, l, by) == [Orphaned(dropped) EXCEPT ![l] = Further([NoLoad EXCEPT !.by = by], Emptied(dropped))]

\* After an invalidation: the router, or refresh(), begins to load, and the page shows what
\* it has shown.
LEMMA LoadBegins ==
  ASSUME CacheOK, NEW dropped \in SUBSET Resources, dropped # {}, NEW l \in Loaders, NEW by,
         entries' = Emptied(dropped), flights' = Fetching(Landed(dropped), LoadsWith(dropped, l, by)),
         Applied(LoadsWith(dropped, l, by)) \/ loads' = LoadsWith(dropped, l, by)
  PROVE  /\ CacheOK' /\ (Applied(LoadsWith(dropped, l, by)) => UNCHANGED <<electionData, localPositions>>)
         /\ \A r \in Resources : /\ entries'[r] = IF r \in dropped THEN Null ELSE entries[r]
                                 /\ flights'[r].value = IF r \in dropped THEN Null ELSE flights[r].value
         /\ l = "router" => /\ loads'["router"].phase \in {"election", "positions"} /\ loads'["router"].value = Null
                            /\ loads'["router"].election = entries'["election"] /\ loads'["router"] # NoLoad
         /\ l # "router" => /\ loads'["router"].phase = loads["router"].phase
                            /\ loads'["router"].value = loads["router"].value
                            /\ loads'["router"].election = loads["router"].election
                            /\ loads'["router"] = NoLoad <=> loads["router"] = NoLoad
<1> DEFINE started == [NoLoad EXCEPT !.by = by]
           new == Further(started, Emptied(dropped))
           o == Orphaned(dropped)
           load == [o EXCEPT ![l] = new]
<1>1. /\ entries' = Emptied(dropped) /\ flights' = Fetching(Landed(dropped), load) /\ (Applied(load) \/ loads' = load)
      /\ load = LoadsWith(dropped, l, by)
  BY DEF LoadsWith
<1>2. started.election = Null
  BY DEF NoLoad
<1>3. /\ o = [k \in Loaders |-> o[k]] /\ \A k \in Loaders : IsLoad(o[k])
      /\ RouterOK(o["router"]) /\ o["router"].phase = loads["router"].phase /\ o["router"].value = loads["router"].value
      /\ o["router"].election = loads["router"].election /\ (o["router"] = NoLoad <=> loads["router"] = NoLoad)
  BY OrphanedKeeps
<1>4. WentOn(new, started, Emptied(dropped))
  BY FurtherShape
<1>5. Emptied(dropped)["election"] = Null \/ Emptied(dropped)["positions"] = Null
  BY DEF Emptied, Resources
<1>6. new.phase # "done" /\ new.election = Emptied(dropped)["election"]
  BY <1>2, <1>4, <1>5 DEF WentOn, RowFor
<1>7. RouterOK(new) /\ new # NoLoad
  BY <1>6, FurtherOK
<1>8. /\ Landed(dropped) = [r \in Resources |-> Landed(dropped)[r]]
      /\ \A r \in Resources : /\ IsFetch(Landed(dropped)[r])
                              /\ Landed(dropped)[r].value = IF r \in dropped THEN Null ELSE flights[r].value
  BY DEF Landed, CacheOK, IsFetch, NoFetch
<1> HIDE DEF o, new, started
<1>9. /\ load = [k \in Loaders |-> load[k]] /\ load[l] = new
      /\ \A k \in Loaders \ {l} : load[k] = o[k]
  BY <1>3
<1> HIDE DEF load
<1>10. "router" \in Loaders /\ IsLoad(new) /\ load["router"] \in {o["router"], new} /\ RouterOK(load["router"])
  BY <1>3, <1>7, <1>9 DEF Loaders, RouterOK
<1>11. load["router"].phase # "done"
  BY <1>10 DEF RouterOK
<1>12. loads' = load /\ (Applied(load) => UNCHANGED <<electionData, localPositions>>)
  BY <1>1, <1>11 DEF Applied, viewVars
<1>13. /\ flights' = [r \in Resources |-> flights'[r]]
       /\ \A r \in Resources : IsFetch(flights'[r]) /\ flights'[r].value = Landed(dropped)[r].value
  BY <1>1, <1>8, FetchingKeeps
<1>14. /\ entries' = [r \in Resources |-> entries'[r]]
       /\ \A r \in Resources : entries'[r] = IF r \in dropped THEN Null ELSE entries[r]
  BY <1>1 DEF Emptied
<1>15. CacheOK'
  <2>1. \A k \in Loaders : IsLoad(loads'[k])
    BY <1>3, <1>9, <1>10, <1>12
  <2>2. RouterOK(loads'["router"]) /\ loads' = [k \in Loaders |-> loads'[k]]
    BY <1>9, <1>10, <1>12
  <2>3. QED
    BY <1>13, <1>14, <2>1, <2>2 DEF CacheOK
<1>16. ASSUME l = "router"
       PROVE  /\ loads'["router"].phase \in {"election", "positions"} /\ loads'["router"].value = Null
              /\ loads'["router"].election = entries'["election"] /\ loads'["router"] # NoLoad
  BY <1>1, <1>4, <1>6, <1>7, <1>9, <1>12, <1>16 DEF WentOn
<1>17. ASSUME l # "router"
       PROVE  loads'["router"] = o["router"]
  BY <1>9, <1>10, <1>12, <1>17
<1>18. QED
  BY <1>1, <1>3, <1>8, <1>12, <1>13, <1>14, <1>15, <1>16, <1>17

LEMMA LoadAfterKeeps ==
  ASSUME CacheOK, NEW dropped \in SUBSET Resources, dropped # {}, NEW l \in Loaders, NEW by, LoadAfter(dropped, l, by)
  PROVE  /\ CacheOK' /\ UNCHANGED <<electionData, localPositions>>
         /\ \A r \in Resources : /\ entries'[r] = IF r \in dropped THEN Null ELSE entries[r]
                                 /\ flights'[r].value = IF r \in dropped THEN Null ELSE flights[r].value
         /\ l = "router" => /\ loads'["router"].phase \in {"election", "positions"} /\ loads'["router"].value = Null
                            /\ loads'["router"].election = entries'["election"] /\ loads'["router"] # NoLoad
         /\ l # "router" => /\ loads'["router"].phase = loads["router"].phase
                            /\ loads'["router"].value = loads["router"].value
                            /\ loads'["router"].election = loads["router"].election
                            /\ loads'["router"] = NoLoad <=> loads["router"] = NoLoad
<1>1. /\ entries' = Emptied(dropped) /\ flights' = Fetching(Landed(dropped), LoadsWith(dropped, l, by))
      /\ Applied(LoadsWith(dropped, l, by))
  BY DEF LoadAfter, LoadsWith
<1>2. QED
  BY <1>1, LoadBegins

-----------------------------------------------------------------------------
(* Fetches and orphaned requests. *)

\* What a step of the loads leaves alone.
LEMMA OthersKept ==
  ASSUME ElectionPageInv, UNCHANGED <<server, modal, tasks, controls, electionPast>>
  PROVE  /\ ServerOK' /\ TasksOK' /\ ElectionPastOK' /\ ControlsOK' /\ ModalOK'
         /\ ServerTold' /\ StillToMake' /\ OneChange'
         /\ ListDue' <=> ListDue
         /\ RowDue' <=> RowDue
<1>1. ServerOK' /\ TasksOK' /\ ElectionPastOK' /\ ControlsOK' /\ ModalOK'
  BY DEF ElectionPageInv, ServerOK, TasksOK, ElectionPastOK, ControlsOK, ModalOK
<1>2. ServerTold' /\ StillToMake'
  BY DEF ElectionPageInv, ServerTold, StillToMake, Changed
<1>3. OneChange' /\ (ListDue' <=> ListDue) /\ (RowDue' <=> RowDue)
  BY DEF ElectionPageInv, OneChange, ListDue, RowDue
<1>4. QED
  BY <1>1, <1>2, <1>3

\* The page and what it has loaded stay fresh when the loads go on and nothing else happens.
LEMMA LoadsGoOn ==
  ASSUME ElectionPageInv, UNCHANGED <<server, modal, tasks, controls, electionPast>>,
         NEW load, load = [l \in Loaders |-> load[l]], \A l \in Loaders : IsLoad(load[l]),
         load["router"].phase # "done" => RouterOK(load["router"]), Applied(load),
         ~ListDue => ListKept(load["router"], electionData, electionPast),
         ~electionPast.together /\ ~RowDue => RowKept(load["router"], electionData, electionPast),
         load["router"] = NoLoad => loads["router"] = NoLoad,
         NEW flight, flight = [r \in Resources |-> flight[r]], \A r \in Resources : IsFetch(flight[r]),
         flights' = Fetching(flight, load),
         entries' = [r \in Resources |-> entries'[r]],
         entries'["election"] # Null => FreshRow(entries'["election"], electionPast),
         flight["election"].value # Null => FreshRow(flight["election"].value, electionPast),
         ~ListDue => /\ entries'["positions"] # Null => FreshList(entries'["positions"], electionPast)
                     /\ flight["positions"].value # Null => FreshList(flight["positions"].value, electionPast)
  PROVE  ElectionPageInv'
<1>1. /\ ServerOK' /\ TasksOK' /\ ElectionPastOK' /\ ControlsOK' /\ ModalOK'
      /\ ServerTold' /\ StillToMake' /\ OneChange' /\ (ListDue' <=> ListDue) /\ (RowDue' <=> RowDue)
  BY OthersKept
<1>2. /\ loads' = [l \in Loaders |-> loads'[l]] /\ \A l \in Loaders : IsLoad(loads'[l])
      /\ RouterOK(loads'["router"])
      /\ \A past : ListKept(load["router"], electionData, past) => ListKept(loads'["router"], electionData', past)
      /\ \A past : RowKept(load["router"], electionData, past) => RowKept(loads'["router"], electionData', past)
      /\ \/ localPositions' = Null
         \/ loads' = load /\ UNCHANGED <<electionData, localPositions>>
  BY AppliedKeeps
<1>3. /\ flights' = [r \in Resources |-> flights'[r]]
      /\ \A r \in Resources : IsFetch(flights'[r]) /\ flights'[r].value = flight[r].value
  BY FetchingKeeps
<1>4. CacheOK'
  BY <1>2, <1>3 DEF CacheOK
<1>5. CachedRowFresh' /\ (~ListDue => CachedListFresh')
  BY <1>3 DEF CachedRowFresh, CachedListFresh, Resources
<1>6. PageFresh'
  <2>1. ~ListDue => PageListFresh'
    BY <1>2 DEF PageListFresh
  <2>2. ~electionPast.together /\ ~RowDue => PageRowFresh'
    BY <1>2 DEF PageRowFresh
  <2>3. QED
    BY <1>1, <1>5, <2>1, <2>2 DEF PageFresh
<1>7. LocalGoes'
  BY <1>2 DEF LocalGoes, ElectionPageInv
<1>8. QED
  BY <1>1, <1>4, <1>6, <1>7 DEF ElectionPageInv

\* A router that goes on with a fresh row, and a fresh list, if there is one, is fresh.
LEMMA FurtherFresh ==
  ASSUME NEW load, NEW entry, NEW data, NEW past
  PROVE  LET x == Further(load, entry)
         IN /\ (entry["positions"] # Null => FreshList(entry["positions"], past)) => ListKept(x, data, past)
            /\ (RowFor(load, entry) # Null => FreshRow(RowFor(load, entry), past)) => RowKept(x, data, past)
<1> DEFINE x == Further(load, entry)
<1>1. WentOn(x, load, entry)
  BY FurtherShape
<1>2. x # NoLoad
  BY <1>1, NoLoadOK DEF WentOn
<1> HIDE DEF x
<1>3. (entry["positions"] # Null => FreshList(entry["positions"], past)) => ListKept(x, data, past)
  BY <1>1, <1>2 DEF WentOn, ListKept
<1>4. (RowFor(load, entry) # Null => FreshRow(RowFor(load, entry), past)) => RowKept(x, data, past)
  BY <1>1, <1>2 DEF WentOn, RowKept
<1>5. QED
  BY <1>3, <1>4 DEF x

\* Those who have waited in vain: the page goes when the router is one of them.
LEMMA FailingKeeps ==
  ASSUME ElectionPageInv, UNCHANGED <<server, modal, tasks, controls, electionPast, entries>>,
         NEW waiting, Failing(waiting),
         flights' = [r \in Resources |-> flights'[r]],
         \A r \in Resources : IsFetch(flights'[r]) /\ flights'[r].value \in {Null, flights[r].value}
  PROVE  ElectionPageInv'
<1> DEFINE failed == [NoLoad EXCEPT !.phase = "failed"]
<1>1. /\ ServerOK' /\ TasksOK' /\ ElectionPastOK' /\ ControlsOK' /\ ModalOK'
      /\ ServerTold' /\ StillToMake' /\ OneChange' /\ (ListDue' <=> ListDue) /\ (RowDue' <=> RowDue)
  BY OthersKept
<1>2. IsLoad(failed)
  BY NoLoadOK DEF IsLoad, NoLoad, LoadFields, Phases
<1> HIDE DEF failed
<1>3. /\ loads' = [l \in Loaders |-> IF l \notin waiting THEN loads[l] ELSE IF l = "router" THEN NoLoad ELSE failed]
      /\ electionData' = IF "router" \in waiting THEN Null ELSE electionData
      /\ UNCHANGED localPositions
  BY DEF Failing, failed
<1>4. "router" \in Loaders /\ CacheOK
  BY DEF Loaders, ElectionPageInv
<1>5. \A l \in Loaders : IsLoad(loads'[l])
  BY <1>2, <1>3, <1>4, NoLoadOK DEF CacheOK, RouterOK
<1>6. loads'["router"] = IF "router" \in waiting THEN NoLoad ELSE loads["router"]
  BY <1>3, <1>4
<1>7. CacheOK'
  <2>1. RouterOK(loads'["router"])
    BY <1>4, <1>6, NoLoadOK DEF CacheOK
  <2>2. QED
    BY <1>3, <1>4, <1>5, <2>1 DEF CacheOK
<1>8. CachedRowFresh' /\ (~ListDue => CachedListFresh')
  BY DEF ElectionPageInv, PageFresh, CachedRowFresh, CachedListFresh, Resources
<1>9. \A past : ListKept(loads["router"], electionData, past) => ListKept(loads'["router"], electionData', past)
  BY <1>3, <1>6, NoLoadOK DEF ListKept
<1>10. \A past : RowKept(loads["router"], electionData, past) => RowKept(loads'["router"], electionData', past)
  BY <1>3, <1>6, NoLoadOK DEF RowKept
<1>11. PageFresh'
  BY <1>1, <1>8, <1>9, <1>10 DEF ElectionPageInv, PageFresh, PageListFresh, PageRowFresh
<1>12. LocalGoes'
  BY <1>3, <1>6 DEF LocalGoes, ElectionPageInv
<1>13. QED
  BY <1>1, <1>7, <1>11, <1>12 DEF ElectionPageInv

LEMMA FetchArrivesKeeps ==
  ASSUME ElectionPageInv, NEW r \in Resources, FetchArrives(r)
  PROVE  ElectionPageInv'
<1> DEFINE waiting == {l \in Loaders : loads[l].phase = r /\ ~loads[l].orphan}
           entry == [entries EXCEPT ![r] = flights[r].value]
           load == [l \in Loaders |-> IF l \in waiting THEN Further(loads[l], entry) ELSE loads[l]]
           flight == [flights EXCEPT ![r] = NoFetch]
<1>1. /\ UNCHANGED <<server, modal, tasks, controls, electionPast>> /\ flights[r].value # Null
      /\ \/ entries' = entry /\ flights' = Fetching(flight, load) /\ Applied(load)
         \/ flights' = flight /\ Failing(waiting) /\ UNCHANGED entries
  BY DEF FetchArrives, formVars
<1>2. "router" \in Loaders /\ CacheOK /\ PageFresh /\ RouterOK(loads["router"])
  BY DEF Loaders, ElectionPageInv, CacheOK
<1>3. /\ flight = [k \in Resources |-> flight[k]]
      /\ \A k \in Resources : IsFetch(flight[k]) /\ flight[k].value = IF k = r THEN Null ELSE flights[k].value
  BY <1>2 DEF CacheOK, IsFetch, NoFetch
<1>4. /\ entry = [k \in Resources |-> entry[k]]
      /\ \A k \in Resources : entry[k] = IF k = r THEN flights[r].value ELSE entries[k]
  BY <1>2 DEF CacheOK
<1> HIDE DEF flight
<1>5. CASE flights' = flight /\ Failing(waiting) /\ UNCHANGED entries
  BY <1>1, <1>3, <1>5, FailingKeeps
<1>6. CASE entries' = entry /\ flights' = Fetching(flight, load) /\ Applied(load)
  <2>1. /\ load = [l \in Loaders |-> load[l]]
        /\ \A l \in Loaders : load[l] = IF l \in waiting THEN Further(loads[l], entry) ELSE loads[l]
    OBVIOUS
  <2> HIDE DEF load, entry
  <2>2. \A l \in Loaders : IsLoad(load[l])
    BY <1>2, <2>1, FurtherIsLoad DEF CacheOK
  <2>3. load["router"].phase # "done" => RouterOK(load["router"])
    BY <1>2, <2>1, FurtherOK
  <2>4. load["router"] = NoLoad => loads["router"] = NoLoad
    BY <1>2, <2>1, FurtherIsLoad
  <2>5. /\ entry["election"] # Null => FreshRow(entry["election"], electionPast)
        /\ ~ListDue => (entry["positions"] # Null => FreshList(entry["positions"], electionPast))
    BY <1>2, <1>4 DEF PageFresh, CachedRowFresh, CachedListFresh, Resources
  <2>6. ~ListDue => ListKept(load["router"], electionData, electionPast)
    BY <1>2, <2>1, <2>5, FurtherFresh DEF PageFresh, PageListFresh
  <2>7. ASSUME ~electionPast.together, ~RowDue
        PROVE  RowKept(load["router"], electionData, electionPast)
    <3>1. RowKept(loads["router"], electionData, electionPast)
      BY <1>2, <2>7 DEF PageFresh, PageRowFresh
    <3>2. CASE "router" \notin waiting
      BY <1>2, <2>1, <3>1, <3>2
    <3>3. CASE "router" \in waiting
      <4>1. loads["router"].phase = r
        BY <3>3
      <4>2. RowFor(loads["router"], entry) # Null => FreshRow(RowFor(loads["router"], entry), electionPast)
        BY <1>2, <2>5, <3>1, <4>1 DEF RowFor, RowKept, RouterOK, Resources
      <4>3. QED
        BY <1>2, <2>1, <3>3, <4>2, FurtherFresh
    <3>4. QED
      BY <3>2, <3>3
  <2>8. flight["election"].value # Null => FreshRow(flight["election"].value, electionPast)
    BY <1>2, <1>3 DEF PageFresh, CachedRowFresh, Resources
  <2>9. ~ListDue => (flight["positions"].value # Null => FreshList(flight["positions"].value, electionPast))
    BY <1>2, <1>3 DEF PageFresh, CachedListFresh, Resources
  <2> HIDE DEF waiting
  <2>10. QED
    BY <1>1, <1>3, <1>4, <1>6, <2>1, <2>2, <2>3, <2>4, <2>5, <2>6, <2>7, <2>8, <2>9, LoadsGoOn
<1>7. QED
  BY <1>1, <1>5, <1>6

\* A request of the page reads what the server has.
LEMMA ServeFetchKeeps ==
  ASSUME ElectionPageInv, NEW r \in Resources, ServeFetch(r)
  PROVE  ElectionPageInv'
<1>1. /\ UNCHANGED <<server, modal, tasks, controls, electionPast, entries, loads, electionData, localPositions>>
      /\ flights' = [flights EXCEPT ![r].value = server[r]]
  BY DEF ServeFetch, formVars, viewVars
<1>2. /\ ServerOK' /\ TasksOK' /\ ElectionPastOK' /\ ControlsOK' /\ ModalOK'
      /\ ServerTold' /\ StillToMake' /\ OneChange' /\ (ListDue' <=> ListDue) /\ (RowDue' <=> RowDue)
  BY <1>1, OthersKept
<1>3. /\ flights' = [k \in Resources |-> flights'[k]]
      /\ \A k \in Resources : /\ IsFetch(flights'[k])
                              /\ flights'[k].value = IF k = r THEN server[r] ELSE flights[k].value
  BY <1>1 DEF ElectionPageInv, CacheOK, IsFetch
<1>4. CacheOK'
  BY <1>1, <1>3 DEF ElectionPageInv, CacheOK
<1>5. CachedRowFresh' /\ (~ListDue => CachedListFresh')
  BY <1>1, <1>3 DEF ElectionPageInv, PageFresh, CachedRowFresh, CachedListFresh, Resources, ServerTold
<1>6. PageFresh'
  BY <1>1, <1>2, <1>5 DEF ElectionPageInv, PageFresh, PageListFresh, PageRowFresh
<1>7. LocalGoes'
  BY <1>1 DEF ElectionPageInv, LocalGoes
<1>8. QED
  BY <1>2, <1>4, <1>6, <1>7 DEF ElectionPageInv

LEMMA ServeOrphanKeeps ==
  ASSUME ElectionPageInv, NEW l \in Loaders, ServeOrphan(l)
  PROVE  ElectionPageInv'
<1> DEFINE answer == server[loads[l].phase]
<1>1. /\ UNCHANGED <<server, modal, tasks, controls, electionPast, entries, flights, electionData, localPositions>>
      /\ loads[l].orphan /\ loads' = [loads EXCEPT ![l].value = answer]
  BY DEF ServeOrphan, formVars, viewVars
<1>2. /\ ServerOK' /\ TasksOK' /\ ElectionPastOK' /\ ControlsOK' /\ ModalOK'
      /\ ServerTold' /\ StillToMake' /\ OneChange' /\ (ListDue' <=> ListDue) /\ (RowDue' <=> RowDue)
  BY <1>1, OthersKept
<1>3. CacheOK /\ PageFresh /\ ServerTold /\ "router" \in Loaders /\ RouterOK(loads["router"])
  BY DEF ElectionPageInv, CacheOK, Loaders
<1>4. l = "router" => answer = server[loads["router"].phase] /\ loads["router"].phase \in {"election", "positions"}
  BY <1>1, <1>3, NoLoadOK DEF RouterOK, IsLoad, Phases, NoLoad
<1> HIDE DEF answer
<1>5. /\ loads' = [k \in Loaders |-> loads'[k]] /\ loads'[l] = [loads[l] EXCEPT !.value = answer]
      /\ \A k \in Loaders \ {l} : loads'[k] = loads[k]
  BY <1>1, <1>3 DEF CacheOK
<1>6. \A k \in Loaders : IsLoad(loads'[k])
  BY <1>3, <1>5 DEF CacheOK, IsLoad, LoadFields
<1>7. CASE l # "router"
  <2>1. loads'["router"] = loads["router"]
    BY <1>3, <1>5, <1>7
  <2>2. CacheOK'
    BY <1>1, <1>3, <1>5, <1>6, <2>1 DEF CacheOK
  <2>3. PageFresh' /\ LocalGoes'
    BY <1>1, <1>2, <2>1 DEF ElectionPageInv, PageFresh, CachedRowFresh, CachedListFresh, PageListFresh, PageRowFresh, LocalGoes
  <2>4. QED
    BY <1>2, <2>2, <2>3 DEF ElectionPageInv
<1>8. CASE l = "router"
  <2>1. /\ loads'["router"].phase = loads["router"].phase /\ loads'["router"].value = answer
        /\ loads'["router"].orphan /\ loads'["router"].election = loads["router"].election
    BY <1>1, <1>3, <1>5, <1>8 DEF RouterOK, IsLoad, LoadFields
  <2>2. loads'["router"] # NoLoad
    BY <1>4, <1>8, <2>1, NoLoadOK
  <2>3. RouterOK(loads'["router"])
    BY <1>3, <1>4, <1>6, <1>8, <2>1 DEF RouterOK
  <2>4. CacheOK'
    BY <1>1, <1>3, <1>5, <1>6, <2>3 DEF CacheOK
  <2>5. PageListFresh'
    BY <1>1, <1>3, <1>4, <1>8, <2>1, <2>2 DEF PageListFresh, ListKept, ServerTold
  <2>6. PageRowFresh => PageRowFresh'
    BY <1>1, <1>3, <1>4, <1>8, <2>1, <2>2, NoLoadOK DEF PageRowFresh, RowKept, ServerTold, RouterOK
  <2>7. PageFresh'
    BY <1>1, <1>2, <1>3, <2>5, <2>6 DEF PageFresh, CachedRowFresh, CachedListFresh
  <2>8. LocalGoes'
    BY <2>2 DEF LocalGoes
  <2>9. QED
    BY <1>2, <2>4, <2>7, <2>8 DEF ElectionPageInv
<1>9. QED
  BY <1>7, <1>8

LEMMA OrphanArrivesKeeps ==
  ASSUME ElectionPageInv, NEW l \in Loaders, OrphanArrives(l)
  PROVE  ElectionPageInv'
<1> DEFINE entry == [entries EXCEPT ![loads[l].phase] = loads[l].value]
           new == Further(loads[l], entry)
           load == [loads EXCEPT ![l] = new]
<1>1. /\ UNCHANGED <<server, modal, tasks, controls, electionPast, entries>> /\ loads[l].orphan /\ loads[l].value # Null
      /\ \/ flights' = Fetching(flights, load) /\ Applied(load)
         \/ Failing({l}) /\ UNCHANGED flights
  BY DEF OrphanArrives, formVars
<1>2. "router" \in Loaders /\ CacheOK /\ PageFresh /\ RouterOK(loads["router"])
  BY DEF Loaders, ElectionPageInv, CacheOK
<1>3. CASE Failing({l}) /\ UNCHANGED flights
  BY <1>1, <1>2, <1>3, FailingKeeps DEF CacheOK
<1>4. CASE flights' = Fetching(flights, load) /\ Applied(load)
  <2>1. IsLoad(new) /\ new # NoLoad /\ (new.phase # "done" => RouterOK(new))
    BY FurtherIsLoad, FurtherOK
  <2>2. ~ListDue => (entries["positions"] # Null => FreshList(entries["positions"], electionPast))
    BY <1>2 DEF PageFresh, CachedListFresh
  <2>3. l = "router" /\ ~ListDue => ListKept(new, electionData, electionPast)
    <3>1. SUFFICES ASSUME l = "router", ~ListDue
                   PROVE  entry["positions"] # Null => FreshList(entry["positions"], electionPast)
      BY FurtherFresh
    <3>2. entry["positions"] = IF loads["router"].phase = "positions" THEN loads["router"].value ELSE entries["positions"]
      BY <1>2, <3>1 DEF CacheOK, Resources
    <3>3. ListKept(loads["router"], electionData, electionPast)
      BY <1>2, <3>1 DEF PageFresh, PageListFresh
    <3>4. QED
      BY <2>2, <3>1, <3>2, <3>3 DEF ListKept
  <2>4. l = "router" /\ ~electionPast.together /\ ~RowDue => RowKept(new, electionData, electionPast)
    <3>1. SUFFICES ASSUME l = "router", ~electionPast.together, ~RowDue
                   PROVE  RowFor(loads[l], entry) # Null => FreshRow(RowFor(loads[l], entry), electionPast)
      BY FurtherFresh
    <3>2. loads["router"].phase \in {"election", "positions"}
      BY <1>1, <1>2, <3>1, NoLoadOK DEF RouterOK, IsLoad, Phases, NoLoad
    <3>3. entry["election"] = IF loads["router"].phase = "election" THEN loads["router"].value ELSE entries["election"]
      BY <1>2, <3>1 DEF CacheOK, Resources
    <3>4. RowKept(loads["router"], electionData, electionPast)
      BY <1>2, <3>1 DEF PageFresh, PageRowFresh
    <3>5. QED
      BY <1>1, <1>2, <3>1, <3>2, <3>3, <3>4 DEF RowKept, RowFor, RouterOK
  <2> HIDE DEF new, entry
  <2>5. /\ load = [k \in Loaders |-> load[k]]
        /\ \A k \in Loaders : load[k] = IF k = l THEN new ELSE loads[k]
    BY <1>2 DEF CacheOK
  <2> HIDE DEF load
  <2>6. \A k \in Loaders : IsLoad(load[k])
    BY <1>2, <2>1, <2>5 DEF CacheOK
  <2>7. load["router"].phase # "done" => RouterOK(load["router"])
    BY <1>2, <2>1, <2>5
  <2>8. load["router"] = NoLoad => loads["router"] = NoLoad
    BY <1>2, <2>1, <2>5
  <2>9. ~ListDue => ListKept(load["router"], electionData, electionPast)
    BY <1>2, <2>3, <2>5 DEF PageFresh, PageListFresh
  <2>10. ~electionPast.together /\ ~RowDue => RowKept(load["router"], electionData, electionPast)
    BY <1>2, <2>4, <2>5 DEF PageFresh, PageRowFresh
  <2>11. /\ entries'["election"] # Null => FreshRow(entries'["election"], electionPast)
         /\ flights["election"].value # Null => FreshRow(flights["election"].value, electionPast)
         /\ ~ListDue => /\ entries'["positions"] # Null => FreshList(entries'["positions"], electionPast)
                        /\ flights["positions"].value # Null => FreshList(flights["positions"].value, electionPast)
    BY <1>1, <1>2 DEF PageFresh, CachedRowFresh, CachedListFresh
  <2>12. entries' = [k \in Resources |-> entries'[k]] /\ flights = [k \in Resources |-> flights[k]] /\ \A k \in Resources : IsFetch(flights[k])
    BY <1>1, <1>2 DEF CacheOK
  <2>13. QED
    BY <1>1, <1>4, <2>5, <2>6, <2>7, <2>8, <2>9, <2>10, <2>11, <2>12, LoadsGoOn
<1>5. QED
  BY <1>1, <1>3, <1>4

-----------------------------------------------------------------------------
(* Steps that leave the cache and the loads alone. *)

LEMMA NoTaskOK ==
  /\ IsTask(NoTask) /\ FormOK(NoTask)
  /\ NoTask.phase = "idle" /\ NoTask.kind = Null /\ NoTask.made = 0 /\ NoTask.version = 0 /\ NoTask.list = Null
BY DEF IsTask, TaskFields, FormOK, NoTask, Unfinished

\* A task that has gone on to a phase.
AtPhase(x, t, p) ==
  /\ IsTask(x) /\ x.phase = p
  /\ x.kind = t.kind /\ x.names = t.names /\ x.made = t.made /\ x.list = t.list /\ x.version = t.version

LEMMA TaskPhase ==
  ASSUME NEW t, IsTask(t), NEW p \in {"sent", "answered", "failed", "reloading", "loading"}
  PROVE  AtPhase([t EXCEPT !.phase = p], t, p)
<1> DEFINE x == [t EXCEPT !.phase = p]
<1>1. t = [f \in TaskFields |-> t[f]] /\ t.version \in Nat
  BY DEF IsTask
<1>2. x = [f \in TaskFields |-> x[f]] /\ x["phase"] = p /\ \A f \in TaskFields \ {"phase"} : x[f] = t[f]
  BY <1>1 DEF TaskFields
<1> HIDE DEF x
<1>3. AtPhase(x, t, p)
  BY <1>1, <1>2 DEF AtPhase, IsTask, TaskFields
<1>4. QED
  BY <1>3 DEF x

\* One task is replaced.
LEMMA TaskSet ==
  ASSUME TasksOK, NEW h \in Tasks, NEW t, tasks' = [tasks EXCEPT ![h] = t], IsTask(t),
         h = "form" => FormOK(t), h = "reorder" => t.kind = Null,
         h \in LifecycleTasks => t.kind \notin {"add", "common", "election"}
  PROVE  TasksOK' /\ tasks'[h] = t /\ \A k \in Tasks \ {h} : tasks'[k] = tasks[k]
<1>1. tasks' = [k \in Tasks |-> tasks'[k]] /\ tasks'[h] = t /\ \A k \in Tasks \ {h} : tasks'[k] = tasks[k]
  BY DEF TasksOK
<1>2. LifecycleTasks \subseteq Tasks /\ "form" \in Tasks /\ "reorder" \in Tasks
      /\ "form" \notin LifecycleTasks /\ "reorder" \notin LifecycleTasks
  BY DEF Tasks, LifecycleTasks
<1>3. \A k \in Tasks : IsTask(tasks'[k])
  BY <1>1 DEF TasksOK
<1>4. FormOK(tasks'["form"]) /\ tasks'["reorder"].kind = Null
  BY <1>1, <1>2 DEF TasksOK
<1>5. \A k \in LifecycleTasks : tasks'[k].kind \notin {"add", "common", "election"}
  BY <1>1, <1>2 DEF TasksOK
<1>6. QED
  BY <1>1, <1>3, <1>4, <1>5 DEF TasksOK

\* What the page has stays fresh when it was told of nothing.
LEMMA SamePage ==
  ASSUME PageFresh, UNCHANGED <<entries, flights, electionData>>, loads'["router"] = loads["router"],
         electionPast'.told = electionPast.told, electionPast'.created = electionPast.created,
         electionPast.together => electionPast'.together,
         ListDue => ListDue', ~electionPast'.together /\ ~RowDue' => ~RowDue
  PROVE  PageFresh'
<1>1. CachedRowFresh' /\ (CachedListFresh => CachedListFresh')
  BY DEF PageFresh, CachedRowFresh, CachedListFresh, FreshRow, FreshList
<1>2. (PageListFresh => PageListFresh') /\ (PageRowFresh => PageRowFresh')
  BY DEF PageListFresh, PageRowFresh, ListKept, RowKept, FreshRow, FreshList
<1>3. QED
  BY <1>1, <1>2 DEF PageFresh

\* The server has done what the page was told when it was told of nothing.
LEMMA SameTold ==
  ASSUME ServerTold, NEW h \in Tasks, \A k \in Tasks \ {h} : tasks'[k] = tasks[k], tasks'[h].phase # "answered",
         UNCHANGED server, electionPast'.told = electionPast.told, electionPast'.created = electionPast.created
  PROVE  ServerTold'
<1>1. FreshList(server["positions"], electionPast)' /\ FreshRow(server["election"], electionPast)'
  BY DEF ServerTold, FreshList, FreshRow
<1>2. \A k \in Tasks : tasks'[k].phase = "answered" => tasks'[k] = tasks[k] /\ Changed(k)' = Changed(k)
  BY DEF Changed
<1>3. "form" \in Tasks
  BY DEF Tasks
<1>4. QED
  BY <1>1, <1>2, <1>3 DEF ServerTold

\* Opening and closing dialogs.
LEMMA DialogsKeep ==
  ASSUME ElectionPageInv, UNCHANGED <<server, cacheVars, viewVars, tasks, controls, electionPast>>, ModalOK'
  PROVE  ElectionPageInv'
<1>1. /\ ServerOK' /\ TasksOK' /\ ElectionPastOK' /\ ControlsOK' /\ CacheOK'
  BY DEF ElectionPageInv, ServerOK, TasksOK, ElectionPastOK, ControlsOK, CacheOK, cacheVars
<1>2. ServerTold' /\ StillToMake' /\ OneChange' /\ (ListDue' <=> ListDue) /\ (RowDue' <=> RowDue)
  BY DEF ElectionPageInv, ServerTold, StillToMake, Changed, OneChange, ListDue, RowDue
<1>3. PageFresh'
  BY <1>2, SamePage DEF ElectionPageInv, cacheVars, viewVars
<1>4. LocalGoes'
  BY DEF ElectionPageInv, LocalGoes, cacheVars, viewVars
<1>5. QED
  BY <1>1, <1>2, <1>3, <1>4 DEF ElectionPageInv

LEMMA OpenModalKeeps ==
  ASSUME ElectionPageInv, NEW kind, OpenModal(kind)
  PROVE  ElectionPageInv'
<1>1. UNCHANGED <<server, cacheVars, viewVars, tasks, controls, electionPast>>
  BY DEF OpenModal
<1>2. PICK to \in IF kind = "transition" THEN NextStatuses(electionData.election.status) ELSE {Null} :
        modal' = [kind |-> kind, to |-> to]
  BY DEF OpenModal
<1>3. \A status : NextStatuses(status) \subseteq {"open", "closed", "archived", "draft"}
  BY DEF NextStatuses
<1>4. to \notin {"add", "common", "election"}
  BY <1>2, <1>3, ElectionPageAssumption
<1>5. ModalOK'
  BY <1>2, <1>4 DEF ModalOK
<1>6. QED
  BY <1>1, <1>5, DialogsKeep

LEMMA NoModalOK == NoModal = [kind |-> NoModal.kind, to |-> NoModal.to] /\ NoModal.to \notin {"add", "common", "election"}
BY ElectionPageAssumption DEF NoModal

LEMMA CloseModalKeeps ==
  ASSUME ElectionPageInv, CloseModal
  PROVE  ElectionPageInv'
BY DialogsKeep, NoModalOK DEF CloseModal, ModalOK

LEMMA SelectingKeeps ==
  ASSUME ElectionPageInv, SelectAllAvailable \/ \E name \in Presets : Deselect(name)
  PROVE  ElectionPageInv'
BY DialogsKeep DEF SelectAllAvailable, Deselect, ModalOK, ElectionPageInv

\* Another administrator, or one's own request that is done: the versions only rise, and
\* positions are only added.
ServerGrows ==
  /\ ServerOK'
  /\ \A r \in Resources : server[r].version <= server'[r].version
  /\ server["positions"].names \subseteq server'["positions"].names

LEMMA OtherAdministratorKeeps ==
  ASSUME ElectionPageInv, OtherAdministrator
  PROVE  ElectionPageInv'
<1>1. /\ UNCHANGED <<modal, tasks, controls, electionPast, entries, flights, loads, electionData, localPositions>>
      /\ \/ \E name : server' = [server EXCEPT !["positions"] = [names |-> @.names \union {name}, version |-> @.version + 1]]
         \/ \E to : server' = [server EXCEPT !["election"] = [status |-> to, version |-> @.version + 1]]
  BY DEF OtherAdministrator, formVars, cacheVars, viewVars
<1>2. ServerGrows
  BY <1>1 DEF ServerGrows, ElectionPageInv, ServerOK, RowFieldsOf, ListFieldsOf, Resources
<1>3. TasksOK' /\ ElectionPastOK' /\ ControlsOK' /\ CacheOK' /\ ModalOK'
  BY <1>1 DEF ElectionPageInv, ServerOK, TasksOK, ElectionPastOK, ControlsOK, CacheOK, ModalOK
<1>4. StillToMake' /\ OneChange' /\ (ListDue' <=> ListDue) /\ (RowDue' <=> RowDue)
  BY <1>1 DEF ElectionPageInv, StillToMake, OneChange, ListDue, RowDue
<1>5. ServerTold'
  <2>1. FreshList(server["positions"], electionPast)' /\ FreshRow(server["election"], electionPast)'
    BY <1>1, <1>2 DEF ServerGrows, ServerTold, FreshList, FreshRow, ElectionPageInv, ElectionPastOK, ServerOK, RowFieldsOf, ListFieldsOf, Resources
  <2>2. \A h \in Tasks : tasks[h].phase = "answered" => tasks[h].version <= server'[Changed(h)].version
    <3>1. \A h \in Tasks : Changed(h) \in Resources /\ tasks[h].version \in Nat
      BY DEF Changed, Resources, ElectionPageInv, TasksOK, IsTask
    <3>2. \A r \in Resources : server[r].version \in Nat /\ server'[r].version \in Nat
      BY <1>2 DEF ServerGrows, ElectionPageInv, ServerOK, RowFieldsOf, ListFieldsOf, Resources
    <3>3. QED
      BY <1>2, <3>1, <3>2 DEF ServerGrows, ServerTold, ElectionPageInv
  <2>3. tasks["form"].phase = "answered" /\ tasks["form"].kind \in {"add", "common"} =>
          Head(tasks["form"].names) \in server'["positions"].names
    BY <1>2 DEF ServerGrows, ServerTold, ElectionPageInv
  <2>4. QED
    BY <1>1, <2>1, <2>2, <2>3 DEF ServerTold, Changed
<1>6. PageFresh'
  BY <1>1, <1>4, SamePage DEF ElectionPageInv
<1>7. LocalGoes'
  BY <1>1 DEF ElectionPageInv, LocalGoes
<1>8. QED
  BY <1>2, <1>3, <1>4, <1>5, <1>6, <1>7 DEF ElectionPageInv, ServerGrows

-----------------------------------------------------------------------------
(* The form: what it asks for. *)

LEMMA PresetsFinite == IsFiniteSet(Presets)
<1> DEFINE S == DOMAIN COMMON_POSITION_PRESETS
<1>1. PICK n \in Nat : S = 1..n
  BY PresetsAssumption
<1>2. IsFiniteSet(S)
  BY <1>1, FS_Interval
<1>3. COMMON_POSITION_PRESETS \in Surjection(S, Presets)
  BY PresetsAssumption DEF Surjection, Presets
<1> HIDE DEF S
<1>4. QED
  BY <1>2, <1>3, FS_Surjection

\* The presets in order are these presets, and none twice.
LEMMA InOrder ==
  ASSUME NEW chosen \in SUBSET Presets, NEW names \in InPresetOrder(chosen)
  PROVE  /\ names \in Seq(Presets) /\ (names # <<>> => Len(names) > 0)
         /\ \A i \in 1..Len(names) : names[i] \in chosen
         /\ \A i, j \in 1..Len(names) : names[i] = names[j] => i = j
<1>1. IsFiniteSet(chosen)
  BY PresetsFinite, FS_Subset
<1>2. PICK n \in Nat : n = Cardinality(chosen)
  BY <1>1, FS_CardinalityType
<1>3. /\ names \in [1..n -> chosen]
      /\ \A i, j \in 1..n : i < j =>
           \E k, l \in DOMAIN COMMON_POSITION_PRESETS :
             k < l /\ names[i] = COMMON_POSITION_PRESETS[k] /\ names[j] = COMMON_POSITION_PRESETS[l]
  BY <1>2 DEF InPresetOrder
<1>4. names \in Seq(Presets) /\ Len(names) = n
  BY <1>3
<1>5. names # <<>> => n > 0
  BY <1>4
<1>6. \A i \in 1..n : names[i] \in chosen
  BY <1>3
<1>7. DOMAIN COMMON_POSITION_PRESETS \subseteq Nat
  BY PresetsAssumption
<1>8. ASSUME NEW i \in 1..n, NEW j \in 1..n, i < j
      PROVE  names[i] # names[j]
  <2>1. PICK k \in DOMAIN COMMON_POSITION_PRESETS, l \in DOMAIN COMMON_POSITION_PRESETS :
          k < l /\ names[i] = COMMON_POSITION_PRESETS[k] /\ names[j] = COMMON_POSITION_PRESETS[l]
    BY <1>3, <1>8
  <2>2. k # l
    BY <1>7, <2>1
  <2>3. QED
    BY <2>1, <2>2, PresetsAssumption
<1>9. ASSUME NEW i \in 1..n, NEW j \in 1..n, names[i] = names[j]
      PROVE  i = j
  BY <1>8, <1>9
<1>10. QED
  BY <1>4, <1>5, <1>6, <1>9

\* A form that is sent asks for something, and the one of common positions for what is not
\* on the page.
LEMMA FormAsks ==
  ASSUME NEW names \in FormNames \ {<<>>}, modal.kind \in {"add", "edit", "election", "common"}
  PROVE  /\ names \in Seq(Presets \union {AddedName, Null}) /\ Len(names) > 0
         /\ modal.kind # "common" => Len(names) = 1
         /\ modal.kind = "common" =>
              /\ \A i \in 1..Len(names) : names[i] \in Available
              /\ \A i, j \in 1..Len(names) : names[i] = names[j] => i = j
<1>1. CASE modal.kind = "common"
  <2>1. names \in InPresetOrder(selectedPositions \intersect Available) /\ names # <<>>
    BY <1>1 DEF FormNames
  <2>2. selectedPositions \intersect Available \in SUBSET Presets
    BY DEF Available
  <2>3. /\ names \in Seq(Presets) /\ Len(names) > 0
        /\ \A i \in 1..Len(names) : names[i] \in selectedPositions \intersect Available
        /\ \A i, j \in 1..Len(names) : names[i] = names[j] => i = j
    BY <2>1, <2>2, InOrder
  <2>4. QED
    BY <1>1, <2>3
<1>2. CASE modal.kind # "common"
  <2>1. names = <<AddedName>> \/ names = <<Null>>
    BY <1>2 DEF FormNames
  <2> DEFINE S == Presets \union {AddedName, Null}
  <2>2. AddedName \in S /\ Null \in S
    OBVIOUS
  <2> HIDE DEF S
  <2>3. names \in Seq(S) /\ Len(names) = 1
    <3>1. \A x \in S : <<x>> \in Seq(S) /\ Len(<<x>>) = 1
      OBVIOUS
    <3>2. QED
      BY <2>1, <2>2, <3>1
  <2>4. QED
    BY <1>2, <2>3 DEF S
<1>3. QED
  BY <1>1, <1>2

LEMMA SubmitFormKeeps ==
  ASSUME ElectionPageInv, SubmitForm
  PROVE  ElectionPageInv'
<1>1. /\ UNCHANGED <<server, entries, flights, loads, electionData, localPositions, modal, controls>>
      /\ electionData # Null /\ modal.kind \in {"add", "edit", "election", "common"} /\ tasks["form"] = NoTask
      /\ electionPast' = [electionPast EXCEPT !.behind = loads["router"] # NoLoad]
  BY DEF SubmitForm, formVars, cacheVars, viewVars
<1>2. PICK names \in FormNames \ {<<>>} :
        tasks' = [tasks EXCEPT !["form"] = [NoTask EXCEPT !.phase = "sent", !.kind = modal.kind, !.names = names, !.list = localPositions]]
  BY DEF SubmitForm
<1> DEFINE t == [NoTask EXCEPT !.phase = "sent", !.kind = modal.kind, !.names = names, !.list = localPositions]
           late == loads["router"] # NoLoad
<1>3. /\ t = [f \in TaskFields |-> t[f]] /\ t.phase = "sent" /\ t.kind = modal.kind /\ t.names = names
      /\ t.made = 0 /\ t.list = localPositions /\ t.version = 0
  BY NoTaskOK DEF IsTask, TaskFields
<1>4. late \in BOOLEAN /\ (~late <=> loads["router"] = NoLoad)
  OBVIOUS
<1> HIDE DEF t, late
<1>5. tasks' = [tasks EXCEPT !["form"] = t] /\ "form" \in Tasks
  BY <1>2 DEF t, Tasks
<1>6. /\ names \in Seq(Presets \union {AddedName, Null}) /\ Len(names) > 0
      /\ modal.kind # "common" => Len(names) = 1
      /\ modal.kind = "common" =>
           /\ \A i \in 1..Len(names) : names[i] \in Available
           /\ \A i, j \in 1..Len(names) : names[i] = names[j] => i = j
  BY <1>1, FormAsks
<1>7. IsTask(t) /\ FormOK(t)
  BY <1>1, <1>3, <1>6 DEF IsTask, FormOK, TaskFields, Unfinished
<1>8. TasksOK' /\ tasks'["form"] = t /\ \A k \in Tasks \ {"form"} : tasks'[k] = tasks[k]
  BY <1>5, <1>7, TaskSet DEF ElectionPageInv, LifecycleTasks
<1>9. /\ ElectionPastOK' /\ electionPast'.told = electionPast.told /\ electionPast'.created = electionPast.created
      /\ electionPast'.together = electionPast.together /\ electionPast'.behind = late /\ electionPast'.putBack = electionPast.putBack
  <2>1. electionPast' = [electionPast EXCEPT !.behind = late]
    BY <1>1 DEF late
  <2>2. QED
    BY <1>4, <2>1 DEF ElectionPageInv, ElectionPastOK
<1>10. ServerOK' /\ ControlsOK' /\ CacheOK' /\ ModalOK'
  BY <1>1 DEF ElectionPageInv, ServerOK, ControlsOK, CacheOK, ModalOK
<1>11. ServerTold'
  BY <1>1, <1>3, <1>5, <1>8, <1>9, SameTold DEF ElectionPageInv
<1>12. ~ListDue /\ ~ListDue' /\ (RowDue' <=> RowDue)
  BY <1>1, <1>3, <1>8, NoTaskOK DEF ListDue, RowDue, Unfinished, LifecycleTasks, Tasks
<1>13. PageFresh'
  BY <1>1, <1>9, <1>12, SamePage DEF ElectionPageInv
<1>14. LocalGoes'
  BY <1>1, <1>8, <1>9 DEF ElectionPageInv, LocalGoes, Tasks
<1>15. OneChange'
  BY <1>1, <1>8, <1>9 DEF ElectionPageInv, OneChange, LifecycleTasks, Tasks
<1>16. StillToMake'
  <2>1. SUFFICES ASSUME modal.kind = "common", localPositions = Null, ~late
                 PROVE  /\ \A i, j \in 1..Len(names) : names[i] = names[j] => i = j
                        /\ \A i \in 1..Len(names) : names[i] \notin electionPast.created
    BY <1>3, <1>8, <1>9 DEF StillToMake
  <2>2. electionPast.created \subseteq electionData.positions.names
    BY <1>1, <1>4, <1>12, <2>1 DEF ElectionPageInv, PageFresh, PageListFresh, ListKept, FreshList
  <2>3. Available = Presets \ electionData.positions.names
    BY <2>1 DEF Available, ShownPositions
  <2>4. QED
    BY <1>6, <2>1, <2>2, <2>3
<1>17. QED
  BY <1>8, <1>9, <1>10, <1>11, <1>13, <1>14, <1>15, <1>16 DEF ElectionPageInv

-----------------------------------------------------------------------------
(* Handlers that load nothing. *)

\* A handler goes on and is told of nothing.
LEMMA HandlerKeeps ==
  ASSUME ElectionPageInv, UNCHANGED <<server, entries, flights, loads, electionData>>,
         NEW h \in Tasks, NEW t, tasks' = [tasks EXCEPT ![h] = t], IsTask(t), t.phase # "answered",
         h = "form" => FormOK(t), h = "reorder" => t.kind = Null,
         h \in LifecycleTasks => t.kind \notin {"add", "common", "election"},
         ModalOK', ControlsOK', ElectionPastOK',
         electionPast'.told = electionPast.told, electionPast'.created = electionPast.created,
         electionPast.together => electionPast'.together,
         ListDue => ListDue', ~electionPast'.together /\ ~RowDue' => ~RowDue,
         LocalGoes', StillToMake', OneChange'
  PROVE  ElectionPageInv'
<1>1. TasksOK' /\ tasks'[h] = t /\ \A k \in Tasks \ {h} : tasks'[k] = tasks[k]
  BY TaskSet DEF ElectionPageInv
<1>2. ServerOK' /\ CacheOK'
  BY DEF ElectionPageInv, ServerOK, CacheOK
<1>3. ServerTold'
  BY <1>1, SameTold DEF ElectionPageInv
<1>4. PageFresh'
  BY SamePage DEF ElectionPageInv
<1>5. QED
  BY <1>1, <1>2, <1>3, <1>4 DEF ElectionPageInv

LEMMA SubmitLifecycleKeeps ==
  ASSUME ElectionPageInv, SubmitLifecycle
  PROVE  ElectionPageInv'
<1> DEFINE h == modal.kind
           t == [NoTask EXCEPT !.phase = "sent", !.kind = modal.to]
           both == electionPast.together \/ \E k \in LifecycleTasks : tasks[k] # NoTask
<1>1. /\ UNCHANGED <<server, entries, flights, loads, electionData, localPositions, modal, controls>>
      /\ h \in {"transition", "extend"} /\ tasks[h] = NoTask /\ ~controls.refreshing /\ ~controls.stale
      /\ tasks' = [tasks EXCEPT ![h] = t]
      /\ electionPast' = [electionPast EXCEPT !.together = both]
  BY DEF SubmitLifecycle, ControlsEnabled, formVars, cacheVars, viewVars
<1>2. both \in BOOLEAN /\ (both <=> electionPast.together \/ \E k \in LifecycleTasks : tasks[k] # NoTask)
  BY DEF ElectionPageInv, ElectionPastOK
<1>3. /\ t = [f \in TaskFields |-> t[f]] /\ t.phase = "sent" /\ t.kind = modal.to /\ t.version = 0
  BY NoTaskOK DEF IsTask, TaskFields
<1> HIDE DEF t, both, h
<1>4. IsTask(t) /\ t.kind \notin {"add", "common", "election"}
  BY <1>3 DEF IsTask, ElectionPageInv, ModalOK
<1>5. h \in Tasks /\ h \in LifecycleTasks /\ h # "form" /\ h # "reorder" /\ h # "again"
  BY <1>1 DEF Tasks, LifecycleTasks
<1>6. /\ ElectionPastOK' /\ electionPast'.told = electionPast.told /\ electionPast'.created = electionPast.created
      /\ electionPast'.together = both /\ electionPast'.behind = electionPast.behind /\ electionPast'.putBack = electionPast.putBack
  BY <1>1, <1>2 DEF ElectionPageInv, ElectionPastOK
<1>7. TasksOK' /\ tasks'[h] = t /\ \A k \in Tasks \ {h} : tasks'[k] = tasks[k]
  BY <1>1, <1>4, <1>5, TaskSet DEF ElectionPageInv
<1>8. (ListDue' <=> ListDue) /\ StillToMake' /\ LocalGoes'
  BY <1>1, <1>5, <1>6, <1>7 DEF ListDue, StillToMake, LocalGoes, ElectionPageInv, Tasks
<1>9. RowDue' <=> RowDue
  BY <1>1, <1>3, <1>5, <1>7, NoTaskOK DEF RowDue, LifecycleTasks, Tasks
<1>10. OneChange'
  <2>1. SUFFICES ASSUME ~both
                 PROVE  /\ \A h1, h2 \in LifecycleTasks : h1 # h2 => tasks'[h1] = NoTask \/ tasks'[h2] = NoTask
                        /\ \A k \in LifecycleTasks : tasks'[k].phase \notin {"loading", "reloading"}
    BY <1>1, <1>6 DEF OneChange
  <2>2. \A k \in LifecycleTasks : tasks[k] = NoTask
    BY <1>2, <2>1
  <2>3. \A k \in LifecycleTasks \ {h} : tasks'[k] = NoTask
    BY <1>7, <2>2 DEF Tasks
  <2>4. QED
    BY <1>3, <1>7, <2>3, NoTaskOK
<1>11. ControlsOK' /\ ModalOK'
  BY <1>1 DEF ElectionPageInv, ControlsOK, ModalOK
<1>12. QED
  BY <1>1, <1>2, <1>3, <1>4, <1>5, <1>6, <1>8, <1>9, <1>10, <1>11, HandlerKeeps

LEMMA MovePositionKeeps ==
  ASSUME ElectionPageInv, MovePosition
  PROVE  ElectionPageInv'
<1> DEFINE t == [NoTask EXCEPT !.phase = "sent", !.list = ShownPositions]
<1>1. /\ UNCHANGED <<server, entries, flights, loads, electionData, modal, controls, electionPast>>
      /\ tasks["reorder"] = NoTask /\ tasks' = [tasks EXCEPT !["reorder"] = t]
  BY DEF MovePosition, formVars, cacheVars
<1>2. t = [f \in TaskFields |-> t[f]] /\ t.phase = "sent" /\ t.kind = Null /\ t.version = 0
  BY NoTaskOK DEF IsTask, TaskFields
<1> HIDE DEF t
<1>3. IsTask(t) /\ "reorder" \in Tasks /\ "reorder" \notin LifecycleTasks
  BY <1>2 DEF IsTask, Tasks, LifecycleTasks
<1>4. TasksOK' /\ tasks'["reorder"] = t /\ \A k \in Tasks \ {"reorder"} : tasks'[k] = tasks[k]
  BY <1>1, <1>2, <1>3, TaskSet DEF ElectionPageInv
<1>5. (ListDue' <=> ListDue) /\ StillToMake' /\ (RowDue' <=> RowDue) /\ OneChange'
  BY <1>1, <1>4 DEF ListDue, StillToMake, RowDue, OneChange, ElectionPageInv, Tasks, LifecycleTasks
<1>6. LocalGoes'
  BY <1>2, <1>4 DEF LocalGoes, Unfinished
<1>7. ControlsOK' /\ ModalOK' /\ ElectionPastOK'
  BY <1>1 DEF ElectionPageInv, ControlsOK, ModalOK, ElectionPastOK
<1>8. QED
  BY <1>1, <1>2, <1>3, <1>5, <1>6, <1>7, HandlerKeeps

\* The handler is done, or gives up.
LEMMA ReorderEnds ==
  ASSUME ElectionPageInv, ReorderFails \/ ReorderFinishes
  PROVE  ElectionPageInv'
<1>1. /\ UNCHANGED <<server, entries, flights, loads, electionData, modal, controls>>
      /\ tasks' = [tasks EXCEPT !["reorder"] = NoTask]
  BY DEF ReorderFails, ReorderFinishes, formVars, cacheVars, viewVars
<1>2. "reorder" \in Tasks /\ "reorder" \notin LifecycleTasks
  BY DEF Tasks, LifecycleTasks
<1>3. TasksOK' /\ tasks'["reorder"] = NoTask /\ \A k \in Tasks \ {"reorder"} : tasks'[k] = tasks[k]
  BY <1>1, <1>2, NoTaskOK, TaskSet DEF ElectionPageInv
<1>4. /\ ElectionPastOK' /\ electionPast'.told = electionPast.told /\ electionPast'.created = electionPast.created
      /\ electionPast'.together = electionPast.together /\ electionPast'.behind = electionPast.behind
  BY DEF ReorderFails, ReorderFinishes, ElectionPageInv, ElectionPastOK
<1>5. (ListDue' <=> ListDue) /\ StillToMake' /\ (RowDue' <=> RowDue) /\ OneChange'
  BY <1>1, <1>3, <1>4 DEF ListDue, StillToMake, RowDue, OneChange, ElectionPageInv, Tasks, LifecycleTasks
<1>6. LocalGoes'
  <2>1. CASE ReorderFails
    BY <2>1 DEF ReorderFails, LocalGoes, ElectionPageInv, ElectionPastOK
  <2>2. CASE ReorderFinishes
    <3>1. tasks["reorder"].phase \notin Unfinished /\ UNCHANGED <<electionPast, localPositions>>
      BY <2>2 DEF ReorderFinishes, Reloaded, Unfinished, viewVars
    <3>2. QED
      BY <1>1, <3>1 DEF LocalGoes, ElectionPageInv
  <2>3. QED
    BY <2>1, <2>2
<1>7. ControlsOK' /\ ModalOK'
  BY <1>1 DEF ElectionPageInv, ControlsOK, ModalOK
<1>8. QED
  BY <1>1, <1>2, <1>4, <1>5, <1>6, <1>7, NoTaskOK, HandlerKeeps

LEMMA FormEnds ==
  ASSUME ElectionPageInv, FormFinishes
  PROVE  ElectionPageInv'
<1>1. /\ UNCHANGED <<server, entries, flights, loads, electionData, localPositions, controls, electionPast>>
      /\ tasks["form"].phase = "reloading" /\ tasks' = [tasks EXCEPT !["form"] = NoTask] /\ modal' \in {modal, NoModal}
  BY DEF FormFinishes, Reloaded, cacheVars, viewVars
<1>2. "form" \in Tasks /\ "form" \notin LifecycleTasks
  BY DEF Tasks, LifecycleTasks
<1>3. TasksOK' /\ tasks'["form"] = NoTask /\ \A k \in Tasks \ {"form"} : tasks'[k] = tasks[k]
  BY <1>1, <1>2, NoTaskOK, TaskSet DEF ElectionPageInv
<1>4. ~ListDue /\ StillToMake'
  BY <1>1, <1>3, NoTaskOK DEF ListDue, StillToMake, Unfinished
<1>5. LocalGoes' /\ OneChange' /\ (RowDue' <=> RowDue)
  BY <1>1, <1>3 DEF LocalGoes, RowDue, OneChange, ElectionPageInv, Tasks, LifecycleTasks
<1>6. ControlsOK' /\ ModalOK' /\ ElectionPastOK'
  BY <1>1, NoModalOK DEF ElectionPageInv, ControlsOK, ModalOK, ElectionPastOK
<1>7. QED
  BY <1>1, <1>2, <1>4, <1>5, <1>6, NoTaskOK, HandlerKeeps

\* A change of the lifecycle that is refused, or a reload after one that is done.
LEMMA LifecycleEnds ==
  ASSUME ElectionPageInv, NEW h \in LifecycleTasks, LifecycleFails(h) \/ RefreshFinishes(h)
  PROVE  ElectionPageInv'
<1>1. /\ UNCHANGED <<server, entries, flights, loads, electionData, localPositions, modal, electionPast>>
      /\ tasks' = [tasks EXCEPT ![h] = NoTask]
      /\ \/ h # "again" /\ tasks[h].phase = "failed" /\ UNCHANGED controls
         \/ tasks[h].phase = "reloading" /\ controls' = [refreshing |-> FALSE, stale |-> FALSE]
  BY DEF LifecycleFails, RefreshFinishes, Reloaded, formVars, cacheVars, viewVars
<1>2. h \in Tasks /\ h # "form" /\ h # "reorder"
  BY DEF Tasks, LifecycleTasks
<1>3. NoTask.kind \notin {"add", "common", "election"}
  BY NoTaskOK, ElectionPageAssumption
<1>4. TasksOK' /\ tasks'[h] = NoTask /\ \A k \in Tasks \ {h} : tasks'[k] = tasks[k]
  BY <1>1, <1>2, <1>3, NoTaskOK, TaskSet DEF ElectionPageInv
<1>5. (ListDue' <=> ListDue) /\ StillToMake' /\ LocalGoes'
  BY <1>1, <1>2, <1>4 DEF ListDue, StillToMake, LocalGoes, ElectionPageInv, Tasks
<1>6. tasks[h] # NoTask /\ tasks[h].phase # "loading"
  BY <1>1, NoTaskOK
<1>7. ControlsOK' /\ ModalOK' /\ ElectionPastOK'
  <2>1. ControlsOK'
    <3>1. CASE UNCHANGED controls
      BY <3>1 DEF ElectionPageInv, ControlsOK
    <3>2. CASE controls' = [refreshing |-> FALSE, stale |-> FALSE]
      BY <3>2 DEF ControlsOK
    <3>3. QED
      BY <1>1, <3>1, <3>2
  <2>2. ModalOK' /\ ElectionPastOK'
    BY <1>1 DEF ElectionPageInv, ModalOK, ElectionPastOK
  <2>3. QED
    BY <2>1, <2>2
<1>8. \A k \in LifecycleTasks \ {h} : k \in Tasks /\ tasks'[k] = tasks[k]
  BY <1>4 DEF Tasks
<1>9. ASSUME ~electionPast.together
      PROVE  /\ \A k \in LifecycleTasks \ {h} : tasks[k] = NoTask
             /\ \A k \in LifecycleTasks : tasks'[k] = NoTask
             /\ controls.stale => h = "again"
  BY <1>4, <1>6, <1>8, <1>9 DEF ElectionPageInv, OneChange, LifecycleTasks
<1>10. ~electionPast'.together /\ ~RowDue' => ~RowDue
  <2>1. SUFFICES ASSUME ~electionPast.together
                 PROVE  ~RowDue
    BY <1>1
  <2>2. \A k \in LifecycleTasks : tasks[k].phase # "loading"
    BY <1>6, <1>9, <2>1, NoTaskOK
  <2>3. controls.stale => tasks["again"].phase = "reloading"
    BY <1>1, <1>9, <2>1
  <2>4. QED
    BY <2>2, <2>3 DEF RowDue
<1>11. OneChange'
  <2>1. SUFFICES ASSUME ~electionPast.together
                 PROVE  \A k \in LifecycleTasks : tasks'[k] = NoTask
    BY <1>1, NoTaskOK DEF OneChange, LifecycleTasks
  <2>2. QED
    BY <1>9, <2>1
<1>12. QED
  BY <1>1, <1>2, <1>3, <1>5, <1>7, <1>10, <1>11, NoTaskOK, HandlerKeeps

LEMMA RefreshFailsKeeps ==
  ASSUME ElectionPageInv, NEW h \in LifecycleTasks, RefreshFails(h)
  PROVE  ElectionPageInv'
<1>1. /\ UNCHANGED <<server, entries, flights, electionData, localPositions, modal, electionPast>>
      /\ tasks' = [tasks EXCEPT ![h] = NoTask] /\ tasks[h].phase = "loading"
      /\ loads' = [loads EXCEPT ![h] = NoLoad] /\ controls' = [refreshing |-> FALSE, stale |-> TRUE]
  BY DEF RefreshFails, formVars, viewVars
<1>2. h \in Tasks /\ h # "form" /\ h # "reorder" /\ h \in Loaders /\ h # "router" /\ "router" \in Loaders
  BY DEF Tasks, LifecycleTasks, Loaders
<1>3. NoTask.kind \notin {"add", "common", "election"}
  BY NoTaskOK, ElectionPageAssumption
<1>4. TasksOK' /\ tasks'[h] = NoTask /\ \A k \in Tasks \ {h} : tasks'[k] = tasks[k]
  BY <1>1, <1>2, <1>3, NoTaskOK, TaskSet DEF ElectionPageInv
<1>5. CacheOK' /\ loads'["router"] = loads["router"]
  BY <1>1, <1>2, NoLoadOK DEF ElectionPageInv, CacheOK, RouterOK
<1>6. (ListDue' <=> ListDue) /\ StillToMake' /\ LocalGoes'
  BY <1>1, <1>2, <1>4, <1>5 DEF ListDue, StillToMake, LocalGoes, ElectionPageInv, Tasks
<1>7. ServerOK' /\ ControlsOK' /\ ModalOK' /\ ElectionPastOK'
  BY <1>1 DEF ElectionPageInv, ServerOK, ControlsOK, ModalOK, ElectionPastOK
<1>8. \A k \in LifecycleTasks \ {h} : k \in Tasks /\ tasks'[k] = tasks[k]
  BY <1>4 DEF Tasks
<1>9. tasks[h] # NoTask
  BY <1>1, NoTaskOK
<1>10. ~electionPast.together => \A k \in LifecycleTasks : tasks'[k] = NoTask
  BY <1>4, <1>8, <1>9 DEF ElectionPageInv, OneChange
<1>11. ~electionPast'.together => RowDue'
  BY <1>1, <1>10, NoTaskOK DEF RowDue, LifecycleTasks
<1>12. OneChange'
  BY <1>1, <1>10, NoTaskOK DEF OneChange, LifecycleTasks
<1>13. PageFresh'
  BY <1>1, <1>5, <1>6, <1>11, SamePage DEF ElectionPageInv
<1>14. ServerTold'
  BY <1>1, <1>2, <1>4, NoTaskOK, SameTold DEF ElectionPageInv
<1>15. QED
  BY <1>4, <1>5, <1>6, <1>7, <1>12, <1>13, <1>14 DEF ElectionPageInv

\* The router loads what refresh() has fetched.
LEMMA RefreshRoutesKeeps ==
  ASSUME ElectionPageInv, NEW h \in LifecycleTasks, RefreshRoutes(h)
  PROVE  ElectionPageInv'
<1> DEFINE started == [NoLoad EXCEPT !.by = h]
           new == Further(started, entries)
           load == [loads EXCEPT ![h] = NoLoad, !["router"] = new]
           t == [tasks[h] EXCEPT !.phase = "reloading"]
<1>1. /\ UNCHANGED <<server, entries, modal, controls, electionPast>> /\ tasks[h].phase = "loading"
      /\ tasks' = [tasks EXCEPT ![h] = t]
      /\ flights' = Fetching(flights, load) /\ Applied(load)
  <2>1. tasks' = [tasks EXCEPT ![h].phase = "reloading"]
    BY DEF RefreshRoutes
  <2>2. QED
    BY <2>1 DEF RefreshRoutes, formVars
<1>2. h \in Tasks /\ h # "form" /\ h # "reorder" /\ h \in Loaders /\ h # "router" /\ "router" \in Loaders
  BY DEF Tasks, LifecycleTasks, Loaders
<1>3. IsTask(tasks[h]) /\ AtPhase(t, tasks[h], "reloading")
  BY <1>2, TaskPhase DEF ElectionPageInv, TasksOK
<1>4. started.election = Null
  BY DEF NoLoad
<1>5. RowFor(started, entries) = entries["election"]
  BY <1>4 DEF RowFor
<1>6. IsLoad(new) /\ new # NoLoad /\ (new.phase # "done" => RouterOK(new))
  BY FurtherIsLoad, FurtherOK
<1>7. RowKept(new, electionData, electionPast)
  BY <1>5, FurtherFresh DEF ElectionPageInv, PageFresh, CachedRowFresh
<1>8. ~ListDue => ListKept(new, electionData, electionPast)
  BY FurtherFresh DEF ElectionPageInv, PageFresh, CachedListFresh
<1> HIDE DEF t, new, started
<1>9. /\ load = [k \in Loaders |-> load[k]] /\ load["router"] = new
      /\ \A k \in Loaders : load[k] \in {new, NoLoad, loads[k]}
  BY <1>2 DEF ElectionPageInv, CacheOK
<1> HIDE DEF load
<1>10. \A k \in Loaders : IsLoad(load[k])
  BY <1>6, <1>9, NoLoadOK DEF ElectionPageInv, CacheOK, RouterOK
<1>11. TasksOK' /\ tasks'[h] = t /\ \A k \in Tasks \ {h} : tasks'[k] = tasks[k]
  BY <1>1, <1>2, <1>3, TaskSet DEF ElectionPageInv, TasksOK, AtPhase
<1>12. /\ loads' = [k \in Loaders |-> loads'[k]] /\ \A k \in Loaders : IsLoad(loads'[k])
       /\ RouterOK(loads'["router"])
       /\ \A past : ListKept(load["router"], electionData, past) => ListKept(loads'["router"], electionData', past)
       /\ \A past : RowKept(load["router"], electionData, past) => RowKept(loads'["router"], electionData', past)
       /\ \/ localPositions' = Null
          \/ loads' = load /\ UNCHANGED <<electionData, localPositions>>
  BY <1>1, <1>6, <1>9, <1>10, AppliedKeeps
<1>13. /\ flights' = [r \in Resources |-> flights'[r]]
       /\ \A r \in Resources : IsFetch(flights'[r]) /\ flights'[r].value = flights[r].value
  BY <1>1, FetchingKeeps DEF ElectionPageInv, CacheOK
<1>14. CacheOK'
  BY <1>1, <1>12, <1>13 DEF ElectionPageInv, CacheOK
<1>15. ServerOK' /\ ControlsOK' /\ ModalOK' /\ ElectionPastOK'
  BY <1>1 DEF ElectionPageInv, ServerOK, ControlsOK, ModalOK, ElectionPastOK
<1>16. (ListDue' <=> ListDue) /\ StillToMake'
  BY <1>1, <1>2, <1>11 DEF ListDue, StillToMake, ElectionPageInv, Tasks
<1>17. OneChange'
  <2>1. \A k \in LifecycleTasks \ {h} : tasks'[k] = tasks[k]
    BY <1>11 DEF Tasks
  <2>2. tasks[h] # NoTask
    BY <1>1, NoTaskOK
  <2>3. QED
    BY <1>1, <1>3, <1>11, <2>1, <2>2 DEF OneChange, ElectionPageInv, AtPhase, LifecycleTasks
<1>18. ServerTold'
  BY <1>1, <1>2, <1>3, <1>11, SameTold DEF ElectionPageInv, AtPhase
<1>19. PageFresh'
  <2>1. CachedRowFresh' /\ (CachedListFresh => CachedListFresh')
    BY <1>1, <1>13 DEF CachedRowFresh, CachedListFresh, Resources, ElectionPageInv, PageFresh
  <2>2. PageRowFresh' /\ (~ListDue => PageListFresh')
    BY <1>1, <1>7, <1>8, <1>9, <1>12 DEF PageRowFresh, PageListFresh
  <2>3. QED
    BY <1>16, <2>1, <2>2 DEF PageFresh, ElectionPageInv
<1>20. LocalGoes'
  BY <1>6, <1>9, <1>12 DEF LocalGoes
<1>21. QED
  BY <1>11, <1>14, <1>15, <1>16, <1>17, <1>18, <1>19, <1>20 DEF ElectionPageInv

-----------------------------------------------------------------------------
(* The server handles a request. *)

LEMMA ServerTaskKeeps ==
  ASSUME ElectionPageInv, NEW h \in Tasks, ServerHandlesTask(h)
  PROVE  ElectionPageInv'
<1> DEFINE r == Changed(h)
           bumped == [server EXCEPT ![r].version = @ + 1]
<1>1. /\ UNCHANGED <<entries, flights, loads, electionData, localPositions, modal, controls, electionPast>>
      /\ tasks[h].phase = "sent"
  BY DEF ServerHandlesTask, formVars, cacheVars, viewVars
<1>2. /\ ServerOK /\ TasksOK /\ ServerTold /\ IsTask(tasks[h]) /\ r \in Resources
      /\ h = "form" => FormOK(tasks[h])
      /\ h = "reorder" => tasks[h].kind = Null
      /\ h \in LifecycleTasks => tasks[h].kind \notin {"add", "common", "election"}
  BY DEF ElectionPageInv, TasksOK, Changed, Resources
<1>3. \A k \in Resources : server[k].version \in Nat
  BY <1>2 DEF ServerOK, RowFieldsOf, ListFieldsOf, Resources
<1>4. ASSUME UNCHANGED server \/ server' = AfterTask(h)
      PROVE  /\ ServerGrows
             /\ server' = AfterTask(h) /\ h = "form" /\ tasks[h].kind \in {"add", "common"} =>
                  Head(tasks[h].names) \in server'["positions"].names
  <2>1. CASE UNCHANGED server /\ server' # AfterTask(h)
    BY <1>2, <1>3, <2>1 DEF ServerGrows, ServerOK
  <2>2. CASE server' = AfterTask(h)
    <3> DEFINE status == tasks[h].kind
               added == {Head(tasks[h].names)}
    <3>1. /\ bumped = [election |-> bumped["election"], positions |-> bumped["positions"]]
          /\ bumped["election"].status = server["election"].status
          /\ RowFieldsOf(bumped["election"]) /\ ListFieldsOf(bumped["positions"])
          /\ bumped["positions"].names = server["positions"].names
          /\ \A k \in Resources : server[k].version <= bumped[k].version
      <4> DEFINE more == server[r].version + 1
      <4>1. bumped = [server EXCEPT ![r] = [server[r] EXCEPT !.version = more]]
        OBVIOUS
      <4>2. more \in Nat /\ server[r].version <= more
        BY <1>2, <1>3
      <4> HIDE DEF bumped, more, r
      <4>3. CASE r = "election"
        <5>1. /\ bumped["election"] = [server["election"] EXCEPT !.version = more] /\ bumped["positions"] = server["positions"]
              /\ bumped = [election |-> bumped["election"], positions |-> bumped["positions"]]
          BY <1>2, <4>1, <4>3 DEF ServerOK
        <5>2. [server["election"] EXCEPT !.version = more] = [status |-> server["election"].status, version |-> more]
          BY <1>2 DEF ServerOK, RowFieldsOf
        <5>3. QED
          BY <1>2, <1>3, <4>2, <4>3, <5>1, <5>2 DEF ServerOK, RowFieldsOf, ListFieldsOf, Resources
      <4>4. CASE r = "positions"
        <5>1. /\ bumped["positions"] = [server["positions"] EXCEPT !.version = more] /\ bumped["election"] = server["election"]
              /\ bumped = [election |-> bumped["election"], positions |-> bumped["positions"]]
          BY <1>2, <4>1, <4>4 DEF ServerOK
        <5>2. [server["positions"] EXCEPT !.version = more] = [names |-> server["positions"].names, version |-> more]
          BY <1>2 DEF ServerOK, ListFieldsOf
        <5>3. QED
          BY <1>2, <1>3, <4>2, <4>4, <5>1, <5>2 DEF ServerOK, RowFieldsOf, ListFieldsOf, Resources
      <4>5. QED
        BY <1>2, <4>3, <4>4 DEF Resources
    <3> HIDE DEF status, added
    <3>2. \/ server' = [bumped EXCEPT !["election"].status = status] /\ h = "transition"
          \/ server' = [bumped EXCEPT !["positions"].names = @ \union added]
          \/ server' = bumped /\ tasks[h].kind \notin {"add", "common"}
      BY <2>2 DEF AfterTask, status, added
    <3> HIDE DEF bumped
    <3>3. ServerGrows
      BY <3>1, <3>2 DEF ServerGrows, ServerOK, RowFieldsOf, ListFieldsOf, Resources
    <3>4. ASSUME h = "form", tasks[h].kind \in {"add", "common"}
          PROVE  Head(tasks[h].names) \in server'["positions"].names
      <4>1. server' = [bumped EXCEPT !["positions"].names = @ \union added]
        BY <2>2, <3>4 DEF AfterTask, bumped, added
      <4>2. QED
        BY <3>1, <4>1 DEF added, ListFieldsOf
    <3>5. QED
      BY <3>3, <3>4
  <2>3. QED
    BY <1>4, <2>1, <2>2
<1> HIDE DEF bumped
<1>5. PICK t : /\ tasks' = [tasks EXCEPT ![h] = t]
               /\ \/ AtPhase(t, tasks[h], "failed") /\ (UNCHANGED server \/ server' = AfterTask(h))
                  \/ /\ server' = AfterTask(h)
                     /\ IsTask(t) /\ t.phase = "answered" /\ t.version = server'[r].version
                     /\ t.kind = tasks[h].kind /\ t.names = tasks[h].names /\ t.made = tasks[h].made
                     /\ h # "reorder" => t.list = tasks[h].list
  <2> DEFINE f == [tasks[h] EXCEPT !.phase = "failed"]
             list == IF h = "reorder" THEN server'["positions"] ELSE tasks[h].list
             a == [tasks[h] EXCEPT !.phase = "answered", !.version = server'[r].version, !.list = list]
  <2>1. CASE tasks' = [tasks EXCEPT ![h].phase = "failed"] /\ (UNCHANGED server \/ server' = AfterTask(h))
    <3>1. tasks' = [tasks EXCEPT ![h] = f] /\ AtPhase(f, tasks[h], "failed")
      BY <1>2, <2>1, TaskPhase
    <3> HIDE DEF f
    <3>2. QED
      BY <2>1, <3>1
  <2>2. CASE tasks' = [tasks EXCEPT ![h] = [@ EXCEPT !.phase = "answered", !.version = server'[r].version, !.list = list]]
             /\ server' = AfterTask(h)
    <3>1. tasks' = [tasks EXCEPT ![h] = a]
      BY <2>2
    <3>2. (h # "reorder" => list = tasks[h].list) /\ server'[r].version \in Nat
      BY <1>2, <1>4, <2>2 DEF ServerGrows, ServerOK, RowFieldsOf, ListFieldsOf, Resources
    <3> HIDE DEF list
    <3>3. /\ a = [f1 \in TaskFields |-> a[f1]] /\ a.phase = "answered" /\ a.version = server'[r].version
          /\ a.kind = tasks[h].kind /\ a.names = tasks[h].names /\ a.made = tasks[h].made /\ a.list = list
      BY <1>2 DEF IsTask, TaskFields
    <3> HIDE DEF a
    <3>4. IsTask(a)
      BY <3>2, <3>3 DEF IsTask
    <3>5. QED
      BY <2>2, <3>1, <3>2, <3>3, <3>4
  <2>3. QED
    BY <2>1, <2>2 DEF ServerHandlesTask
<1>6. ServerGrows
  BY <1>4, <1>5
<1>7. /\ IsTask(t) /\ t.phase \in {"failed", "answered"} /\ t.kind = tasks[h].kind /\ t.names = tasks[h].names
      /\ t.made = tasks[h].made /\ (h # "reorder" => t.list = tasks[h].list)
  BY <1>5 DEF AtPhase
<1>8. h = "form" => FormOK(t)
  BY <1>1, <1>2, <1>7 DEF FormOK, Unfinished
<1>9. TasksOK' /\ tasks'[h] = t /\ \A k \in Tasks \ {h} : tasks'[k] = tasks[k]
  BY <1>2, <1>5, <1>7, <1>8, TaskSet
<1>10. \A k \in Tasks : Changed(k)' = Changed(k) /\ Changed(k) \in Resources
  BY <1>7, <1>9 DEF Changed, Resources
<1>11. ServerTold'
  <2>1. FreshList(server["positions"], electionPast)' /\ FreshRow(server["election"], electionPast)'
    BY <1>1, <1>2, <1>3, <1>6 DEF ServerGrows, ServerTold, FreshList, FreshRow, ElectionPageInv, ElectionPastOK, ServerOK, RowFieldsOf, ListFieldsOf, Resources
  <2>2. ASSUME NEW k \in Tasks, tasks'[k].phase = "answered"
        PROVE  tasks'[k].version <= server'[Changed(k)].version
    <3>1. server[Changed(k)].version \in Nat /\ server'[Changed(k)].version \in Nat
          /\ server[Changed(k)].version <= server'[Changed(k)].version
      BY <1>3, <1>6, <1>10 DEF ServerGrows, ServerOK, RowFieldsOf, ListFieldsOf, Resources
    <3>2. CASE k = h
      BY <1>5, <1>9, <2>2, <3>1, <3>2 DEF AtPhase
    <3>3. CASE k # h
      <4>1. tasks'[k] = tasks[k] /\ tasks[k].version \in Nat
        BY <1>2, <1>9, <3>3 DEF TasksOK, IsTask
      <4>2. QED
        BY <1>2, <2>2, <3>1, <4>1 DEF ServerTold
    <3>4. QED
      BY <3>2, <3>3
  <2>3. ASSUME tasks'["form"].phase = "answered", tasks'["form"].kind \in {"add", "common"}
        PROVE  Head(tasks'["form"].names) \in server'["positions"].names
    <3>1. CASE h = "form"
      BY <1>4, <1>5, <1>7, <1>9, <2>3, <3>1 DEF AtPhase
    <3>2. CASE h # "form"
      BY <1>2, <1>6, <1>9, <2>3, <3>2 DEF ServerTold, ServerGrows, Tasks
    <3>3. QED
      BY <3>1, <3>2
  <2>4. QED
    BY <1>10, <2>1, <2>2, <2>3 DEF ServerTold
<1>12. ListDue' <=> ListDue
  BY <1>1, <1>7, <1>9 DEF ListDue, Unfinished, Tasks
<1>13. RowDue' <=> RowDue
  BY <1>1, <1>7, <1>9 DEF RowDue, LifecycleTasks, Tasks
<1>14. StillToMake'
  <2>1. "form" \in Tasks
    BY DEF Tasks
  <2>2. /\ tasks'["form"].kind = tasks["form"].kind /\ tasks'["form"].names = tasks["form"].names
        /\ tasks'["form"].list = tasks["form"].list
        /\ tasks'["form"].phase \in Unfinished => tasks["form"].phase \in Unfinished
    BY <1>1, <1>7, <1>9, <2>1 DEF Unfinished
  <2>3. QED
    BY <1>1, <2>2 DEF StillToMake, ElectionPageInv
<1>15. LocalGoes'
  BY <1>1, <1>7, <1>9 DEF LocalGoes, ElectionPageInv, Unfinished, Tasks
<1>16. OneChange'
  <2>1. \A k \in LifecycleTasks \ {h} : tasks'[k] = tasks[k]
    BY <1>9 DEF Tasks
  <2>2. tasks[h] # NoTask
    BY <1>1, NoTaskOK
  <2>3. QED
    BY <1>1, <1>7, <1>9, <2>1, <2>2 DEF OneChange, ElectionPageInv, LifecycleTasks
<1>17. PageFresh'
  BY <1>1, <1>12, <1>13, SamePage DEF ElectionPageInv
<1>18. CacheOK' /\ ControlsOK' /\ ModalOK' /\ ElectionPastOK'
  BY <1>1 DEF ElectionPageInv, CacheOK, ControlsOK, ModalOK, ElectionPastOK
<1>19. QED
  BY <1>6, <1>9, <1>11, <1>14, <1>15, <1>16, <1>17, <1>18 DEF ElectionPageInv, ServerGrows

-----------------------------------------------------------------------------
(* Handlers that load the page again. *)

\* What the page is told the server has done.
LEMMA ToldKeeps ==
  ASSUME ElectionPageInv, NEW h \in Tasks, tasks[h].phase = "answered", Told(h)
  PROVE  /\ ElectionPastOK'
         /\ electionPast'.putBack = electionPast.putBack /\ electionPast'.behind = electionPast.behind
         /\ electionPast'.together = electionPast.together
         /\ tasks[h].kind \in {"add", "common"} => /\ h = "form" /\ Head(tasks[h].names) \in server["positions"].names
                                                   /\ electionPast'.created = electionPast.created \union {Head(tasks[h].names)}
         /\ tasks[h].kind \notin {"add", "common"} => electionPast'.created = electionPast.created
         /\ \A q \in Resources : q # Changed(h) => electionPast'.told[q] = electionPast.told[q]
         /\ tasks[h].kind = "election" => electionPast'.told = electionPast.told
         /\ FreshList(server["positions"], electionPast') /\ FreshRow(server["election"], electionPast')
<1> DEFINE r == Changed(h)
           names == IF tasks[h].kind \in {"add", "common"} THEN {Head(tasks[h].names)} ELSE {}
           known == IF electionPast.told[r] < tasks[h].version /\ tasks[h].kind # "election"
                    THEN tasks[h].version ELSE electionPast.told[r]
           told == [electionPast.told EXCEPT ![r] = known]
<1>1. electionPast' = [electionPast EXCEPT !.told = told, !.created = electionPast.created \union names]
  BY DEF Told
<1>2. /\ r \in Resources /\ tasks[h].version \in Nat /\ electionPast.told \in [Resources -> Nat]
      /\ h # "form" => tasks[h].kind \notin {"add", "common", "election"}
  <2>1. r \in Resources /\ tasks[h].version \in Nat /\ electionPast.told \in [Resources -> Nat]
    BY DEF Changed, Resources, ElectionPageInv, TasksOK, IsTask, ElectionPastOK
  <2>2. h # "form" => h = "reorder" \/ h \in LifecycleTasks
    BY DEF Tasks
  <2>3. QED
    BY <2>1, <2>2, ElectionPageAssumption DEF ElectionPageInv, TasksOK
<1>3. /\ known \in Nat /\ known \in {electionPast.told[r], tasks[h].version}
      /\ tasks[h].kind = "election" => known = electionPast.told[r]
  BY <1>2
<1> HIDE DEF known
<1>4. /\ told \in [Resources -> Nat] /\ told[r] = known
      /\ \A q \in Resources : q # r => told[q] = electionPast.told[q]
      /\ tasks[h].kind = "election" => told = electionPast.told
  BY <1>2, <1>3
<1>5. /\ tasks[h].kind \in {"add", "common"} => names = {Head(tasks[h].names)}
      /\ tasks[h].kind \notin {"add", "common"} => names = {}
  OBVIOUS
<1>6. tasks[h].kind \in {"add", "common"} => h = "form" /\ Head(tasks[h].names) \in server["positions"].names
  BY <1>2 DEF ElectionPageInv, ServerTold
<1> HIDE DEF told, names
<1>7. /\ electionPast'.told = told /\ electionPast'.created = electionPast.created \union names
      /\ electionPast'.putBack = electionPast.putBack /\ electionPast'.behind = electionPast.behind
      /\ electionPast'.together = electionPast.together
      /\ electionPast' = [f \in {"told", "created", "together", "putBack", "behind"} |-> electionPast'[f]]
  BY <1>1 DEF ElectionPageInv, ElectionPastOK
<1>8. ElectionPastOK'
  BY <1>4, <1>7 DEF ElectionPageInv, ElectionPastOK
<1>9. known <= server[r].version
  BY <1>2, <1>3 DEF ElectionPageInv, ServerTold, FreshList, FreshRow, Resources
<1>10. FreshList(server["positions"], electionPast') /\ FreshRow(server["election"], electionPast')
  <2>1. names \subseteq server["positions"].names
    BY <1>5, <1>6
  <2>2. /\ server["positions"].version >= electionPast'.told["positions"]
        /\ server["election"].version >= electionPast'.told["election"]
    <3>1. /\ server["positions"].version >= electionPast.told["positions"] /\ server["positions"].version \in Nat
          /\ server["election"].version >= electionPast.told["election"] /\ server["election"].version \in Nat
      BY DEF ElectionPageInv, ServerTold, FreshList, FreshRow, ServerOK, RowFieldsOf, ListFieldsOf
    <3>2. "positions" \in Resources /\ "election" \in Resources
      BY DEF Resources
    <3>3. QED
      BY <1>3, <1>4, <1>7, <1>9, <3>1, <3>2
  <2>3. electionPast.created \subseteq server["positions"].names
    BY DEF ElectionPageInv, ServerTold, FreshList
  <2>4. QED
    BY <1>7, <2>1, <2>2, <2>3 DEF FreshList, FreshRow
<1>11. QED
  BY <1>4, <1>5, <1>6, <1>7, <1>8, <1>10 DEF r

\* When the router loads again, what it starts from is fresh.
LEMMA RouterLoadFresh ==
  ASSUME PageFresh, NEW dropped \in SUBSET Resources,
         \A r \in Resources : /\ entries'[r] = IF r \in dropped THEN Null ELSE entries[r]
                              /\ flights'[r].value = IF r \in dropped THEN Null ELSE flights[r].value,
         loads'["router"].phase \in {"election", "positions"}, loads'["router"].value = Null,
         loads'["router"].election = entries'["election"], loads'["router"] # NoLoad,
         loads'["router"].phase = "positions" => loads'["router"].election # Null,
         "election" \notin dropped => electionPast'.told["election"] = electionPast.told["election"],
         "positions" \notin dropped => /\ electionPast'.told["positions"] = electionPast.told["positions"]
                                       /\ electionPast'.created = electionPast.created
                                       /\ ~ListDue
  PROVE  PageFresh'
<1>1. "election" \in Resources /\ "positions" \in Resources
  BY DEF Resources
<1>2. CachedRowFresh'
  BY <1>1 DEF PageFresh, CachedRowFresh, FreshRow
<1>3. CachedListFresh'
  BY <1>1 DEF PageFresh, CachedListFresh, FreshList
<1>4. PageListFresh'
  BY DEF PageListFresh, ListKept
<1>5. PageRowFresh'
  BY <1>2 DEF PageRowFresh, RowKept, CachedRowFresh
<1>6. QED
  BY <1>2, <1>3, <1>4, <1>5 DEF PageFresh

\* When refresh() loads again, the list of the page and of the router stays.
LEMMA RefreshLoadFresh ==
  ASSUME PageFresh, CacheOK,
         \A r \in Resources : entries'[r] = Null /\ flights'[r].value = Null,
         UNCHANGED electionData,
         loads'["router"].phase = loads["router"].phase, loads'["router"].value = loads["router"].value,
         loads'["router"] = NoLoad <=> loads["router"] = NoLoad,
         electionPast'.told["positions"] = electionPast.told["positions"], electionPast'.created = electionPast.created,
         ListDue => ListDue', RowDue'
  PROVE  PageFresh'
<1>1. CachedRowFresh' /\ CachedListFresh'
  BY DEF CachedRowFresh, CachedListFresh, Resources
<1>2. loads["router"].phase # "done"
  BY DEF CacheOK, RouterOK
<1>3. PageListFresh => PageListFresh'
  BY <1>2 DEF PageListFresh, ListKept, FreshList
<1>4. QED
  BY <1>1, <1>3 DEF PageFresh

LEMMA AnsweredTold ==
  ASSUME ElectionPageInv, NEW h \in Tasks, tasks[h].phase = "answered", Told(h), UNCHANGED server,
         \A k \in Tasks \ {h} : tasks'[k] = tasks[k], tasks'[h].phase # "answered"
  PROVE  ServerTold'
<1>1. FreshList(server["positions"], electionPast') /\ FreshRow(server["election"], electionPast')
  BY ToldKeeps
<1>2. \A k \in Tasks : tasks'[k].phase = "answered" => tasks'[k] = tasks[k] /\ Changed(k)' = Changed(k)
  BY DEF Changed
<1>3. "form" \in Tasks
  BY DEF Tasks
<1>4. QED
  BY <1>1, <1>2, <1>3 DEF ServerTold, ElectionPageInv

LEMMA ReorderAnsweredKeeps ==
  ASSUME ElectionPageInv, ReorderAnswered
  PROVE  ElectionPageInv'
<1> DEFINE dropped == {"positions"}
           t == [tasks["reorder"] EXCEPT !.phase = "reloading"]
<1>1. /\ UNCHANGED <<server, electionData, modal, controls>> /\ tasks["reorder"].phase = "answered" /\ Told("reorder")
      /\ tasks' = [tasks EXCEPT !["reorder"] = t]
      /\ entries' = Emptied(dropped) /\ flights' = Fetching(Landed(dropped), LoadsWith(dropped, "router", "reorder"))
      /\ loads' = LoadsWith(dropped, "router", "reorder")
  BY DEF ReorderAnswered, LoadsWith, formVars
<1>2. /\ "reorder" \in Tasks /\ "reorder" \notin LifecycleTasks /\ "reorder" # "form" /\ "router" \in Loaders
      /\ dropped \in SUBSET Resources /\ dropped # {} /\ "election" \notin dropped /\ "positions" \in dropped
      /\ CacheOK /\ PageFresh /\ IsTask(tasks["reorder"]) /\ tasks["reorder"].kind = Null
  BY DEF Tasks, LifecycleTasks, Loaders, Resources, ElectionPageInv, TasksOK
<1>3. Changed("reorder") = "positions" /\ Null \notin {"add", "common", "election"}
  BY <1>2, ElectionPageAssumption DEF Changed
<1>4. AtPhase(t, tasks["reorder"], "reloading")
  BY <1>2, TaskPhase
<1> HIDE DEF t, dropped
<1>5. TasksOK' /\ tasks'["reorder"] = t /\ \A k \in Tasks \ {"reorder"} : tasks'[k] = tasks[k]
  BY <1>1, <1>2, <1>4, TaskSet DEF ElectionPageInv, AtPhase
<1>6. /\ CacheOK'
      /\ \A r \in Resources : /\ entries'[r] = IF r \in dropped THEN Null ELSE entries[r]
                              /\ flights'[r].value = IF r \in dropped THEN Null ELSE flights[r].value
      /\ loads'["router"].phase \in {"election", "positions"} /\ loads'["router"].value = Null
      /\ loads'["router"].election = entries'["election"] /\ loads'["router"] # NoLoad
  BY <1>1, <1>2, LoadBegins
<1>7. /\ ElectionPastOK' /\ electionPast'.told["election"] = electionPast.told["election"]
      /\ electionPast'.together = electionPast.together /\ electionPast'.behind = electionPast.behind
      /\ electionPast'.created = electionPast.created
  BY <1>1, <1>2, <1>3, ToldKeeps DEF Resources
<1>8. ServerTold'
  BY <1>1, <1>2, <1>4, <1>5, AnsweredTold DEF AtPhase
<1>9. PageFresh'
  <2>1. loads'["router"].phase = "positions" => loads'["router"].election # Null
    BY <1>6 DEF CacheOK, RouterOK
  <2>2. QED
    BY <1>2, <1>6, <1>7, <2>1, RouterLoadFresh
<1>10. StillToMake' /\ OneChange'
  BY <1>1, <1>2, <1>5, <1>7 DEF StillToMake, OneChange, ElectionPageInv, Tasks, LifecycleTasks
<1>11. LocalGoes'
  BY <1>6 DEF LocalGoes
<1>12. ServerOK' /\ ControlsOK' /\ ModalOK'
  BY <1>1 DEF ElectionPageInv, ServerOK, ControlsOK, ModalOK
<1>13. QED
  BY <1>5, <1>6, <1>7, <1>8, <1>9, <1>10, <1>11, <1>12 DEF ElectionPageInv

\* The form has made the last of what it was to make, or has failed after making some.
LEMMA FormReloads ==
  ASSUME ElectionPageInv, UNCHANGED <<server, controls>>, modal' \in {modal, NoModal},
         NEW t, tasks' = [tasks EXCEPT !["form"] = t], IsTask(t), FormOK(t), t.phase \in {"idle", "reloading"},
         NEW dropped \in SUBSET Resources, dropped # {}, LoadAfter(dropped, "router", "form"),
         ElectionPastOK', ServerTold', electionPast'.putBack = electionPast.putBack,
         electionPast'.together = electionPast.together,
         "election" \notin dropped => electionPast'.told["election"] = electionPast.told["election"],
         "positions" \notin dropped => /\ electionPast'.told["positions"] = electionPast.told["positions"]
                                       /\ electionPast'.created = electionPast.created
                                       /\ ~ListDue
  PROVE  ElectionPageInv'
<1>1. "form" \in Tasks /\ "form" \notin LifecycleTasks /\ "router" \in Loaders
  BY DEF Tasks, LifecycleTasks, Loaders
<1>2. TasksOK' /\ tasks'["form"] = t /\ \A k \in Tasks \ {"form"} : tasks'[k] = tasks[k]
  BY <1>1, TaskSet DEF ElectionPageInv
<1>3. /\ CacheOK'
      /\ \A r \in Resources : /\ entries'[r] = IF r \in dropped THEN Null ELSE entries[r]
                              /\ flights'[r].value = IF r \in dropped THEN Null ELSE flights[r].value
      /\ loads'["router"].phase \in {"election", "positions"} /\ loads'["router"].value = Null
      /\ loads'["router"].election = entries'["election"] /\ loads'["router"] # NoLoad
  BY <1>1, LoadAfterKeeps DEF ElectionPageInv
<1>4. PageFresh'
  <2>1. loads'["router"].phase = "positions" => loads'["router"].election # Null
    BY <1>3 DEF CacheOK, RouterOK
  <2>2. QED
    BY <1>3, <2>1, RouterLoadFresh DEF ElectionPageInv
<1>5. StillToMake'
  BY <1>2 DEF StillToMake, Unfinished
<1>6. OneChange'
  BY <1>1, <1>2 DEF OneChange, ElectionPageInv, Tasks, LifecycleTasks
<1>7. LocalGoes'
  BY <1>3 DEF LocalGoes
<1>8. ServerOK' /\ ControlsOK' /\ ModalOK'
  BY NoModalOK DEF ElectionPageInv, ServerOK, ControlsOK, ModalOK
<1>9. QED
  BY <1>2, <1>3, <1>4, <1>5, <1>6, <1>7, <1>8 DEF ElectionPageInv

LEMMA FormFailsKeeps ==
  ASSUME ElectionPageInv, FormFails
  PROVE  ElectionPageInv'
<1>1. /\ UNCHANGED <<server, modal, controls, electionPast>> /\ tasks["form"].phase = "failed"
  BY DEF FormFails, formVars
<1>2. "form" \in Tasks /\ "form" \notin LifecycleTasks /\ IsTask(tasks["form"]) /\ FormOK(tasks["form"])
  BY DEF Tasks, LifecycleTasks, ElectionPageInv, TasksOK
<1>3. CASE tasks["form"].made > 0
  <2> DEFINE t == [tasks["form"] EXCEPT !.phase = "reloading"]
  <2>1. tasks' = [tasks EXCEPT !["form"] = t] /\ LoadAfter(Resources, "router", "form")
    BY <1>3 DEF FormFails
  <2>2. AtPhase(t, tasks["form"], "reloading")
    BY <1>2, TaskPhase
  <2> HIDE DEF t
  <2>3. FormOK(t)
    BY <1>2, <2>2 DEF AtPhase, FormOK, Unfinished
  <2>4. TasksOK' /\ tasks'["form"] = t /\ \A k \in Tasks \ {"form"} : tasks'[k] = tasks[k]
    BY <1>2, <2>1, <2>2, <2>3, TaskSet DEF ElectionPageInv, AtPhase
  <2>5. ElectionPastOK' /\ ServerTold'
    BY <1>1, <1>2, <2>2, <2>4, SameTold DEF ElectionPageInv, ElectionPastOK, AtPhase
  <2>6. Resources # {} /\ "election" \in Resources /\ "positions" \in Resources
    BY DEF Resources
  <2>7. QED
    BY <1>1, <2>1, <2>2, <2>3, <2>5, <2>6, FormReloads DEF AtPhase
<1>4. CASE ~(tasks["form"].made > 0)
  <2>1. tasks' = [tasks EXCEPT !["form"] = NoTask] /\ UNCHANGED <<entries, flights, loads, electionData, localPositions>>
    BY <1>4 DEF FormFails, cacheVars, viewVars
  <2>2. TasksOK' /\ tasks'["form"] = NoTask /\ \A k \in Tasks \ {"form"} : tasks'[k] = tasks[k]
    BY <1>2, <2>1, NoTaskOK, TaskSet DEF ElectionPageInv
  <2>3. ~ListDue /\ StillToMake'
    BY <1>4, <2>2, NoTaskOK DEF ListDue, StillToMake, Unfinished
  <2>4. LocalGoes' /\ OneChange' /\ (RowDue' <=> RowDue)
    BY <1>1, <2>1, <2>2 DEF LocalGoes, RowDue, OneChange, ElectionPageInv, Tasks, LifecycleTasks
  <2>5. ControlsOK' /\ ModalOK' /\ ElectionPastOK'
    BY <1>1 DEF ElectionPageInv, ControlsOK, ModalOK, ElectionPastOK
  <2>6. QED
    BY <1>1, <1>2, <2>1, <2>3, <2>4, <2>5, NoTaskOK, HandlerKeeps
<1>5. QED
  BY <1>3, <1>4

LEMMA FormAnsweredKeeps ==
  ASSUME ElectionPageInv, FormAnswered
  PROVE  ElectionPageInv'
<1> DEFINE task == tasks["form"]
<1>1. /\ UNCHANGED <<server, controls>> /\ task.phase = "answered" /\ Told("form")
  BY DEF FormAnswered
<1>2. /\ "form" \in Tasks /\ "form" \notin LifecycleTasks /\ IsTask(task) /\ FormOK(task)
      /\ task = [f \in TaskFields |-> task[f]] /\ task.version \in Nat /\ task.made \in {0, 1}
      /\ task.kind \in {"add", "edit", "election", "common"}
      /\ task.names \in Seq(Presets \union {AddedName, Null}) /\ Len(task.names) > 0
      /\ task.kind # "common" => Len(task.names) = 1 /\ task.made = 0
  BY <1>1 DEF Tasks, LifecycleTasks, ElectionPageInv, TasksOK, FormOK, IsTask, Unfinished
<1>3. Changed("form") = IF task.kind = "election" THEN "election" ELSE "positions"
  BY <1>2 DEF Changed
<1>4. /\ ElectionPastOK' /\ electionPast'.putBack = electionPast.putBack /\ electionPast'.behind = electionPast.behind
      /\ electionPast'.together = electionPast.together
      /\ task.kind \in {"add", "common"} => electionPast'.created = electionPast.created \union {Head(task.names)}
      /\ task.kind \notin {"add", "common"} => electionPast'.created = electionPast.created
      /\ electionPast'.told["election"] = electionPast.told["election"]
      /\ task.kind = "election" => electionPast'.told = electionPast.told
  <2>1. /\ ElectionPastOK' /\ electionPast'.putBack = electionPast.putBack /\ electionPast'.behind = electionPast.behind
        /\ electionPast'.together = electionPast.together
        /\ task.kind \in {"add", "common"} => electionPast'.created = electionPast.created \union {Head(task.names)}
        /\ task.kind \notin {"add", "common"} => electionPast'.created = electionPast.created
        /\ \A q \in Resources : q # Changed("form") => electionPast'.told[q] = electionPast.told[q]
        /\ task.kind = "election" => electionPast'.told = electionPast.told
    BY <1>1, <1>2, ToldKeeps
  <2>2. electionPast'.told["election"] = electionPast.told["election"]
    BY <1>3, <2>1 DEF Resources
  <2>3. QED
    BY <2>1, <2>2
<1>5. CASE Len(task.names) > 1
  <2> DEFINE rest == Tail(task.names)
             t == [task EXCEPT !.phase = "sent", !.names = rest, !.made = 1]
             S == Presets \union {AddedName, Null}
  <2>1. /\ tasks' = [tasks EXCEPT !["form"] = t] /\ UNCHANGED <<entries, flights, loads, electionData, localPositions, modal>>
    BY <1>5 DEF FormAnswered, cacheVars, viewVars
  <2>2. task.kind = "common"
    <3>1. task.kind # "common" => Len(task.names) = 1
      BY <1>2
    <3>2. ~(1 > 1)
      OBVIOUS
    <3> HIDE DEF task
    <3>3. Len(task.names) # 1
      BY <1>5, <3>2, Zenon
    <3>4. QED
      BY <3>1, <3>3, Zenon
  <2> HIDE DEF S
  <2>3. /\ rest \in Seq(S) /\ Len(rest) = Len(task.names) - 1 /\ Len(rest) > 0 /\ Len(task.names) \in Nat
        /\ \A i \in 1..Len(rest) : rest[i] = task.names[i + 1]
        /\ Head(task.names) = task.names[1]
    <3>1. task.names \in Seq(S) /\ Len(task.names) > 1
      BY <1>2, <1>5 DEF S
    <3> HIDE DEF task
    <3>2. QED
      BY <3>1
  <2>4. /\ t = [f \in TaskFields |-> t[f]] /\ t.phase = "sent" /\ t.names = rest /\ t.made = 1
        /\ t.kind = task.kind /\ t.list = task.list /\ t.version = task.version
    BY <1>2 DEF TaskFields
  <2> HIDE DEF t, rest
  <2>5. IsTask(t) /\ FormOK(t)
    BY <1>2, <2>2, <2>3, <2>4 DEF IsTask, FormOK, S, Unfinished
  <2>6. TasksOK' /\ tasks'["form"] = t /\ \A k \in Tasks \ {"form"} : tasks'[k] = tasks[k]
    BY <1>2, <2>1, <2>5, TaskSet DEF ElectionPageInv
  <2>7. ServerTold'
    BY <1>1, <1>2, <2>4, <2>6, AnsweredTold
  <2>8. ListDue' /\ (RowDue' <=> RowDue)
    BY <1>1, <2>4, <2>6 DEF ListDue, RowDue, Unfinished, Tasks, LifecycleTasks
  <2>9. PageFresh'
    <3>1. CachedRowFresh'
      BY <1>4, <2>1 DEF CachedRowFresh, FreshRow, ElectionPageInv, PageFresh
    <3>2. PageRowFresh => PageRowFresh'
      BY <1>4, <2>1 DEF PageRowFresh, RowKept, FreshRow
    <3>3. QED
      BY <1>4, <2>8, <3>1, <3>2 DEF ElectionPageInv, PageFresh
  <2>10. StillToMake'
    <3>1. SUFFICES ASSUME task.list = Null, ~electionPast.behind
                   PROVE  /\ \A i, j \in 1..Len(rest) : rest[i] = rest[j] => i = j
                          /\ \A i \in 1..Len(rest) : rest[i] \notin electionPast.created \union {Head(task.names)}
      BY <1>4, <2>2, <2>4, <2>6 DEF StillToMake
    <3>2. /\ \A i, j \in 1..Len(task.names) : task.names[i] = task.names[j] => i = j
          /\ \A i \in 1..Len(task.names) : task.names[i] \notin electionPast.created
      BY <1>1, <2>2, <3>1 DEF ElectionPageInv, StillToMake, Unfinished
    <3> HIDE DEF task
    <3>3. \A i \in 1..Len(rest) : i + 1 \in 1..Len(task.names) /\ i + 1 # 1
      BY <2>3
    <3>4. 1 \in 1..Len(task.names)
      BY <2>3
    <3>5. \A i \in 1..Len(rest) : rest[i] # task.names[1]
      BY <2>3, <3>2, <3>3, <3>4
    <3>6. ASSUME NEW i \in 1..Len(rest), NEW j \in 1..Len(rest), rest[i] = rest[j]
          PROVE  i = j
      <4>1. i + 1 = j + 1
        BY <2>3, <3>2, <3>3, <3>6
      <4>2. QED
        BY <4>1
    <3>7. QED
      BY <2>3, <3>2, <3>3, <3>5, <3>6
  <2>11. LocalGoes' /\ OneChange'
    BY <1>1, <1>4, <2>1, <2>6 DEF LocalGoes, OneChange, ElectionPageInv, Tasks, LifecycleTasks
  <2>12. ServerOK' /\ ControlsOK' /\ CacheOK' /\ ModalOK'
    BY <1>1, <2>1 DEF ElectionPageInv, ServerOK, ControlsOK, CacheOK, ModalOK
  <2>13. QED
    BY <1>4, <2>6, <2>7, <2>9, <2>10, <2>11, <2>12 DEF ElectionPageInv
<1>6. CASE ~(Len(task.names) > 1)
  <2> DEFINE x == [task EXCEPT !.phase = "reloading", !.names = <<>>]
             t == IF task.kind = "edit" THEN NoTask ELSE x
             dropped == Invalidates(task.kind)
  <2>1. /\ tasks' = [tasks EXCEPT !["form"] = t] /\ modal' \in {modal, NoModal} /\ LoadAfter(dropped, "router", "form")
    BY <1>6 DEF FormAnswered
  <2>2. /\ x = [f \in TaskFields |-> x[f]] /\ x.phase = "reloading" /\ x.made = task.made /\ x.version = task.version
    BY <1>2 DEF TaskFields
  <2> HIDE DEF x
  <2>3. IsTask(x) /\ FormOK(x)
    BY <1>2, <2>2 DEF IsTask, FormOK, Unfinished
  <2>4. IsTask(t) /\ FormOK(t) /\ t.phase \in {"idle", "reloading"}
    BY <2>2, <2>3, NoTaskOK
  <2>5. /\ dropped \in SUBSET Resources /\ dropped # {}
        /\ "positions" \notin dropped => task.kind = "election"
    BY <1>2 DEF Invalidates, Resources
  <2> HIDE DEF t, dropped
  <2>6. TasksOK' /\ tasks'["form"] = t /\ \A k \in Tasks \ {"form"} : tasks'[k] = tasks[k]
    BY <1>2, <2>1, <2>4, TaskSet DEF ElectionPageInv
  <2>7. ServerTold'
    BY <1>1, <1>2, <2>4, <2>6, AnsweredTold
  <2>8. "positions" \notin dropped => /\ electionPast'.told["positions"] = electionPast.told["positions"]
                                      /\ electionPast'.created = electionPast.created
                                      /\ ~ListDue
    BY <1>2, <1>4, <2>5 DEF ListDue
  <2>9. QED
    BY <1>1, <1>4, <2>1, <2>4, <2>5, <2>7, <2>8, FormReloads
<1>7. QED
  BY <1>5, <1>6

\* complete() and the button of a page that is stale: refresh() begins.
LEMMA RefreshBegins ==
  ASSUME ElectionPageInv, UNCHANGED server, modal' \in {modal, NoModal}, NEW h \in LifecycleTasks,
         NEW t, tasks' = [tasks EXCEPT ![h] = t], IsTask(t), t.phase = "loading",
         t.kind \notin {"add", "common", "election"},
         controls' = [controls EXCEPT !.refreshing = TRUE], LoadAfter(Resources, h, h),
         ElectionPastOK', ServerTold', electionPast'.putBack = electionPast.putBack,
         electionPast'.together = electionPast.together, electionPast'.behind = electionPast.behind,
         electionPast'.told["positions"] = electionPast.told["positions"], electionPast'.created = electionPast.created,
         ~electionPast.together =>
           /\ \A k \in LifecycleTasks \ {h} : tasks[k] = NoTask
           /\ controls.stale => h = "again"
  PROVE  ElectionPageInv'
<1>1. /\ h \in Tasks /\ h # "form" /\ h # "reorder" /\ h \in Loaders /\ h # "router"
      /\ Resources \in SUBSET Resources /\ Resources # {} /\ \A k \in LifecycleTasks : k \in Tasks
  BY DEF Tasks, LifecycleTasks, Loaders, Resources
<1>2. TasksOK' /\ tasks'[h] = t /\ \A k \in Tasks \ {h} : tasks'[k] = tasks[k]
  BY <1>1, TaskSet DEF ElectionPageInv
<1>3. /\ CacheOK' /\ UNCHANGED <<electionData, localPositions>>
      /\ \A r \in Resources : entries'[r] = Null /\ flights'[r].value = Null
      /\ loads'["router"].phase = loads["router"].phase
      /\ loads'["router"].value = loads["router"].value
      /\ loads'["router"] = NoLoad <=> loads["router"] = NoLoad
  BY <1>1, LoadAfterKeeps DEF ElectionPageInv
<1>4. ControlsOK' /\ controls'.refreshing = TRUE /\ controls'.stale = controls.stale
  BY DEF ElectionPageInv, ControlsOK
<1>5. ServerOK' /\ ModalOK'
  BY NoModalOK DEF ElectionPageInv, ServerOK, ModalOK
<1>6. (ListDue' <=> ListDue) /\ StillToMake'
  BY <1>1, <1>2 DEF ListDue, StillToMake, ElectionPageInv, Tasks
<1>7. RowDue'
  BY <1>2 DEF RowDue
<1>8. PageFresh'
  BY <1>3, <1>6, <1>7, RefreshLoadFresh DEF ElectionPageInv
<1>9. LocalGoes'
  BY <1>1, <1>2, <1>3 DEF LocalGoes, ElectionPageInv, Tasks
<1>10. OneChange'
  <2>1. SUFFICES ASSUME ~electionPast.together
                 PROVE  /\ \A h1, h2 \in LifecycleTasks : h1 # h2 => tasks'[h1] = NoTask \/ tasks'[h2] = NoTask
                        /\ controls.stale => tasks'["transition"] = NoTask /\ tasks'["extend"] = NoTask
    BY <1>4 DEF OneChange
  <2>2. \A k \in LifecycleTasks \ {h} : tasks'[k] = NoTask
    BY <1>1, <1>2, <2>1
  <2>3. QED
    BY <2>1, <2>2 DEF LifecycleTasks
<1>11. QED
  BY <1>2, <1>3, <1>4, <1>5, <1>6, <1>8, <1>9, <1>10 DEF ElectionPageInv

LEMMA LifecycleAnsweredKeeps ==
  ASSUME ElectionPageInv, NEW h \in Tasks, LifecycleAnswered(h)
  PROVE  ElectionPageInv'
<1> DEFINE t == [tasks[h] EXCEPT !.phase = "loading"]
<1>1. /\ UNCHANGED server /\ h \in {"transition", "extend"} /\ tasks[h].phase = "answered" /\ Told(h)
      /\ modal' \in {modal, NoModal} /\ tasks' = [tasks EXCEPT ![h] = t]
      /\ controls' = [controls EXCEPT !.refreshing = TRUE] /\ LoadAfter(Resources, h, h)
  BY DEF LifecycleAnswered, Refreshed
<1>2. /\ h \in LifecycleTasks /\ h # "form" /\ h # "reorder" /\ h # "again" /\ IsTask(tasks[h]) /\ "positions" \in Resources
      /\ tasks[h].kind \notin {"add", "common", "election"} /\ Changed(h) = "election"
  BY <1>1 DEF LifecycleTasks, ElectionPageInv, TasksOK, Changed, Resources
<1>3. AtPhase(t, tasks[h], "loading")
  BY <1>2, TaskPhase
<1> HIDE DEF t
<1>4. TasksOK' /\ tasks'[h] = t /\ \A k \in Tasks \ {h} : tasks'[k] = tasks[k]
  BY <1>1, <1>2, <1>3, TaskSet DEF ElectionPageInv, AtPhase
<1>5. /\ ElectionPastOK' /\ electionPast'.putBack = electionPast.putBack /\ electionPast'.behind = electionPast.behind
      /\ electionPast'.together = electionPast.together /\ electionPast'.created = electionPast.created
      /\ electionPast'.told["positions"] = electionPast.told["positions"]
  BY <1>1, <1>2, ToldKeeps
<1>6. ServerTold'
  BY <1>1, <1>3, <1>4, AnsweredTold DEF AtPhase
<1>7. tasks[h] # NoTask
  BY <1>1, NoTaskOK
<1>8. ~electionPast.together => /\ \A k \in LifecycleTasks \ {h} : tasks[k] = NoTask
                                /\ ~controls.stale
  BY <1>1, <1>2, <1>7 DEF ElectionPageInv, OneChange
<1>9. QED
  BY <1>1, <1>2, <1>3, <1>5, <1>6, <1>8, RefreshBegins DEF AtPhase

LEMMA RefreshPageKeeps ==
  ASSUME ElectionPageInv, RefreshPage
  PROVE  ElectionPageInv'
<1> DEFINE t == [NoTask EXCEPT !.phase = "loading"]
<1>1. /\ UNCHANGED <<server, modal, electionPast>> /\ controls.stale /\ tasks["again"] = NoTask
      /\ tasks' = [tasks EXCEPT !["again"] = t]
      /\ controls' = [controls EXCEPT !.refreshing = TRUE] /\ LoadAfter(Resources, "again", "again")
  BY DEF RefreshPage, Refreshed, formVars
<1>2. "again" \in LifecycleTasks /\ "again" \in Tasks /\ Null \notin {"add", "common", "election"}
  BY ElectionPageAssumption DEF LifecycleTasks, Tasks
<1>3. AtPhase(t, NoTask, "loading")
  BY NoTaskOK, TaskPhase
<1> HIDE DEF t
<1>4. IsTask(t) /\ t.phase = "loading" /\ t.kind = Null
  BY <1>3, NoTaskOK DEF AtPhase
<1>5. TasksOK' /\ tasks'["again"] = t /\ \A k \in Tasks \ {"again"} : tasks'[k] = tasks[k]
  BY <1>1, <1>2, <1>4, TaskSet DEF ElectionPageInv
<1>6. ElectionPastOK' /\ ServerTold'
  BY <1>1, <1>2, <1>4, <1>5, SameTold DEF ElectionPageInv, ElectionPastOK
<1>7. ~electionPast.together => \A k \in LifecycleTasks \ {"again"} : tasks[k] = NoTask
  BY <1>1 DEF ElectionPageInv, OneChange, LifecycleTasks
<1>8. QED
  BY <1>1, <1>2, <1>4, <1>6, <1>7, RefreshBegins

-----------------------------------------------------------------------------
(* What the page of an election shows and sends. *)

LEMMA ElectionPageInitOK == ElectionPageInit => ElectionPageInv
<1> SUFFICES ASSUME ElectionPageInit
             PROVE  ElectionPageInv
  OBVIOUS
<1>1. /\ server = [election |-> [status |-> "draft", version |-> 0], positions |-> [names |-> FirstNames, version |-> 0]]
      /\ entries = server /\ electionData = server /\ flights = [r \in Resources |-> NoFetch]
      /\ loads = [l \in Loaders |-> NoLoad] /\ localPositions = Null /\ modal = NoModal
      /\ tasks = [h \in Tasks |-> NoTask] /\ controls = [refreshing |-> FALSE, stale |-> FALSE]
      /\ electionPast = [told |-> [r \in Resources |-> 0], created |-> {}, together |-> FALSE, putBack |-> Null, behind |-> FALSE]
  BY DEF ElectionPageInit
<1>2. ServerOK
  BY <1>1 DEF ServerOK, RowFieldsOf, ListFieldsOf
<1>3. loads["router"] = NoLoad
  BY <1>1 DEF Loaders
<1>4. CacheOK
  <2>1. entries = [r \in Resources |-> entries[r]]
    BY <1>1 DEF Resources
  <2>2. flights = [r \in Resources |-> flights[r]] /\ \A r \in Resources : IsFetch(flights[r]) /\ flights[r].value = Null
    BY <1>1 DEF IsFetch, NoFetch
  <2>3. loads = [l \in Loaders |-> loads[l]] /\ \A l \in Loaders : IsLoad(loads[l])
    BY <1>1, NoLoadOK DEF RouterOK
  <2>4. QED
    BY <1>3, <2>1, <2>2, <2>3, NoLoadOK DEF CacheOK
<1>5. TasksOK
  <2>1. "form" \in Tasks /\ "reorder" \in Tasks /\ LifecycleTasks \subseteq Tasks
    BY DEF Tasks
  <2>2. NoTask.kind \notin {"add", "common", "election"}
    BY NoTaskOK, ElectionPageAssumption
  <2>3. QED
    BY <1>1, <2>1, <2>2, NoTaskOK DEF TasksOK
<1>6. ElectionPastOK /\ ControlsOK /\ ModalOK
  BY <1>1, NoModalOK DEF ElectionPastOK, ControlsOK, ModalOK
<1>7. \A h \in Tasks : tasks[h] = NoTask
  BY <1>1
<1>8. /\ electionPast.told["positions"] = 0 /\ electionPast.told["election"] = 0 /\ electionPast.created = {}
  BY <1>1 DEF Resources
<1>9. FreshList(server["positions"], electionPast) /\ FreshRow(server["election"], electionPast)
  BY <1>1, <1>8 DEF FreshList, FreshRow
<1>10. ServerTold
  BY <1>7, <1>9, NoTaskOK DEF ServerTold, Tasks
<1>11. PageFresh
  <2>1. \A r \in Resources : flights[r].value = Null
    BY <1>1 DEF NoFetch
  <2>2. CachedRowFresh /\ CachedListFresh
    BY <1>1, <1>9, <2>1 DEF CachedRowFresh, CachedListFresh, Resources
  <2>3. PageListFresh /\ PageRowFresh
    BY <1>1, <1>3, <1>9, NoLoadOK DEF PageListFresh, PageRowFresh, ListKept, RowKept, NoLoad
  <2>4. QED
    BY <2>2, <2>3 DEF PageFresh
<1>12. LocalGoes /\ StillToMake /\ OneChange
  BY <1>1, <1>7, NoTaskOK DEF LocalGoes, StillToMake, OneChange, Unfinished, Tasks, LifecycleTasks
<1>13. QED
  BY <1>2, <1>4, <1>5, <1>6, <1>10, <1>11, <1>12 DEF ElectionPageInv

LEMMA ElectionPageNextKeeps == ElectionPageInv /\ [ElectionPageNext]_electionPageVars => ElectionPageInv'
<1> SUFFICES ASSUME ElectionPageInv, [ElectionPageNext]_electionPageVars
             PROVE  ElectionPageInv'
  OBVIOUS
<1>1. CASE UNCHANGED electionPageVars
  BY <1>1, DialogsKeep DEF electionPageVars, formVars, ElectionPageInv, ModalOK
<1>2. ASSUME NEW kind, OpenModal(kind)
      PROVE  ElectionPageInv'
  BY <1>2, OpenModalKeeps
<1>3. CASE CloseModal
  BY <1>3, CloseModalKeeps
<1>4. CASE SelectAllAvailable \/ \E name \in Presets : Deselect(name)
  BY <1>4, SelectingKeeps
<1>5. CASE SubmitForm
  BY <1>5, SubmitFormKeeps
<1>6. CASE SubmitLifecycle
  BY <1>6, SubmitLifecycleKeeps
<1>7. CASE MovePosition
  BY <1>7, MovePositionKeeps
<1>8. CASE RefreshPage
  BY <1>8, RefreshPageKeeps
<1>9. CASE OtherAdministrator
  BY <1>9, OtherAdministratorKeeps
<1>10. ASSUME NEW r \in Resources, FetchSteps(r)
       PROVE  ElectionPageInv'
  BY <1>10, ServeFetchKeeps, FetchArrivesKeeps DEF FetchSteps
<1>11. ASSUME NEW l \in Loaders, OrphanSteps(l)
       PROVE  ElectionPageInv'
  BY <1>11, ServeOrphanKeeps, OrphanArrivesKeeps DEF OrphanSteps
<1>12. ASSUME NEW h \in Tasks, TaskSteps(h)
       PROVE  ElectionPageInv'
  <2>1. CASE ServerHandlesTask(h)
    BY <2>1, ServerTaskKeeps
  <2>2. CASE ReorderAnswered
    BY <2>2, ReorderAnsweredKeeps
  <2>3. CASE ReorderFails \/ ReorderFinishes
    BY <2>3, ReorderEnds
  <2>4. CASE FormAnswered
    BY <2>4, FormAnsweredKeeps
  <2>5. CASE FormFails
    BY <2>5, FormFailsKeeps
  <2>6. CASE FormFinishes
    BY <2>6, FormEnds
  <2>7. CASE LifecycleAnswered(h)
    BY <2>7, LifecycleAnsweredKeeps
  <2>8. CASE LifecycleFails(h)
    <3>1. h \in LifecycleTasks
      BY <2>8 DEF LifecycleFails, LifecycleTasks
    <3>2. QED
      BY <2>8, <3>1, LifecycleEnds
  <2>9. CASE h \in LifecycleTasks /\ (RefreshRoutes(h) \/ RefreshFails(h) \/ RefreshFinishes(h))
    BY <2>9, RefreshRoutesKeeps, RefreshFailsKeeps, LifecycleEnds
  <2>10. QED
    BY <1>12, <2>1, <2>2, <2>3, <2>4, <2>5, <2>6, <2>7, <2>8, <2>9 DEF TaskSteps
<1>13. QED
  BY <1>1, <1>2, <1>3, <1>4, <1>5, <1>6, <1>7, <1>8, <1>9, <1>10, <1>11, <1>12 DEF ElectionPageNext

LEMMA ElectionPageInvShows == ElectionPageInv => ElectionPageCorrect
<1> SUFFICES ASSUME ElectionPageInv
             PROVE  ElectionPageCorrect
  OBVIOUS
<1>1. OwnPositionsShown
  <2>1. SUFFICES ASSUME electionData # Null, tasks["reorder"] = NoTask, tasks["form"] = NoTask, loads["router"] = NoLoad, ~PutBack
                 PROVE  ShownPositions.version >= electionPast.told["positions"]
    BY DEF OwnPositionsShown
  <2>2. localPositions = Null
    BY <2>1, NoTaskOK DEF ElectionPageInv, LocalGoes, PutBack, Unfinished
  <2>3. ~ListDue
    BY <2>1, NoTaskOK DEF ListDue, Unfinished
  <2>4. QED
    BY <2>1, <2>2, <2>3 DEF ElectionPageInv, PageFresh, PageListFresh, ListKept, FreshList, ShownPositions
<1>2. NoBlindTransition
  <2>1. SUFFICES ASSUME ControlsEnabled, loads["router"] = NoLoad, ~electionPast.together
                 PROVE  electionData.election.version >= electionPast.told["election"]
    BY DEF NoBlindTransition
  <2>2. ~RowDue
    BY <2>1 DEF ElectionPageInv, OneChange, RowDue, ControlsEnabled
  <2>3. QED
    BY <2>1, <2>2 DEF ElectionPageInv, PageFresh, PageRowFresh, RowKept, FreshRow, ControlsEnabled
<1>3. PresetsAskedOnce
  <2>1. SUFFICES ASSUME tasks["form"].kind = "common", tasks["form"].phase = "sent", tasks["form"].list = Null, ~electionPast.behind
                 PROVE  Head(tasks["form"].names) \notin electionPast.created
    BY DEF PresetsAskedOnce
  <2>2. tasks["form"].names \in Seq(Presets \union {AddedName, Null}) /\ Len(tasks["form"].names) > 0
    BY <2>1 DEF ElectionPageInv, TasksOK, FormOK, Unfinished
  <2>3. tasks["form"].names[1] \notin electionPast.created
    BY <2>1, <2>2 DEF ElectionPageInv, StillToMake, Unfinished
  <2>4. QED
    BY <2>2, <2>3
<1>4. QED
  BY <1>1, <1>2, <1>3 DEF ElectionPageCorrect

\* The page of an election shows the positions it was told to have changed, offers no change
\* of the lifecycle on a page that lacks the last, and asks for no preset twice (the
\* invalidations and reloads of [id]/+page.svelte, the lifecycle controls and the dialog of
\* common positions), for any presets and budgets.
THEOREM ElectionPageShowsOwn == ElectionPageSpec => []ElectionPageCorrect
<1>1. ElectionPageSpec => []ElectionPageInv
  BY ElectionPageInitOK, ElectionPageNextKeeps, PTL DEF ElectionPageSpec
<1>2. QED
  BY <1>1, ElectionPageInvShows, PTL


-----------------------------------------------------------------------------
(* The audit log: the first rows of the log.                                 *)

\* Rows that a page can be cut from.
LogRowsOK(rows) ==
  rows \subseteq AuditRow /\ IsFiniteSet(rows) /\ \A a, b \in rows : a.id = b.id => a = b

NewestFirst(items) == \A i, j \in DOMAIN items : i < j => Newer(items[i], items[j])

LEMMA NewerIsOrder ==
  ASSUME NEW a \in AuditRow, NEW b \in AuditRow
  PROVE  /\ ~Newer(a, a)
         /\ Newer(a, b) => ~Newer(b, a)
         /\ \A c \in AuditRow : Newer(a, b) /\ Newer(b, c) => Newer(a, c)
         /\ a.id = b.id \/ Newer(a, b) \/ Newer(b, a)
  BY LogAssumption DEF AuditRow, Newer

Before(rows, row) == {other \in rows : Newer(other, row)}

\* How many rows come first tells a row from any other.
LEMMA RankTells ==
  ASSUME NEW rows, LogRowsOK(rows)
  PROVE  /\ Cardinality(rows) \in Nat
         /\ \A row \in rows : Cardinality(Before(rows, row)) \in Nat
         /\ \A row \in rows : Cardinality(Before(rows, row)) < Cardinality(rows)
         /\ \A a, b \in rows : Newer(a, b) => Cardinality(Before(rows, a)) < Cardinality(Before(rows, b))
         /\ \A a, b \in rows : a = b \/ Newer(a, b) \/ Newer(b, a)
         /\ \A i \in 1..Cardinality(rows) : \E row \in rows : Cardinality(Before(rows, row)) + 1 = i
<1> DEFINE card(row) == Cardinality(Before(rows, row))
<1>1. IsFiniteSet(rows) /\ Cardinality(rows) \in Nat
  BY FS_CardinalityType DEF LogRowsOK
<1>2. ASSUME NEW row \in rows
      PROVE  IsFiniteSet(Before(rows, row)) /\ card(row) \in Nat /\ card(row) < Cardinality(rows)
  <2>1. Before(rows, row) \subseteq rows \ {row}
    BY <1>2, NewerIsOrder DEF Before, LogRowsOK
  <2>2. IsFiniteSet(rows \ {row}) /\ Cardinality(rows \ {row}) = Cardinality(rows) - 1
    BY <1>1, FS_RemoveElement
  <2>3. IsFiniteSet(Before(rows, row)) /\ card(row) <= Cardinality(rows \ {row})
    BY <2>1, <2>2, FS_Subset
  <2>4. card(row) \in Nat
    BY <2>3, FS_CardinalityType
  <2>5. QED
    BY <1>1, <2>2, <2>3, <2>4
<1>3. ASSUME NEW a \in rows, NEW b \in rows, Newer(a, b)
      PROVE  card(a) < card(b)
  <2>1. Before(rows, a) \subseteq Before(rows, b)
    BY <1>3, NewerIsOrder DEF Before, LogRowsOK
  <2>2. a \in Before(rows, b) /\ a \notin Before(rows, a)
    BY <1>3, NewerIsOrder DEF Before, LogRowsOK
  <2>3. card(a) <= card(b) /\ card(a) # card(b)
    BY <1>2, <2>1, <2>2, FS_Subset
  <2>4. QED
    BY <1>2, <2>3
<1>4. \A a, b \in rows : a = b \/ Newer(a, b) \/ Newer(b, a)
  BY NewerIsOrder DEF LogRowsOK
<1>5. ASSUME NEW i \in 1..Cardinality(rows) PROVE \E row \in rows : card(row) + 1 = i
  <2> DEFINE ranks == [row \in rows |-> card(row) + 1]
             all == 1..Cardinality(rows)
  <2>1. ranks \in [rows -> all]
    BY <1>1, <1>2
  <2>2. \A a, b \in rows : ranks[a] = ranks[b] => a = b
    BY <1>2, <1>3, <1>4
  <2>3. ranks \in Injection(rows, all)
    BY <2>1, <2>2 DEF Injection, IsInjective
  <2>4. IsFiniteSet(all) /\ Cardinality(all) = Cardinality(rows)
    BY <1>1, FS_Interval
  <2>5. ranks \in Surjection(rows, all)
    <3> HIDE DEF ranks, all
    <3> QED BY <2>3, <2>4, FS_Injection
  <2>6. \E row \in rows : ranks[row] = i
    BY <2>5 DEF Surjection
  <2>7. QED
    BY <2>6
<1>6. QED
  BY <1>1, <1>2, <1>3, <1>4, <1>5

\* A page has rows of its own in the order of the log, and no row that it leaves out
\* comes before its last one.
PageOf(items, rows, n) ==
  /\ items \in Seq(rows) /\ Len(items) <= n /\ NewestFirst(items)
  /\ Len(items) < n => \A row \in rows : \E i \in DOMAIN items : items[i] = row
  /\ Len(items) = n => \A row \in rows : (\E i \in DOMAIN items : items[i] = row) \/ Newer(Last(items), row)

LEMMA FirstOfIsPage ==
  ASSUME NEW rows, LogRowsOK(rows), NEW n \in Nat \ {0}
  PROVE  PageOf(FirstOf(rows, n), rows, n)
<1> DEFINE rank(row) == Cardinality(Before(rows, row)) + 1
           size == IF Cardinality(rows) < n THEN Cardinality(rows) ELSE n
           items == [i \in 1..size |-> CHOOSE row \in rows : rank(row) = i]
<1>1. FirstOf(rows, n) = items
  BY DEF FirstOf, Before
<1>2. size \in Nat /\ size <= n /\ size <= Cardinality(rows) /\ Cardinality(rows) \in Nat
      /\ (size < n => size = Cardinality(rows))
  BY RankTells
<1>3. \A i \in 1..size : items[i] \in rows /\ rank(items[i]) = i
  <2> SUFFICES ASSUME NEW i \in 1..size PROVE items[i] \in rows /\ rank(items[i]) = i
    OBVIOUS
  <2>1. \E row \in rows : rank(row) = i
    BY <1>2, RankTells
  <2>2. items[i] = CHOOSE row \in rows : rank(row) = i
    OBVIOUS
  <2> HIDE DEF items, rank
  <2>3. QED
    BY <2>1, <2>2
<1>4. \A row \in rows : rank(row) \in 1..Cardinality(rows)
  <2>1. \A row \in rows : Cardinality(Before(rows, row)) \in Nat /\ Cardinality(Before(rows, row)) < Cardinality(rows)
    BY RankTells
  <2>2. QED
    BY <2>1, <1>2
<1>5. \A a, b \in rows : rank(a) < rank(b) => Newer(a, b)
  BY RankTells
<1>6. \A a, b \in rows : rank(a) = rank(b) => a = b
  BY RankTells
<1>7. items \in Seq(rows) /\ Len(items) = size /\ DOMAIN items = 1..size
  <2>1. DOMAIN items = 1..size /\ \A i \in 1..size : items[i] \in rows
    BY <1>3
  <2>2. items = [i \in 1..size |-> items[i]]
    OBVIOUS
  <2> HIDE DEF items, size, rank
  <2>3. items \in [1..size -> rows]
    BY <2>1, <2>2
  <2>4. QED
    BY <1>2, <2>1, <2>3
<1> HIDE DEF items, size, rank
<1>8. NewestFirst(items)
  BY <1>2, <1>3, <1>5, <1>7 DEF NewestFirst
<1>9. \A row \in rows : rank(row) <= size => \E i \in DOMAIN items : items[i] = row
  BY <1>2, <1>3, <1>4, <1>6, <1>7
<1>10. ASSUME size = n, NEW row \in rows, ~(rank(row) <= size) PROVE Newer(Last(items), row)
  BY <1>2, <1>3, <1>4, <1>5, <1>7, <1>10 DEF Last
<1>11. QED
  BY <1>1, <1>2, <1>4, <1>7, <1>8, <1>9, <1>10 DEF PageOf

-----------------------------------------------------------------------------
(* The audit log: the page. *)

Cursors == AuditRow \union {Null}

LogPages == [items : Seq(AuditRow), nextCursor : Cursors]

LogRequests ==
  [query : Nat, filter : Targets \union {Null}, cursor : Cursors, offset : Nat \union {Null},
   page : LogPages \union {Null}]

LogTypeOK ==
  /\ LogRowsOK(auditRows)
  /\ fetchedItems \in Seq(AuditRow) /\ pageIndex \in Nat /\ limitFilter \in PageSizes
  /\ nextCursor \in Cursors /\ isLoading \in BOOLEAN /\ targetFilter \in Targets \union {Null}
  /\ currentQueryId \in Nat
  /\ auditPast \in [toBeListed : SUBSET AuditRow, lateTurn : BOOLEAN]

\* One request is heeded, and the page is loading while it is under way.
QueriesOK ==
  /\ logRequests \subseteq LogRequests
  /\ \A r \in logRequests : r.query <= currentQueryId
  /\ \A r1, r2 \in logRequests : r1.query = r2.query => r1 = r2
  /\ isLoading <=> \E r \in logRequests : Current(r)

\* A page that goes on from the cursor, in the order of the log, and passes over nothing.
GoesOn(page, cursor, filter, listed) ==
  /\ NewestFirst(page.items) /\ Len(page.items) <= BATCH_SIZE
  /\ \A i \in DOMAIN page.items : Matches(page.items[i], filter) /\ Beyond(page.items[i], cursor)
  /\ page.nextCursor = IF Len(page.items) = BATCH_SIZE THEN Last(page.items) ELSE Null
  /\ \A row \in listed :
       \/ ~Beyond(row, cursor)
       \/ \E i \in DOMAIN page.items : page.items[i] = row
       \/ page.nextCursor # Null /\ Newer(page.nextCursor, row)

\* What is asked for, and what is on its way, goes on from what has been read.
CurrentOK ==
  \A r \in logRequests :
    Current(r) =>
      /\ r.filter = targetFilter /\ r.cursor = nextCursor
      /\ r.page # Null => GoesOn(r.page, nextCursor, targetFilter, auditPast.toBeListed)
      /\ fetchedItems # <<>> => nextCursor # Null
      /\ ~auditPast.lateTurn =>
           IF fetchedItems = <<>> THEN r.offset = Null
           ELSE r.offset = (pageIndex + 1) * limitFilter /\ Len(fetchedItems) <= r.offset

ReadOK ==
  /\ LogInOrder
  /\ auditPast.toBeListed \subseteq auditRows
  /\ \A row \in auditPast.toBeListed : Matches(row, targetFilter)
  /\ nextCursor # Null => fetchedItems # <<>> /\ nextCursor = Last(fetchedItems)
  /\ IF fetchedItems = <<>> THEN isLoading \/ loadFailed \/ auditPast.toBeListed = {}
     ELSE \A row \in auditPast.toBeListed :
            \/ \E i \in DOMAIN fetchedItems : fetchedItems[i] = row
            \/ nextCursor # Null /\ Newer(nextCursor, row)

\* Whole batches have been read unless the log is at its end, and the page is one of them.
WholePages ==
  /\ nextCursor # Null => \E n \in 0..Len(fetchedItems) : Len(fetchedItems) = n * BATCH_SIZE
  /\ ~auditPast.lateTurn =>
       IF fetchedItems = <<>> THEN pageIndex = 0
       ELSE /\ pageIndex * limitFilter < Len(fetchedItems)
            /\ nextCursor # Null => (pageIndex + 1) * limitFilter <= Len(fetchedItems)

AuditInv == LogTypeOK /\ QueriesOK /\ CurrentOK /\ ReadOK /\ WholePages

LEMMA PageArithmetic ==
  ASSUME NEW a \in Nat, NEW m \in Nat, NEW size \in Nat \ {0}
  PROVE  /\ a * size < m * size => (a + 1) * size <= m * size
         /\ a * size \in Nat
         /\ \A b \in Nat : b <= a => b * size <= a * size
<1>1. ASSUME NEW b \in Nat, NEW c \in Nat, b <= c PROVE b * size <= c * size
  <2>1. PICK d \in Nat : c = b + d
    BY <1>1
  <2>2. c * size = b * size + d * size /\ d * size >= 0 /\ b * size \in Nat
    BY <2>1
  <2>3. QED
    BY <2>2
<1>2. a * size \in Nat /\ m * size \in Nat
  OBVIOUS
<1>3. ASSUME a * size < m * size PROVE (a + 1) * size <= m * size
  <2>1. ~(m <= a)
    BY <1>1, <1>2, <1>3
  <2>2. a + 1 <= m
    BY <2>1
  <2>3. QED
    BY <1>1, <2>2
<1>4. QED
  BY <1>1, <1>2, <1>3

\* Any number of batches is a number of pages.
LEMMA BatchesArePages ==
  ASSUME NEW n \in Nat, NEW size \in PageSizes
  PROVE  \E m \in Nat : n * BATCH_SIZE = m * size
<1>1. PICK k \in 1..BATCH_SIZE : BATCH_SIZE = k * size
  BY PagesAssumption
<1>2. k \in Nat /\ size \in Nat
  BY PagesAssumption
<1>3. n * (k * size) = (n * k) * size /\ n * k \in Nat
  BY <1>2
<1>4. QED
  BY <1>1, <1>3

\* A page that begins within whole batches is full.
LEMMA PageIsFull ==
  ASSUME NEW n \in Nat, NEW size \in PageSizes, NEW page \in Nat, page * size < n * BATCH_SIZE
  PROVE  (page + 1) * size <= n * BATCH_SIZE
<1>1. PICK m \in Nat : n * BATCH_SIZE = m * size
  BY BatchesArePages
<1>2. size \in Nat \ {0}
  BY PagesAssumption
<1>3. QED
  BY <1>1, <1>2, PageArithmetic

-----------------------------------------------------------------------------
(* The steps. *)

LEMMA AuditInitInv == AuditLogInit => AuditInv
<1> SUFFICES ASSUME AuditLogInit PROVE AuditInv
  OBVIOUS
<1> DEFINE first == [query |-> 1, filter |-> Null, cursor |-> Null, offset |-> Null, page |-> Null]
<1>1. logRequests = {first} /\ first \in LogRequests /\ first.query = 1 /\ first.filter = Null
      /\ first.cursor = Null /\ first.offset = Null /\ first.page = Null
  BY DEF AuditLogInit, LogRequests, Cursors
<1> HIDE DEF first
<1>2. LogTypeOK
  BY LogAssumption, PagesAssumption DEF AuditLogInit, LogTypeOK, LogRowsOK, Cursors
<1>3. QueriesOK
  BY <1>1 DEF AuditLogInit, QueriesOK, Current
<1>4. CurrentOK
  BY <1>1 DEF AuditLogInit, CurrentOK
<1>5. ReadOK
  BY DEF AuditLogInit, ReadOK, LogInOrder, Matches
<1>6. WholePages
  BY DEF AuditLogInit, WholePages
<1>7. QED
  BY <1>2, <1>3, <1>4, <1>5, <1>6 DEF AuditInv

\* The log grows.
LEMMA WriteAuditKeeps ==
  ASSUME AuditInv, NEW row \in AuditRow, WriteAudit(row) PROVE AuditInv'
<1>1. LogRowsOK(auditRows)'
  BY FS_AddElement DEF AuditInv, LogTypeOK, LogRowsOK, WriteAudit
<1>2. UNCHANGED <<readerVars, auditPast>> /\ auditRows \subseteq auditRows'
  BY DEF WriteAudit
<1>3. LogTypeOK'
  BY <1>1, <1>2 DEF AuditInv, LogTypeOK, readerVars
<1>4. QueriesOK' /\ CurrentOK' /\ WholePages'
  BY <1>2 DEF AuditInv, QueriesOK, CurrentOK, WholePages, Current, readerVars
<1>5. ReadOK'
  BY <1>2 DEF AuditInv, ReadOK, LogInOrder, readerVars
<1>6. QED
  BY <1>3, <1>4, <1>5 DEF AuditInv

\* A new query: what is under way is not heeded any more.
LEMMA FetchAsks ==
  ASSUME AuditInv, NEW filter \in Targets \union {Null}, NEW cursor \in Cursors,
         NEW offset \in Nat \union {Null}, Fetch(filter, cursor, offset)
  PROVE  /\ QueriesOK'
         /\ currentQueryId' \in Nat /\ isLoading' = TRUE /\ loadFailed' = FALSE
         /\ \A r \in logRequests' : Current(r)' =>
              r.filter = filter /\ r.cursor = cursor /\ r.offset = offset /\ r.page = Null
<1> DEFINE new == [query |-> currentQueryId + 1, filter |-> filter, cursor |-> cursor, offset |-> offset, page |-> Null]
<1>1. currentQueryId \in Nat /\ currentQueryId' = currentQueryId + 1
  BY DEF AuditInv, LogTypeOK, Fetch
<1>2. /\ logRequests' = logRequests \union {new} /\ new \in LogRequests /\ new.query = currentQueryId'
      /\ new.filter = filter /\ new.cursor = cursor /\ new.offset = offset /\ new.page = Null
  BY <1>1 DEF Fetch, LogRequests
<1> HIDE DEF new
<1>3. \A r \in logRequests : r.query \in Nat /\ r.query <= currentQueryId
  BY DEF AuditInv, QueriesOK, LogRequests
<1>4. QueriesOK'
  <2>1. isLoading' = TRUE
    BY DEF Fetch
  <2>2. QED
    BY <1>1, <1>2, <1>3, <2>1 DEF AuditInv, QueriesOK, Current
<1>5. QED
  BY <1>1, <1>2, <1>3, <1>4 DEF Fetch, Current

LEMMA ResetKeeps ==
  ASSUME AuditInv, NEW filter \in Targets \union {Null}, ResetAndLoad(filter), targetFilter' = filter,
         UNCHANGED auditRows, limitFilter' \in PageSizes
  PROVE  AuditInv'
<1> DEFINE listed == {row \in auditRows : Matches(row, filter)}
<1>1. /\ fetchedItems' = <<>> /\ nextCursor' = Null /\ pageIndex' = 0 /\ Fetch(filter, Null, Null)
      /\ auditPast' = [auditPast EXCEPT !.toBeListed = listed, !.lateTurn = FALSE]
  BY DEF ResetAndLoad
<1>2. listed \subseteq auditRows /\ listed \subseteq AuditRow /\ \A row \in listed : Matches(row, filter)
  BY DEF AuditInv, LogTypeOK, LogRowsOK
<1> HIDE DEF listed
<1>3. /\ auditPast' \in [toBeListed : SUBSET AuditRow, lateTurn : BOOLEAN]
      /\ auditPast'.toBeListed = listed /\ auditPast'.lateTurn = FALSE
  BY <1>1, <1>2 DEF AuditInv, LogTypeOK
<1>4. /\ QueriesOK' /\ currentQueryId' \in Nat /\ isLoading' = TRUE
      /\ \A r \in logRequests' : Current(r)' => r.filter = filter /\ r.cursor = Null /\ r.offset = Null /\ r.page = Null
  BY <1>1, FetchAsks DEF Cursors
<1>5. LogTypeOK'
  BY <1>1, <1>3, <1>4 DEF AuditInv, LogTypeOK, Cursors
<1>6. CurrentOK'
  BY <1>1, <1>4 DEF CurrentOK
<1>7. ReadOK'
  BY <1>1, <1>2, <1>3, <1>4 DEF ReadOK, LogInOrder, Matches
<1>8. WholePages'
  BY <1>1 DEF WholePages
<1>9. QED
  BY <1>4, <1>5, <1>6, <1>7, <1>8 DEF AuditInv

\* A request has been answered with a page of the log as it is then.
LEMMA ListPageGoesOn ==
  ASSUME AuditInv, NEW filter \in Targets \union {Null}, NEW cursor \in Cursors
  PROVE  /\ ListPage(filter, cursor) \in LogPages
         /\ \A listed \in SUBSET auditRows : (\A row \in listed : Matches(row, filter)) =>
              GoesOn(ListPage(filter, cursor), cursor, filter, listed)
<1> DEFINE rows == {row \in auditRows : Matches(row, filter) /\ Beyond(row, cursor)}
           items == FirstOf(rows, BATCH_SIZE)
           page == ListPage(filter, cursor)
<1>1. rows \subseteq auditRows /\ rows \subseteq AuditRow /\ LogRowsOK(rows)
  BY FS_Subset DEF AuditInv, LogTypeOK, LogRowsOK
<1>2. PageOf(items, rows, BATCH_SIZE)
  BY <1>1, FirstOfIsPage, PagesAssumption
<1>3. \A row \in rows : Matches(row, filter) /\ Beyond(row, cursor)
  OBVIOUS
<1>4. \A row \in auditRows : Matches(row, filter) /\ Beyond(row, cursor) => row \in rows
  OBVIOUS
<1>5. page.items = items /\ page.nextCursor = (IF Len(items) = BATCH_SIZE THEN Last(items) ELSE Null)
      /\ page = [items |-> items, nextCursor |-> page.nextCursor]
  BY DEF ListPage
<1> HIDE DEF rows, items, page
<1>6. items \in Seq(rows) /\ items \in Seq(AuditRow) /\ Len(items) \in Nat /\ DOMAIN items = 1..Len(items)
      /\ \A i \in DOMAIN items : items[i] \in rows
  BY <1>1, <1>2 DEF PageOf
<1>7. Len(items) = BATCH_SIZE => Last(items) \in AuditRow /\ Last(items) # Null
  BY <1>1, <1>6, PagesAssumption, LogAssumption DEF Last
<1>8. page \in LogPages
  BY <1>5, <1>6, <1>7 DEF LogPages, Cursors
<1>9. ASSUME NEW listed \in SUBSET auditRows, \A row \in listed : Matches(row, filter)
      PROVE  GoesOn(page, cursor, filter, listed)
  <2>1. NewestFirst(page.items) /\ Len(page.items) <= BATCH_SIZE
    BY <1>2, <1>5 DEF PageOf
  <2>2. \A i \in DOMAIN page.items : Matches(page.items[i], filter) /\ Beyond(page.items[i], cursor)
    BY <1>3, <1>5, <1>6
  <2>3. ASSUME NEW row \in listed, Beyond(row, cursor)
        PROVE  \/ \E i \in DOMAIN page.items : page.items[i] = row
               \/ page.nextCursor # Null /\ Newer(page.nextCursor, row)
    <3>1. row \in rows
      BY <1>4, <1>9, <2>3
    <3>2. CASE Len(items) = BATCH_SIZE
      BY <1>2, <1>5, <1>7, <3>1, <3>2 DEF PageOf
    <3>3. CASE Len(items) # BATCH_SIZE
      BY <1>2, <1>5, <1>6, <3>1, <3>3, PagesAssumption DEF PageOf
    <3>4. QED
      BY <3>2, <3>3
  <2>4. QED
    BY <1>5, <2>1, <2>2, <2>3 DEF GoesOn
<1>10. QED
  BY <1>8, <1>9 DEF page

LEMMA ServeLogKeeps ==
  ASSUME AuditInv, NEW r \in logRequests, ServeLog(r) PROVE AuditInv'
<1> DEFINE page == ListPage(r.filter, r.cursor)
           new == [r EXCEPT !.page = page]
<1>1. r \in LogRequests
  BY DEF AuditInv, QueriesOK
<1>2. /\ page \in LogPages
      /\ \A listed \in SUBSET auditRows : (\A row \in listed : Matches(row, r.filter)) =>
           GoesOn(page, r.cursor, r.filter, listed)
  BY <1>1, ListPageGoesOn DEF LogRequests
<1>3. logRequests' = (logRequests \ {r}) \union {new}
  BY DEF ServeLog
<1> HIDE DEF page
<1>4. /\ new \in LogRequests /\ new.query = r.query /\ new.filter = r.filter /\ new.cursor = r.cursor
      /\ new.offset = r.offset /\ new.page = page
  BY <1>1, <1>2 DEF LogRequests
<1> HIDE DEF new
<1>5. UNCHANGED <<auditRows, fetchedItems, pageIndex, limitFilter, nextCursor, isLoading, loadFailed,
                  targetFilter, currentQueryId, auditPast>>
  BY DEF ServeLog
<1>6. LogTypeOK' /\ ReadOK' /\ WholePages'
  BY <1>5 DEF AuditInv, LogTypeOK, ReadOK, LogInOrder, WholePages
<1>7. QueriesOK'
  BY <1>3, <1>4, <1>5 DEF AuditInv, QueriesOK, Current
<1>8. CurrentOK'
  <2> SUFFICES ASSUME NEW q \in logRequests', Current(q)'
               PROVE  /\ q.filter = targetFilter /\ q.cursor = nextCursor
                      /\ q.page # Null => GoesOn(q.page, nextCursor, targetFilter, auditPast.toBeListed)
                      /\ fetchedItems # <<>> => nextCursor # Null
                      /\ ~auditPast.lateTurn =>
                           IF fetchedItems = <<>> THEN q.offset = Null
                           ELSE q.offset = (pageIndex + 1) * limitFilter /\ Len(fetchedItems) <= q.offset
    BY <1>5 DEF CurrentOK
  <2>1. CASE q \in logRequests
    BY <1>5, <2>1 DEF AuditInv, CurrentOK, Current
  <2>2. CASE q = new
    <3>1. Current(r)
      BY <1>4, <1>5, <2>2 DEF Current
    <3>2. auditPast.toBeListed \in SUBSET auditRows /\ \A row \in auditPast.toBeListed : Matches(row, targetFilter)
      BY DEF AuditInv, ReadOK
    <3>3. r.filter = targetFilter /\ r.cursor = nextCursor
      BY <3>1 DEF AuditInv, CurrentOK
    <3>4. GoesOn(page, nextCursor, targetFilter, auditPast.toBeListed)
      BY <1>2, <3>2, <3>3
    <3>5. QED
      BY <1>4, <2>2, <3>1, <3>4 DEF AuditInv, CurrentOK
  <2>3. QED
    BY <1>3, <2>1, <2>2
<1>9. QED
  BY <1>6, <1>7, <1>8 DEF AuditInv

\* What an answer does to the page that is shown.
LEMMA TurnAfterFacts ==
  ASSUME AuditInv, NEW r \in logRequests, TurnAfter(r)
  PROVE  /\ auditPast' \in [toBeListed : SUBSET AuditRow, lateTurn : BOOLEAN]
         /\ auditPast'.toBeListed = auditPast.toBeListed
         /\ pageIndex' \in Nat
         /\ auditPast.lateTurn => auditPast'.lateTurn
         /\ ~Current(r) /\ ~auditPast'.lateTurn => pageIndex' = pageIndex
         /\ Current(r) => pageIndex' = IF r.offset # Null /\ r.offset < Len(fetchedItems') THEN pageIndex + 1 ELSE pageIndex
<1> DEFINE turns == r.offset # Null /\ r.offset < Len(fetchedItems')
           late == auditPast.lateTurn \/ (turns /\ ~Current(r))
<1>1. /\ pageIndex' = IF turns THEN pageIndex + 1 ELSE pageIndex
      /\ auditPast' = [auditPast EXCEPT !.lateTurn = late]
  BY DEF TurnAfter
<1>2. auditPast \in [toBeListed : SUBSET AuditRow, lateTurn : BOOLEAN] /\ pageIndex \in Nat
  BY DEF AuditInv, LogTypeOK
<1>3. late \in BOOLEAN /\ (auditPast.lateTurn => late) /\ (~Current(r) /\ ~late => ~turns)
  OBVIOUS
<1> HIDE DEF late
<1>4. auditPast' \in [toBeListed : SUBSET AuditRow, lateTurn : BOOLEAN]
      /\ auditPast'.toBeListed = auditPast.toBeListed /\ auditPast'.lateTurn = late
  BY <1>1, <1>2, <1>3
<1>5. QED
  BY <1>1, <1>2, <1>3, <1>4

\* An answer that is not heeded; at most it turns the page late.
LEMMA StaleKeeps ==
  ASSUME AuditInv, NEW r \in logRequests, ~Current(r), logRequests' = logRequests \ {r}, TurnAfter(r),
         UNCHANGED <<auditRows, fetchedItems, limitFilter, nextCursor, isLoading, loadFailed, targetFilter,
                     currentQueryId>>
  PROVE  AuditInv'
<1>1. LogTypeOK'
  BY TurnAfterFacts DEF AuditInv, LogTypeOK
<1>2. QueriesOK'
  BY DEF AuditInv, QueriesOK, Current
<1>3. CurrentOK'
  BY TurnAfterFacts DEF AuditInv, CurrentOK, Current
<1>4. ReadOK'
  BY TurnAfterFacts DEF AuditInv, ReadOK, LogInOrder
<1>5. WholePages'
  BY TurnAfterFacts DEF AuditInv, WholePages
<1>6. QED
  BY <1>1, <1>2, <1>3, <1>4, <1>5 DEF AuditInv

\* The query that is heeded ends.
LEMMA QueryEnds ==
  ASSUME AuditInv, NEW r \in logRequests, Current(r), logRequests' = logRequests \ {r}, isLoading' = FALSE,
         UNCHANGED currentQueryId
  PROVE  QueriesOK' /\ CurrentOK'
<1>1. \A q \in logRequests' : ~Current(q)'
  BY DEF AuditInv, QueriesOK, Current
<1>2. QED
  BY <1>1 DEF AuditInv, QueriesOK, CurrentOK

LEMMA LogFailsKeeps ==
  ASSUME AuditInv, NEW r \in logRequests, LogFails(r) PROVE AuditInv'
<1>1. /\ logRequests' = logRequests \ {r} /\ TurnAfter(r)
      /\ UNCHANGED <<auditRows, fetchedItems, limitFilter, nextCursor, targetFilter, currentQueryId>>
  BY DEF LogFails
<1>2. CASE ~Current(r)
  BY <1>1, <1>2, StaleKeeps DEF LogFails
<1>3. CASE Current(r)
  <2>1. isLoading' = FALSE /\ loadFailed' = TRUE
    BY <1>3 DEF LogFails
  <2>2. QueriesOK' /\ CurrentOK'
    BY <1>1, <1>3, <2>1, QueryEnds
  <2>3. LogTypeOK'
    BY <1>1, <2>1, TurnAfterFacts DEF AuditInv, LogTypeOK
  <2>4. ReadOK'
    BY <1>1, <2>1, TurnAfterFacts DEF AuditInv, ReadOK, LogInOrder
  <2>5. ~auditPast'.lateTurn => ~auditPast.lateTurn /\ pageIndex' = pageIndex
    <3> SUFFICES ASSUME ~auditPast'.lateTurn PROVE ~auditPast.lateTurn /\ pageIndex' = pageIndex
      OBVIOUS
    <3>1. ~auditPast.lateTurn
      BY <1>1, TurnAfterFacts
    <3>2. r.offset = Null \/ (Len(fetchedItems) <= r.offset /\ r.offset \in Nat)
      <4>1. r.offset \in Nat \union {Null}
        BY DEF AuditInv, QueriesOK, LogRequests
      <4>2. IF fetchedItems = <<>> THEN r.offset = Null ELSE Len(fetchedItems) <= r.offset
        BY <1>3, <3>1 DEF AuditInv, CurrentOK
      <4>3. QED
        BY <4>1, <4>2
    <3>3. Len(fetchedItems) \in Nat /\ fetchedItems' = fetchedItems
      BY <1>1 DEF AuditInv, LogTypeOK
    <3>4. ~(r.offset # Null /\ r.offset < Len(fetchedItems'))
      BY <3>2, <3>3
    <3>5. pageIndex' = pageIndex
      BY <1>1, <1>3, <3>4, TurnAfterFacts
    <3>6. QED
      BY <3>1, <3>5
  <2>6. WholePages'
    BY <1>1, <2>5 DEF AuditInv, WholePages
  <2>7. QED
    BY <2>2, <2>3, <2>4, <2>6 DEF AuditInv
<1>4. QED
  BY <1>2, <1>3

LEMMA TurnToKeeps ==
  ASSUME AuditInv, NEW index \in Nat, NEW limit \in PageSizes, TurnTo(index, limit),
         index = 0 \/ (index <= pageIndex /\ limit = limitFilter)
  PROVE  AuditInv'
<1>1. /\ ~isLoading /\ pageIndex' = index /\ limitFilter' = limit
      /\ UNCHANGED <<auditRows, fetchedItems, nextCursor, isLoading, loadFailed, targetFilter, logRequests,
                     currentQueryId, auditPast>>
  BY DEF TurnTo
<1>2. LogTypeOK'
  BY <1>1 DEF AuditInv, LogTypeOK
<1>3. QueriesOK'
  BY <1>1 DEF AuditInv, QueriesOK, Current
<1>4. CurrentOK'
  BY <1>1 DEF AuditInv, QueriesOK, CurrentOK, Current
<1>5. ReadOK'
  BY <1>1 DEF AuditInv, ReadOK, LogInOrder
<1>6. ASSUME ~auditPast.lateTurn, fetchedItems # <<>>
      PROVE  /\ index * limit < Len(fetchedItems)
             /\ nextCursor # Null => (index + 1) * limit <= Len(fetchedItems)
  <2>1. /\ limit \in Nat \ {0} /\ limitFilter \in Nat \ {0} /\ pageIndex \in Nat
        /\ Len(fetchedItems) \in Nat /\ Len(fetchedItems) > 0
    BY <1>6, PagesAssumption DEF AuditInv, LogTypeOK
  <2>2. pageIndex * limitFilter < Len(fetchedItems)
    BY <1>6 DEF AuditInv, WholePages
  <2>3. index * limit < Len(fetchedItems)
    <3>1. CASE index = 0
      BY <2>1, <3>1
    <3>2. CASE index <= pageIndex /\ limit = limitFilter
      <4>1. index * limit <= pageIndex * limit /\ pageIndex * limit \in Nat /\ index * limit \in Nat
        BY <2>1, <3>2, PageArithmetic
      <4>2. QED
        BY <2>1, <2>2, <3>2, <4>1
    <3>3. QED
      BY <3>1, <3>2
  <2>4. ASSUME nextCursor # Null PROVE (index + 1) * limit <= Len(fetchedItems)
    <3>1. PICK n \in Nat : Len(fetchedItems) = n * BATCH_SIZE
      BY <2>4 DEF AuditInv, WholePages
    <3>2. QED
      BY <2>3, <3>1, PageIsFull
  <2>5. QED
    BY <2>3, <2>4
<1>7. WholePages'
  BY <1>1, <1>6 DEF AuditInv, WholePages
<1>8. QED
  BY <1>2, <1>3, <1>4, <1>5, <1>7 DEF AuditInv

\* A query is sent when the page is not loading, and what has been read is not at its end.
LEMMA HandleNextKeeps ==
  ASSUME AuditInv, HandleNext PROVE AuditInv'
<1> DEFINE next == (pageIndex + 1) * limitFilter
<1>1. /\ ~isLoading
      /\ UNCHANGED <<auditRows, fetchedItems, limitFilter, nextCursor, targetFilter, auditPast>>
      /\ \/ /\ HasFetched(next) /\ pageIndex' = pageIndex + 1
            /\ UNCHANGED <<isLoading, loadFailed, currentQueryId, logRequests>>
         \/ ~HasFetched(next) /\ nextCursor # Null /\ Fetch(targetFilter, nextCursor, next) /\ UNCHANGED pageIndex
  BY DEF HandleNext
<1>2. /\ limitFilter \in PageSizes /\ limitFilter \in Nat \ {0} /\ pageIndex \in Nat /\ pageIndex + 1 \in Nat
      /\ Len(fetchedItems) \in Nat
  BY PagesAssumption DEF AuditInv, LogTypeOK
<1>3. next \in Nat
  BY <1>2, PageArithmetic
<1> HIDE DEF next
<1>4. CASE HasFetched(next) /\ pageIndex' = pageIndex + 1 /\ UNCHANGED <<isLoading, loadFailed, currentQueryId, logRequests>>
  <2>1. LogTypeOK'
    BY <1>1, <1>2, <1>4 DEF AuditInv, LogTypeOK
  <2>2. QueriesOK' /\ CurrentOK'
    BY <1>1, <1>4 DEF AuditInv, QueriesOK, CurrentOK, Current
  <2>3. ReadOK'
    BY <1>1, <1>4 DEF AuditInv, ReadOK, LogInOrder
  <2>4. pageIndex' * limitFilter < Len(fetchedItems)
    BY <1>4 DEF HasFetched, next
  <2>5. nextCursor # Null => (pageIndex' + 1) * limitFilter <= Len(fetchedItems)
    <3> SUFFICES ASSUME nextCursor # Null PROVE (pageIndex' + 1) * limitFilter <= Len(fetchedItems)
      OBVIOUS
    <3>1. PICK n \in Nat : Len(fetchedItems) = n * BATCH_SIZE
      BY DEF AuditInv, WholePages
    <3>2. pageIndex' \in Nat
      BY <1>2, <1>4
    <3>3. QED
      BY <1>2, <2>4, <3>1, <3>2, PageIsFull
  <2>6. fetchedItems # <<>>
    BY <1>2, <1>3, <1>4 DEF HasFetched
  <2>7. WholePages'
    BY <1>1, <2>4, <2>5, <2>6 DEF AuditInv, WholePages
  <2>8. QED
    BY <2>1, <2>2, <2>3, <2>7 DEF AuditInv
<1>5. CASE ~HasFetched(next) /\ nextCursor # Null /\ Fetch(targetFilter, nextCursor, next) /\ UNCHANGED pageIndex
  <2>1. targetFilter \in Targets \union {Null} /\ nextCursor \in Cursors
    BY DEF AuditInv, LogTypeOK
  <2>2. /\ QueriesOK' /\ currentQueryId' \in Nat /\ isLoading' = TRUE
        /\ \A r \in logRequests' : Current(r)' =>
             r.filter = targetFilter /\ r.cursor = nextCursor /\ r.offset = next /\ r.page = Null
    BY <1>3, <1>5, <2>1, FetchAsks
  <2>3. LogTypeOK'
    BY <1>1, <1>5, <2>2 DEF AuditInv, LogTypeOK
  <2>4. fetchedItems # <<>> /\ Len(fetchedItems) <= next
    BY <1>2, <1>3, <1>5 DEF AuditInv, ReadOK, HasFetched
  <2>5. CurrentOK'
    BY <1>1, <1>5, <2>2, <2>4 DEF CurrentOK, next
  <2>6. ReadOK'
    BY <1>1, <2>4 DEF AuditInv, ReadOK, LogInOrder
  <2>7. WholePages'
    BY <1>1, <1>5 DEF AuditInv, WholePages
  <2>8. QED
    BY <2>2, <2>3, <2>5, <2>6, <2>7 DEF AuditInv
<1>6. QED
  BY <1>1, <1>4, <1>5

\* An answer that is heeded continues what has been read.
LEMMA Continued ==
  ASSUME NEW read \in Seq(AuditRow), NEW items \in Seq(AuditRow), NewestFirst(read), NewestFirst(items),
         NEW cursor, read # <<>> => cursor = Last(read) /\ cursor # Null,
         \A i \in DOMAIN items : Beyond(items[i], cursor)
  PROVE  /\ read \o items \in Seq(AuditRow) /\ Len(read \o items) = Len(read) + Len(items)
         /\ NewestFirst(read \o items)
         /\ \A x : (\E i \in DOMAIN (read \o items) : (read \o items)[i] = x) <=>
                     (\E i \in DOMAIN read : read[i] = x) \/ (\E i \in DOMAIN items : items[i] = x)
         /\ items # <<>> => Last(read \o items) = Last(items)
<1> DEFINE both == read \o items
           L == Len(read)
           M == Len(items)
<1>1. L \in Nat /\ M \in Nat /\ DOMAIN read = 1..L /\ DOMAIN items = 1..M
  OBVIOUS
<1>2. /\ both \in Seq(AuditRow) /\ Len(both) = L + M /\ DOMAIN both = 1..(L + M)
      /\ \A i \in 1..L : both[i] = read[i]
      /\ \A i \in (L + 1)..(L + M) : both[i] = items[i - L]
      /\ \A i \in 1..M : both[L + i] = items[i]
  BY <1>1
<1>3. \A i \in 1..L : read[i] \in AuditRow
  OBVIOUS
<1>4. \A i \in 1..M : items[i] \in AuditRow
  OBVIOUS
<1>5. \A i \in 1..L, j \in 1..M : Newer(read[i], items[j])
  <2> SUFFICES ASSUME NEW i \in 1..L, NEW j \in 1..M PROVE Newer(read[i], items[j])
    OBVIOUS
  <2>1. read # <<>> /\ L \in 1..L /\ Last(read) = read[L]
    BY <1>1 DEF Last
  <2>2. Newer(read[L], items[j])
    BY <1>1, <2>1 DEF Beyond
  <2>3. i = L \/ Newer(read[i], read[L])
    <3> SUFFICES ASSUME i # L PROVE Newer(read[i], read[L])
      OBVIOUS
    <3>1. i \in DOMAIN read /\ L \in DOMAIN read /\ i < L
      <4>1. L \in Nat /\ L \in 1..L /\ DOMAIN read = 1..L
        BY <1>1, <2>1
      <4> HIDE DEF L
      <4>2. i \in Nat /\ i <= L
        BY <4>1
      <4>3. QED
        BY <4>1, <4>2
    <3>2. \A k, l \in DOMAIN read : k < l => Newer(read[k], read[l])
      BY DEF NewestFirst
    <3>3. QED
      BY <3>1, <3>2
  <2>4. read[i] \in AuditRow /\ read[L] \in AuditRow /\ items[j] \in AuditRow
    BY <1>3, <1>4, <2>1
  <2>5. QED
    BY <2>2, <2>3, <2>4, NewerIsOrder
<1>6. NewestFirst(both)
  <2> SUFFICES ASSUME NEW i \in 1..(L + M), NEW j \in 1..(L + M), i < j PROVE Newer(both[i], both[j])
    BY <1>2 DEF NewestFirst
  <2>1. CASE j \in 1..L
    BY <1>1, <1>2, <2>1 DEF NewestFirst
  <2>2. CASE i \in 1..L /\ j \in (L + 1)..(L + M)
    <3>1. j - L \in 1..M /\ both[j] = items[j - L] /\ both[i] = read[i]
      BY <1>1, <1>2, <2>2
    <3>2. QED
      BY <1>5, <2>2, <3>1
  <2>3. CASE i \in (L + 1)..(L + M) /\ j \in (L + 1)..(L + M)
    <3>1. j - L \in 1..M /\ i - L \in 1..M /\ i - L < j - L /\ both[j] = items[j - L] /\ both[i] = items[i - L]
      BY <1>1, <1>2, <2>3
    <3>2. QED
      BY <1>1, <3>1 DEF NewestFirst
  <2>4. QED
    BY <1>1, <2>1, <2>2, <2>3
<1>7. ASSUME NEW x
      PROVE  (\E i \in DOMAIN both : both[i] = x) <=> (\E i \in DOMAIN read : read[i] = x) \/ (\E i \in DOMAIN items : items[i] = x)
  <2>1. ASSUME NEW i \in DOMAIN both, both[i] = x
        PROVE  (\E k \in DOMAIN read : read[k] = x) \/ (\E k \in DOMAIN items : items[k] = x)
    <3>1. CASE i \in 1..L
      BY <1>1, <1>2, <2>1, <3>1
    <3>2. CASE i \in (L + 1)..(L + M)
      <4>1. i - L \in DOMAIN items /\ items[i - L] = x
        BY <1>1, <1>2, <2>1, <3>2
      <4>2. QED
        BY <4>1
    <3>3. QED
      BY <1>1, <1>2, <3>1, <3>2
  <2>2. ASSUME NEW i \in DOMAIN read, read[i] = x PROVE \E k \in DOMAIN both : both[k] = x
    BY <1>1, <1>2, <2>2
  <2>3. ASSUME NEW i \in DOMAIN items, items[i] = x PROVE \E k \in DOMAIN both : both[k] = x
    <3>1. L + i \in DOMAIN both /\ both[L + i] = x
      BY <1>1, <1>2, <2>3
    <3>2. QED
      BY <3>1
  <2>4. QED
    BY <2>1, <2>2, <2>3
<1>8. items # <<>> => Last(both) = Last(items)
  <2> SUFFICES ASSUME items # <<>> PROVE Last(both) = Last(items)
    OBVIOUS
  <2>1. M \in 1..M
    BY <1>1
  <2>2. QED
    BY <1>1, <1>2, <2>1 DEF Last
<1>9. QED
  BY <1>2, <1>6, <1>7, <1>8

\* The answer of the query that is heeded is appended, and turns the page if it was asked to.
LEMMA HeededKeeps ==
  ASSUME AuditInv, NEW r \in logRequests, Current(r), LogArrives(r) PROVE AuditInv'
<1> DEFINE items == r.page.items
           listed == auditPast.toBeListed
<1>1. /\ r.page # Null /\ logRequests' = logRequests \ {r} /\ TurnAfter(r)
      /\ fetchedItems' = fetchedItems \o items /\ nextCursor' = r.page.nextCursor /\ isLoading' = FALSE
      /\ UNCHANGED <<auditRows, loadFailed, limitFilter, targetFilter, currentQueryId>>
  BY DEF LogArrives
<1>2. r \in LogRequests /\ r.page \in LogPages /\ items \in Seq(AuditRow) /\ nextCursor' \in Cursors
  BY <1>1 DEF AuditInv, QueriesOK, LogRequests, LogPages
<1>3. GoesOn(r.page, nextCursor, targetFilter, listed)
  BY <1>1 DEF AuditInv, CurrentOK
<1>4. /\ fetchedItems # <<>> <=> nextCursor # Null
      /\ nextCursor # Null => nextCursor = Last(fetchedItems)
  BY DEF AuditInv, CurrentOK, ReadOK
<1>5. fetchedItems \in Seq(AuditRow) /\ NewestFirst(fetchedItems) /\ NewestFirst(items)
  BY <1>3 DEF AuditInv, LogTypeOK, ReadOK, LogInOrder, NewestFirst, GoesOn
<1>6. /\ Len(items) \in Nat /\ Len(items) <= BATCH_SIZE
      /\ nextCursor' = IF Len(items) = BATCH_SIZE THEN Last(items) ELSE Null
  BY <1>1, <1>2, <1>3 DEF GoesOn
<1>7. \A i \in DOMAIN items : Matches(items[i], targetFilter) /\ Beyond(items[i], nextCursor)
  BY <1>3 DEF GoesOn
<1>8. \A row \in listed :
        \/ ~Beyond(row, nextCursor)
        \/ \E i \in DOMAIN items : items[i] = row
        \/ nextCursor' # Null /\ Newer(nextCursor', row)
  BY <1>1, <1>3 DEF GoesOn
<1>9. Len(fetchedItems) \in Nat /\ (fetchedItems = <<>> <=> Len(fetchedItems) = 0)
  BY <1>5
<1> HIDE DEF items
<1>10. /\ fetchedItems' \in Seq(AuditRow) /\ Len(fetchedItems') = Len(fetchedItems) + Len(items)
       /\ NewestFirst(fetchedItems')
       /\ items # <<>> => Last(fetchedItems') = Last(items)
  BY <1>1, <1>2, <1>4, <1>5, <1>7, Continued
<1>11. \A x : (\E i \in DOMAIN fetchedItems' : fetchedItems'[i] = x) <=>
                (\E i \in DOMAIN fetchedItems : fetchedItems[i] = x) \/ (\E i \in DOMAIN items : items[i] = x)
  <2> DEFINE both == fetchedItems \o items
  <2>1. \A x : (\E i \in DOMAIN both : both[i] = x) <=>
                (\E i \in DOMAIN fetchedItems : fetchedItems[i] = x) \/ (\E i \in DOMAIN items : items[i] = x)
    <3>1. fetchedItems # <<>> => nextCursor = Last(fetchedItems) /\ nextCursor # Null
      BY <1>4
    <3>2. \A i \in DOMAIN items : Beyond(items[i], nextCursor)
      BY <1>7
    <3>3. items \in Seq(AuditRow)
      BY <1>2
    <3>4. QED
      BY <1>5, <3>1, <3>2, <3>3, Continued, Zenon
  <2>2. fetchedItems' = both
    BY <1>1
  <2> HIDE DEF both
  <2>3. QED
    BY <2>1, <2>2
<1>12. fetchedItems' = <<>> <=> Len(fetchedItems') = 0
  BY <1>10
<1>13. items = <<>> <=> Len(items) = 0
  BY <1>2
<1>14. BATCH_SIZE \in Nat \ {0}
  BY PagesAssumption
<1>15. /\ auditPast' \in [toBeListed : SUBSET AuditRow, lateTurn : BOOLEAN]
       /\ auditPast'.toBeListed = listed /\ pageIndex' \in Nat
       /\ auditPast.lateTurn => auditPast'.lateTurn
       /\ pageIndex' = IF r.offset # Null /\ r.offset < Len(fetchedItems') THEN pageIndex + 1 ELSE pageIndex
  BY <1>1, TurnAfterFacts
<1>16. QueriesOK' /\ CurrentOK'
  BY <1>1, QueryEnds
<1>17. LogTypeOK'
  BY <1>1, <1>2, <1>10, <1>15 DEF AuditInv, LogTypeOK
<1>18. ReadOK'
  <2>1. LogInOrder'
    <3>1. \A i, j \in DOMAIN fetchedItems' : i < j => Newer(fetchedItems'[i], fetchedItems'[j])
      BY <1>10 DEF NewestFirst
    <3>2. ASSUME NEW i \in DOMAIN fetchedItems' PROVE Matches(fetchedItems'[i], targetFilter)
      <4>1. \/ \E k \in DOMAIN fetchedItems : fetchedItems[k] = fetchedItems'[i]
            \/ \E k \in DOMAIN items : items[k] = fetchedItems'[i]
        BY <1>11, <3>2
      <4>2. \A k \in DOMAIN fetchedItems : Matches(fetchedItems[k], targetFilter)
        BY DEF AuditInv, ReadOK, LogInOrder
      <4>3. QED
        BY <1>7, <4>1, <4>2
    <3>3. QED
      BY <1>1, <3>1, <3>2 DEF LogInOrder
  <2>2. listed \subseteq auditRows /\ \A row \in listed : Matches(row, targetFilter)
    BY DEF AuditInv, ReadOK
  <2>3. nextCursor' # Null => fetchedItems' # <<>> /\ nextCursor' = Last(fetchedItems')
    BY <1>6, <1>9, <1>10, <1>12, <1>13, <1>14
  <2>4. ASSUME fetchedItems' = <<>> PROVE listed = {}
    <3>1. nextCursor = Null /\ items = <<>> /\ nextCursor' = Null
      BY <1>4, <1>6, <1>9, <1>10, <1>12, <1>13, <1>14, <2>4
    <3>2. \A row \in listed : Beyond(row, nextCursor)
      BY <3>1 DEF Beyond
    <3>3. ~\E i \in DOMAIN items : TRUE
      BY <3>1
    <3>4. QED
      BY <1>8, <3>1, <3>2, <3>3
  <2>5. ASSUME NEW row \in listed
        PROVE  \/ \E i \in DOMAIN fetchedItems' : fetchedItems'[i] = row
               \/ nextCursor' # Null /\ Newer(nextCursor', row)
    <3>1. CASE ~Beyond(row, nextCursor)
      <4>1. nextCursor # Null /\ ~Newer(nextCursor, row)
        BY <3>1 DEF Beyond
      <4>2. \E i \in DOMAIN fetchedItems : fetchedItems[i] = row
        BY <1>4, <4>1 DEF AuditInv, ReadOK
      <4>3. QED
        BY <1>11, <4>2
    <3>2. CASE \E i \in DOMAIN items : items[i] = row
      BY <1>11, <3>2
    <3>3. QED
      BY <1>8, <3>1, <3>2
  <2>6. QED
    BY <1>1, <1>15, <2>1, <2>2, <2>3, <2>4, <2>5 DEF ReadOK
<1>19. ASSUME nextCursor' # Null PROVE \E n \in 0..Len(fetchedItems') : Len(fetchedItems') = n * BATCH_SIZE
  <2>1. Len(items) = BATCH_SIZE
    BY <1>6, <1>19
  <2>2. \E n \in 0..Len(fetchedItems) : Len(fetchedItems) = n * BATCH_SIZE
    <3>1. CASE fetchedItems = <<>>
      <4>1. 0 \in 0..Len(fetchedItems) /\ Len(fetchedItems) = 0 * BATCH_SIZE
        BY <1>9, <1>14, <3>1
      <4>2. QED
        BY <4>1
    <3>2. CASE fetchedItems # <<>>
      BY <1>4, <3>2 DEF AuditInv, WholePages
    <3>3. QED
      BY <3>1, <3>2
  <2>3. PICK n \in 0..Len(fetchedItems) : Len(fetchedItems) = n * BATCH_SIZE
    BY <2>2
  <2>4. (n + 1) * BATCH_SIZE = n * BATCH_SIZE + BATCH_SIZE
    BY <1>14
  <2>5. n + 1 \in 0..Len(fetchedItems') /\ Len(fetchedItems') = (n + 1) * BATCH_SIZE
    BY <1>9, <1>10, <1>14, <2>1, <2>3, <2>4
  <2>6. QED
    BY <2>5
<1>20. limitFilter \in PageSizes /\ limitFilter \in Nat \ {0} /\ pageIndex \in Nat
  BY PagesAssumption DEF AuditInv, LogTypeOK
<1>21. ASSUME ~auditPast'.lateTurn, fetchedItems = <<>>
       PROVE  pageIndex = 0 /\ pageIndex' = 0
  <2>1. ~auditPast.lateTurn
    BY <1>15, <1>21
  <2>2. pageIndex = 0 /\ r.offset = Null
    BY <1>21, <2>1 DEF AuditInv, CurrentOK, WholePages
  <2>3. QED
    BY <1>15, <2>2
<1>22. ASSUME ~auditPast'.lateTurn, fetchedItems' # <<>>
       PROVE  /\ pageIndex' * limitFilter < Len(fetchedItems')
              /\ nextCursor' # Null => (pageIndex' + 1) * limitFilter <= Len(fetchedItems')
  <2>1. ~auditPast.lateTurn
    BY <1>15, <1>22
  <2>2. Len(fetchedItems') \in Nat /\ Len(fetchedItems') > 0 /\ Len(fetchedItems) <= Len(fetchedItems')
    BY <1>6, <1>9, <1>10, <1>12, <1>22
  <2>3. pageIndex' * limitFilter < Len(fetchedItems')
    <3>1. CASE fetchedItems = <<>>
      BY <1>20, <1>21, <1>22, <2>2, <3>1
    <3>2. CASE fetchedItems # <<>>
      <4>1. r.offset = (pageIndex + 1) * limitFilter
        BY <2>1, <3>2 DEF AuditInv, CurrentOK
      <4>2. pageIndex * limitFilter < Len(fetchedItems)
        BY <2>1, <3>2 DEF AuditInv, WholePages
      <4>3. pageIndex * limitFilter \in Nat
        BY <1>20
      <4>4. CASE r.offset # Null /\ r.offset < Len(fetchedItems')
        BY <1>15, <4>1, <4>4
      <4>5. CASE ~(r.offset # Null /\ r.offset < Len(fetchedItems'))
        BY <1>9, <1>15, <2>2, <4>2, <4>3, <4>5
      <4>6. QED
        BY <4>4, <4>5
    <3>3. QED
      BY <3>1, <3>2
  <2>4. ASSUME nextCursor' # Null PROVE (pageIndex' + 1) * limitFilter <= Len(fetchedItems')
    <3>1. PICK n \in 0..Len(fetchedItems') : Len(fetchedItems') = n * BATCH_SIZE
      BY <1>19, <2>4
    <3>2. n \in Nat /\ pageIndex' * limitFilter < n * BATCH_SIZE
      BY <2>2, <2>3, <3>1
    <3>3. (pageIndex' + 1) * limitFilter <= n * BATCH_SIZE
      BY <1>15, <1>20, <3>2, PageIsFull
    <3>4. QED
      BY <3>1, <3>3
  <2>5. QED
    BY <2>3, <2>4
<1>23. ASSUME ~auditPast'.lateTurn, fetchedItems' = <<>> PROVE pageIndex' = 0
  BY <1>6, <1>9, <1>10, <1>12, <1>21, <1>23
<1>24. WholePages'
  BY <1>1, <1>19, <1>22, <1>23 DEF WholePages
<1>25. QED
  BY <1>16, <1>17, <1>18, <1>24 DEF AuditInv

LEMMA LogArrivesKeeps ==
  ASSUME AuditInv, NEW r \in logRequests, LogArrives(r) PROVE AuditInv'
<1>1. CASE Current(r)
  BY <1>1, HeededKeeps
<1>2. CASE ~Current(r)
  BY <1>2, StaleKeeps DEF LogArrives
<1>3. QED
  BY <1>1, <1>2

LEMMA AuditLogNextKeeps == AuditInv /\ [AuditLogNext]_auditLogVars => AuditInv'
<1> SUFFICES ASSUME AuditInv, [AuditLogNext]_auditLogVars PROVE AuditInv'
  OBVIOUS
<1>1. pageIndex \in Nat /\ limitFilter \in PageSizes /\ DefaultPageSize \in PageSizes
  BY PagesAssumption DEF AuditInv, LogTypeOK
<1>2. ASSUME UNCHANGED <<auditRows, readerVars, auditPast>> PROVE AuditInv'
  <2>1. LogTypeOK' /\ QueriesOK'
    BY <1>2 DEF AuditInv, LogTypeOK, QueriesOK, Current, readerVars
  <2>2. CurrentOK' /\ WholePages'
    BY <1>2 DEF AuditInv, CurrentOK, WholePages, Current, readerVars
  <2>3. ReadOK'
    BY <1>2 DEF AuditInv, ReadOK, LogInOrder, readerVars
  <2>4. QED
    BY <2>1, <2>2, <2>3 DEF AuditInv
<1>3. ASSUME NEW row \in AuditRow, WriteAudit(row) PROVE AuditInv'
  BY <1>3, WriteAuditKeeps
<1>4. ASSUME NEW filter \in Targets, HandleFilterChange(filter) PROVE AuditInv'
  <2>1. /\ targetFilter' = filter /\ ResetAndLoad(filter) /\ UNCHANGED <<auditRows, limitFilter>>
    BY <1>4 DEF HandleFilterChange
  <2>2. QED
    BY <1>1, <1>4, <2>1, ResetKeeps
<1>5. ASSUME ClearAuditFilters PROVE AuditInv'
  <2>1. /\ targetFilter' = Null /\ ResetAndLoad(Null) /\ UNCHANGED auditRows /\ limitFilter' = DefaultPageSize
    BY <1>5 DEF ClearAuditFilters
  <2>2. QED
    BY <1>1, <2>1, ResetKeeps
<1>6. ASSUME NEW r \in logRequests, ServeLog(r) \/ LogArrives(r) \/ LogFails(r) PROVE AuditInv'
  BY <1>6, ServeLogKeeps, LogArrivesKeeps, LogFailsKeeps
<1>7. ASSUME HandleNext PROVE AuditInv'
  BY <1>7, HandleNextKeeps
<1>8. ASSUME HandlePrev PROVE AuditInv'
  <2>1. pageIndex - 1 \in Nat /\ pageIndex - 1 <= pageIndex /\ TurnTo(pageIndex - 1, limitFilter)
    BY <1>1, <1>8 DEF HandlePrev
  <2>2. QED
    BY <1>1, <2>1, TurnToKeeps
<1>9. ASSUME NEW limit \in PageSizes, HandlePageSizeChange(limit) PROVE AuditInv'
  <2>1. TurnTo(0, limit) /\ 0 \in Nat
    BY <1>9 DEF HandlePageSizeChange
  <2>2. QED
    BY <1>9, <2>1, TurnToKeeps
<1>10. ASSUME NEW row, ToggleExpand(row) PROVE AuditInv'
  BY <1>2, <1>10 DEF ToggleExpand
<1>11. ASSUME NEW t \in Targets, TargetNameResolved(t) PROVE AuditInv'
  BY <1>2, <1>11 DEF TargetNameResolved
<1>12. CASE UNCHANGED auditLogVars
  BY <1>2, <1>12 DEF auditLogVars
<1>13. CASE AuditLogNext
  BY <1>3, <1>4, <1>5, <1>6, <1>7, <1>8, <1>9, <1>10, <1>11, <1>13 DEF AuditLogNext
<1>14. QED
  BY <1>12, <1>13

\* A page of whole ones is full, the last one is not empty.
LEMMA AuditInvShows == AuditInv => AuditLogCorrect
<1> SUFFICES ASSUME AuditInv PROVE AuditLogCorrect
  OBVIOUS
<1>1. LogInOrder
  BY DEF AuditInv, ReadOK
<1>2. LogComplete
  <2> SUFFICES ASSUME NEW row \in auditPast.toBeListed
               PROVE  \/ row \in ToSet(fetchedItems)
                      \/ fetchedItems = <<>> /\ (isLoading \/ loadFailed)
                      \/ fetchedItems # <<>> /\ nextCursor # Null /\ Newer(Last(fetchedItems), row)
    BY DEF LogComplete
  <2>1. CASE fetchedItems = <<>>
    BY <2>1 DEF AuditInv, ReadOK
  <2>2. CASE fetchedItems # <<>>
    <3>1. CASE \E i \in DOMAIN fetchedItems : fetchedItems[i] = row
      BY <3>1 DEF ToSet
    <3>2. CASE nextCursor # Null /\ Newer(nextCursor, row)
      BY <2>2, <3>2 DEF AuditInv, ReadOK
    <3>3. QED
      BY <2>2, <3>1, <3>2 DEF AuditInv, ReadOK
  <2>3. QED
    BY <2>1, <2>2
<1>3. PageShown
  <2> SUFFICES ASSUME ~auditPast.lateTurn, ~(fetchedItems = <<>> /\ pageIndex = 0)
               PROVE  DisplayedItems # <<>> /\ (nextCursor # Null => Len(DisplayedItems) = limitFilter)
    BY DEF PageShown
  <2> DEFINE first == pageIndex * limitFilter + 1
             L == Len(fetchedItems)
             last == IF first + limitFilter - 1 < L THEN first + limitFilter - 1 ELSE L
  <2>1. pageIndex \in Nat /\ limitFilter \in Nat \ {0} /\ L \in Nat /\ fetchedItems \in Seq(AuditRow)
    BY PagesAssumption DEF AuditInv, LogTypeOK
  <2>2. fetchedItems # <<>> /\ pageIndex * limitFilter < L
    BY DEF AuditInv, WholePages
  <2>3. nextCursor # Null => (pageIndex + 1) * limitFilter <= L
    BY <2>2 DEF AuditInv, WholePages
  <2>4. pageIndex * limitFilter \in Nat /\ (pageIndex + 1) * limitFilter = pageIndex * limitFilter + limitFilter
    BY <2>1
  <2>5. first \in Nat /\ first >= 1 /\ first <= L
    BY <2>1, <2>2, <2>4
  <2>6. DisplayedItems = SubSeq(fetchedItems, first, last)
    BY DEF DisplayedItems
  <2>7. nextCursor # Null => first + limitFilter - 1 <= L
    BY <2>1, <2>3, <2>4
  <2> HIDE DEF first, L
  <2>8. last \in Nat /\ first <= last /\ last <= L /\ (nextCursor # Null => last = first + limitFilter - 1)
    BY <2>1, <2>5, <2>7
  <2> HIDE DEF last
  <2>9. Len(SubSeq(fetchedItems, first, last)) = last - first + 1
    BY <2>1, <2>5, <2>8 DEF L
  <2>10. Len(DisplayedItems) = last - first + 1
    BY <2>6, <2>9
  <2>11. DisplayedItems # <<>>
    <3>1. Len(DisplayedItems) # 0
      BY <2>5, <2>8, <2>10
    <3>2. QED
      BY <3>1
  <2>12. nextCursor # Null => Len(DisplayedItems) = limitFilter
    BY <2>1, <2>5, <2>8, <2>10
  <2>13. QED
    BY <2>11, <2>12
<1>4. QED
  BY <1>1, <1>2, <1>3 DEF AuditLogCorrect

\* For any log and any number of steps: the page of the audit log shows it newest first,
\* passes no row over, and every page it shows is full but the last one.
THEOREM AuditLogIsLog == AuditLogSpec => []AuditLogCorrect
<1>1. AuditLogSpec => []AuditInv
  BY AuditInitInv, AuditLogNextKeeps, PTL DEF AuditLogSpec
<1>2. QED
  BY <1>1, AuditInvShows, PTL

-----------------------------------------------------------------------------
(* The whole. *)

\* A behaviour of the whole is a behaviour of each part, which rests when it is about another.
LEMMA AdministrationParts ==
  AdministrationSpec =>
    /\ UsersPageSpec /\ ElectionPageSpec /\ AuditLogSpec /\ RosterImportSpec
    /\ AccountsSpec /\ ElectionsSpec /\ RosterParsingSpec
<1>1. AdministrationInit =>
        /\ UsersPageInit /\ ElectionPageInit /\ AuditLogInit /\ RosterImportInit
        /\ AccountsInit /\ ElectionsInit /\ RosterParsingInit
  BY DEF AdministrationInit
<1>2. ASSUME [AdministrationNext]_<<part, pagesVars, serversVars>>
      PROVE  /\ [UsersPageNext]_usersPageVars /\ [ElectionPageNext]_electionPageVars
             /\ [AuditLogNext]_auditLogVars /\ [RosterImportNext]_rosterImportVars
             /\ [AccountsNext]_accountsVars /\ [ElectionsNext]_electionVars
             /\ [RosterParsingNext]_rosterParsingVars
  BY <1>2 DEF AdministrationNext, pagesVars, serversVars
<1>3. QED
  BY <1>1, <1>2, PTL DEF AdministrationSpec, UsersPageSpec, ElectionPageSpec, AccountsSpec,
     AuditLogSpec, RosterImportSpec, ElectionsSpec, RosterParsingSpec

\* Whatever part a behaviour is about, open elections have a window, voting that is over
\* resumes only by way of a draft and is displaced only then, administrators remain and are
\* made by super administrators only, rosters are read rightly, imports tell the truth and
\* hand over the credentials they made, the pages of accounts and of an election show and
\* send what is theirs, and the page of the audit log shows the log.
THEOREM AdministrationCorrect ==
  AdministrationSpec =>
    /\ [](/\ OpenHasWindow /\ AdministrationKept /\ ImportAnswersTrue /\ UsersPageCorrect
          /\ RostersReadRightly /\ ImportCorrect /\ ElectionPageCorrect /\ AuditLogCorrect)
    /\ NoSilentResume /\ NoEarlyDisplacement
<1>1. ElectionsSpec => []OpenHasWindow /\ NoSilentResume /\ NoEarlyDisplacement
  BY WindowCorrect, NoSilentResumeCorrect, NoEarlyDisplacementCorrect
<1>2. QED
  BY <1>1, AdministrationParts, AdministrationKeptTheorem, ImportAnswersTrueTheorem, UsersPageShowsOwn,
     RostersRead, RosterImported, ElectionPageShowsOwn, AuditLogIsLog, PTL
=============================================================================
