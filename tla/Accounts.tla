------------------------------ MODULE Accounts -------------------------------
(***************************************************************************)
(* The administration of accounts (UserLifecycleCoordinator with its       *)
(* handlers), request by request. A request is authenticated first, and    *)
(* carries the role its actor had then to its end, whatever happens to the *)
(* actor meanwhile. Archiving, restoring, deleting and updating are one    *)
(* transaction; registering and importing read before theirs, and rely on  *)
(* the unique indexes for what has changed since.                          *)
(*                                                                         *)
(* Electorate models the effect of the same calls on elections; here the   *)
(* freeze is a flag the elections set. Passwords and lockout are in        *)
(* Credentials. A user name is a base, made from the person's name, and a  *)
(* number, 0 standing for the bare base.                                   *)
(***************************************************************************)
EXTENDS Absence, Integers, Sequences, FiniteSets, SequencesExt

CONSTANTS
  AccountIds, RequestIds, StudentIds, BaseNames,
  Beginnings,       \* the starts: AccountIds -> the role of an administrator, or Null
  CandidateAccounts,\* the accounts with candidacies
  ImportLists,      \* the lists of records that may be imported
  GivenNames,       \* bound: the user names that administrators type in
  MaxNumber         \* bound: the numbers that are appended to user names

AdminRoles == {"admin", "super_admin"}
Roles == AdminRoles \union {"user"}

ASSUME AccountsAssumption ==
  /\ IsFiniteSet(AccountIds)
  /\ Null \notin Roles \union RequestIds
  /\ Beginnings \subseteq [AccountIds -> AdminRoles \union {Null}]
  /\ \A first \in Beginnings : \E a \in AccountIds : first[a] = "super_admin"
  /\ \A list \in ImportLists : list \in Seq(ToSet(list))

VARIABLES
  accountRow,       \* AccountIds -> the rows of accounts and users
  accountRequest,   \* RequestIds -> what the request has done so far
  electorateFrozen, \* an election is open
  overtaken         \* history: a change made for an actor archived or deleted meanwhile

accountsVars == <<accountRow, accountRequest, electorateFrozen, overtaken>>

NoAccount == [state |-> "unborn", role |-> "user", student |-> Null, name |-> Null, by |-> Null]

NoAnswer == [result |-> "none", imported |-> {}, skipped |-> {}]

IdleRequest == [phase |-> "idle", op |-> "none", actor |-> Null, role |-> "user",
                student |-> Null, newRole |-> "user", name |-> Null, list |-> << >>,
                names |-> {}, students |-> {}, answer |-> NoAnswer]

Exists(a) == accountRow[a].state \in {"active", "archived"}

Active(a) == accountRow[a].state = "active"

IsAdmin(a) == accountRow[a].role \in AdminRoles

ActiveAdmins == {a \in AccountIds : Active(a) /\ IsAdmin(a)}

ActiveSuperAdmins == {a \in ActiveAdmins : accountRow[a].role = "super_admin"}

\* What `like base%' and `inArray' find.
TakenNames == {accountRow[a].name : a \in {b \in AccountIds : Exists(b)}}

KnownStudents == {accountRow[a].student : a \in {b \in AccountIds : Exists(b)}}

FreeIds == {a \in AccountIds : accountRow[a].state = "unborn"}

\* The first free one of base, base.1, base.2, ...
FirstFreeName(base, taken) ==
  <<base, CHOOSE n \in 0..MaxNumber :
            /\ <<base, n>> \notin taken
            /\ \A m \in 0..MaxNumber : m < n => <<base, m>> \in taken>>

-----------------------------------------------------------------------------
\* The auth middleware and the role check of the handler: a live session of an
\* account that is not archived. The request remembers the role.
Authenticate(r, actor, op) ==
  /\ accountRequest[r].phase = "idle"
  /\ Active(actor) /\ accountRow[actor].role \in AdminRoles
  /\ accountRequest' = [accountRequest EXCEPT
       ![r] = [IdleRequest EXCEPT !.phase = "authenticated", !.op = op, !.actor = actor,
                                  !.role = accountRow[actor].role]]
  /\ UNCHANGED <<accountRow, electorateFrozen, overtaken>>

Arrived(r, op) == accountRequest[r].phase = "authenticated" /\ accountRequest[r].op = op

\* Mutant: any administrator makes administrators.
MayRegisterAnyRole(r, role) == accountRequest[r].role = "super_admin" \/ ~electorateFrozen

\* Only super administrators make administrators, and only they ignore the freeze.
MayRegister(r, role) ==
  accountRequest[r].role = "super_admin" \/ (role = "user" /\ ~electorateFrozen)

\* A voter or an administrator is to be registered under a name that was typed in or,
\* without one, under the first free one. A request that is refused here changes nothing.
BeginRegister(r, s, role, name) ==
  /\ Arrived(r, "register") /\ MayRegister(r, role)
  /\ s \notin KnownStudents /\ name \notin TakenNames
  /\ accountRequest' = [accountRequest EXCEPT
       ![r].phase = "committing", ![r].student = s, ![r].newRole = role, ![r].name = name]
  /\ UNCHANGED <<accountRow, electorateFrozen, overtaken>>

Answer(r, answer) ==
  LET request == accountRequest[r]
  IN accountRequest' = [accountRequest EXCEPT
       ![r] = [request EXCEPT !.phase = "done", !.answer = answer, !.names = {}, !.students = {}]]

Refuse(r) == Answer(r, [NoAnswer EXCEPT !.result = "refused"]) /\ UNCHANGED <<accountRow, overtaken>>

Accept(r) == Answer(r, [NoAnswer EXCEPT !.result = "ok"])

\* Every change notes whether its actor is still who the request was checked for.
NoteActor(r) == overtaken' = (overtaken \/ ~Active(accountRequest[r].actor))

\* The transaction of register: the freeze again, then both rows, whose unique
\* indexes refuse a name or a student that has come up meanwhile.
CommitRegister(r) ==
  LET q == accountRequest[r]
  IN /\ q.phase = "committing" /\ q.op = "register"
     /\ \/ /\ q.role = "super_admin" \/ ~electorateFrozen
           /\ q.name \notin TakenNames /\ q.student \notin KnownStudents
           /\ \E a \in FreeIds :
                accountRow' = [accountRow EXCEPT
                  ![a] = [state |-> "active", role |-> q.newRole, student |-> q.student,
                          name |-> q.name, by |-> r]]
           /\ Accept(r) /\ NoteActor(r)
        \/ /\ \/ q.role # "super_admin" /\ electorateFrozen
              \/ q.name \in TakenNames \/ q.student \in KnownStudents
           /\ Refuse(r)
     /\ UNCHANGED electorateFrozen

-----------------------------------------------------------------------------
\* What bulkImport makes of its list with what it has read: `plan' pairs the students
\* it will create with their names; the others are skipped.
ImportStep(plan, record) ==
  IF record.student \in plan.students THEN [plan EXCEPT !.skipped = @ \union {record.student}]
  ELSE IF record.profane
  THEN [plan EXCEPT !.students = @ \union {record.student}, !.skipped = @ \union {record.student}]
  ELSE LET name == FirstFreeName(record.base, plan.names)
       IN [plan EXCEPT !.students = @ \union {record.student}, !.names = @ \union {name},
                       !.imported = @ \union {<<record.student, name>>}]

ImportPlan(list, students, names) ==
  LET plan[n \in 0..Len(list)] ==
        IF n = 0 THEN [students |-> students, names |-> names, imported |-> {}, skipped |-> {}]
        ELSE ImportStep(plan[n - 1], list[n])
  IN plan[Len(list)]

BeginImport(r, list) ==
  /\ Arrived(r, "import")
  /\ ~electorateFrozen
  /\ accountRequest' = [accountRequest EXCEPT
       ![r].phase = "reading", ![r].list = list, ![r].students = KnownStudents]
  /\ UNCHANGED <<accountRow, electorateFrozen, overtaken>>

ReadNames(r) ==
  /\ accountRequest[r].phase = "reading"
  /\ accountRequest' = [accountRequest EXCEPT ![r].phase = "committing", ![r].names = TakenNames]
  /\ UNCHANGED <<accountRow, electorateFrozen, overtaken>>

\* Mutant: a list whose students exist by now is imported without them, and the
\* answer still lists them.
CommitImportPartly(r) ==
  LET q == accountRequest[r]
      plan == ImportPlan(q.list, q.students, q.names)
      fresh == {p \in plan.imported : p[1] \notin KnownStudents /\ p[2] \notin TakenNames}
  IN /\ q.phase = "committing" /\ q.op = "import"
     /\ IF electorateFrozen THEN Refuse(r)
        ELSE /\ \E ids \in [fresh -> FreeIds] :
                  /\ \A p1, p2 \in fresh : p1 # p2 => ids[p1] # ids[p2]
                  /\ accountRow' = [a \in AccountIds |->
                       IF \E p \in fresh : ids[p] = a
                       THEN LET p == CHOOSE p \in fresh : ids[p] = a
                            IN [state |-> "active", role |-> "user", student |-> p[1], name |-> p[2], by |-> r]
                       ELSE accountRow[a]]
             /\ Answer(r, [result |-> "ok", imported |-> plan.imported, skipped |-> plan.skipped])
             /\ NoteActor(r)
     /\ UNCHANGED electorateFrozen

\* The transaction of bulkImport inserts all of the plan or, at the first row that an
\* index refuses, nothing (IMPORT_CONFLICT). With nothing to insert there is none.
CommitImport(r) ==
  LET q == accountRequest[r]
      plan == ImportPlan(q.list, q.students, q.names)
      collides == \E p \in plan.imported : p[1] \in KnownStudents \/ p[2] \in TakenNames
  IN /\ q.phase = "committing" /\ q.op = "import"
     /\ IF plan.imported # {} /\ (electorateFrozen \/ collides) THEN Refuse(r)
        ELSE /\ \E ids \in [plan.imported -> FreeIds] :
                  /\ \A p1, p2 \in plan.imported : p1 # p2 => ids[p1] # ids[p2]
                  /\ accountRow' = [a \in AccountIds |->
                       IF \E p \in plan.imported : ids[p] = a
                       THEN LET p == CHOOSE p \in plan.imported : ids[p] = a
                            IN [state |-> "active", role |-> "user", student |-> p[1], name |-> p[2], by |-> r]
                       ELSE accountRow[a]]
             /\ Answer(r, [result |-> "ok", imported |-> plan.imported, skipped |-> plan.skipped])
             /\ NoteActor(r)
     /\ UNCHANGED electorateFrozen

-----------------------------------------------------------------------------
\* The rule of ranks: administrators are changed for super administrators only.
MayChange(r, a) == IsAdmin(a) => accountRequest[r].role = "super_admin"

\* Mutant: archived administrators count too.
MoreThanOneAdminRow == Cardinality({a \in AccountIds : Exists(a) /\ IsAdmin(a)}) > 1

\* countActiveAdminsAndSuperAdmins
MoreThanOneAdmin == Cardinality(ActiveAdmins) > 1

MayChangeElectorate(a) == accountRow[a].role = "user" => ~electorateFrozen

\* Mutant: an administrator may archive the own account.
MayArchiveSelf(r, a) ==
  /\ Active(a) /\ MayChange(r, a)
  /\ IsAdmin(a) => MoreThanOneAdmin
  /\ MayChangeElectorate(a)

MayArchive(r, a) ==
  /\ Active(a) /\ accountRequest[r].actor # a /\ MayChange(r, a)
  /\ IsAdmin(a) => MoreThanOneAdmin
  /\ MayChangeElectorate(a)

SoftDeleteAccount(r, a) ==
  /\ Arrived(r, "archive")
  /\ IF MayArchive(r, a)
     THEN /\ accountRow' = [accountRow EXCEPT ![a].state = "archived"]
          /\ Accept(r) /\ NoteActor(r)
     ELSE Refuse(r)
  /\ UNCHANGED electorateFrozen

RestoreAccount(r, a) ==
  /\ Arrived(r, "restore")
  /\ IF accountRow[a].state = "archived" /\ MayChange(r, a) /\ MayChangeElectorate(a)
     THEN /\ accountRow' = [accountRow EXCEPT ![a].state = "active"]
          /\ Accept(r) /\ NoteActor(r)
     ELSE Refuse(r)
  /\ UNCHANGED electorateFrozen

\* An archived administrator does not count, so it may go in any case.
MayDelete(r, a) ==
  /\ Exists(a) /\ accountRequest[r].actor # a /\ MayChange(r, a)
  /\ (IsAdmin(a) /\ Active(a)) => MoreThanOneAdmin
  /\ a \notin CandidateAccounts
  /\ ~electorateFrozen

HardDeleteAccount(r, a) ==
  /\ Arrived(r, "delete")
  /\ IF MayDelete(r, a)
     THEN /\ accountRow' = [accountRow EXCEPT ![a].state = "deleted"]
          /\ Accept(r) /\ NoteActor(r)
     ELSE Refuse(r)
  /\ UNCHANGED electorateFrozen

\* An update changes the name and the profile, never the role.
UpdateAccount(r, a, name) ==
  /\ Arrived(r, "update")
  /\ IF Exists(a) /\ MayChange(r, a)
          /\ \A b \in AccountIds \ {a} : Exists(b) => accountRow[b].name # name
     THEN /\ accountRow' = [accountRow EXCEPT ![a].name = name]
          /\ Accept(r) /\ NoteActor(r)
     ELSE Refuse(r)
  /\ UNCHANGED electorateFrozen

\* An election is opened or closed.
ElectionTurns ==
  /\ electorateFrozen' = ~electorateFrozen
  /\ UNCHANGED <<accountRow, accountRequest, overtaken>>

-----------------------------------------------------------------------------
FirstRows(first) ==
  [a \in AccountIds |->
     IF first[a] = Null THEN NoAccount
     ELSE [NoAccount EXCEPT !.state = "active", !.role = first[a], !.student = a, !.name = a]]

AccountsInit ==
  /\ \E first \in Beginnings : accountRow = FirstRows(first)
  /\ accountRequest = [r \in RequestIds |-> IdleRequest]
  /\ electorateFrozen = FALSE /\ overtaken = FALSE

HandleRequest(r) ==
  \/ \E actor \in AccountIds, op \in {"register", "import", "archive", "restore", "delete", "update"} :
       Authenticate(r, actor, op)
  \/ \E s \in StudentIds, role \in Roles :
       \/ \E name \in GivenNames : BeginRegister(r, s, role, name)
       \/ \E base \in BaseNames : BeginRegister(r, s, role, FirstFreeName(base, TakenNames))
  \/ CommitRegister(r)
  \/ \E list \in ImportLists : BeginImport(r, list)
  \/ ReadNames(r)
  \/ CommitImport(r)
  \/ \E a \in AccountIds :
       \/ SoftDeleteAccount(r, a) \/ RestoreAccount(r, a) \/ HardDeleteAccount(r, a)
       \/ \E name \in GivenNames : UpdateAccount(r, a, name)

AccountsNext == ElectionTurns \/ \E r \in RequestIds : HandleRequest(r)

AccountsSpec == AccountsInit /\ [][AccountsNext]_accountsVars

-----------------------------------------------------------------------------
\* Whatever requests run at the same time and in whatever order they commit, somebody
\* can administer the system (softDelete, hardDelete).
AdministratorRemains == ActiveAdmins # {}

\* A super administrator goes for good only when one of two super administrators acts
\* for an actor who is not active any more: the guards count administrators of both
\* ranks, and nobody archives the own account.
SuperAdministratorRemains == ActiveSuperAdmins = {} => overtaken

\* Only a request authenticated as a super administrator ever makes an administrator,
\* and no account changes its rank.
AdministratorsBySuper ==
  \A a \in AccountIds :
    (Exists(a) /\ IsAdmin(a) /\ accountRow[a].by # Null)
      => accountRequest[accountRow[a].by].role = "super_admin"

\* An import that answers has said the truth: every record is listed once, as imported
\* or as skipped, and each imported student has got an account under the name that goes
\* with the password in the answer, at least until it is changed or deleted.
ImportAnswersTrue ==
  \A r \in RequestIds :
    LET q == accountRequest[r]
        importedStudents == {p[1] : p \in q.answer.imported}
    IN (q.phase = "done" /\ q.op = "import" /\ q.answer.result = "ok") =>
         /\ {q.list[i].student : i \in DOMAIN q.list} = importedStudents \union q.answer.skipped
         /\ {accountRow[a].student : a \in {b \in AccountIds : accountRow[b].by = r}} = importedStudents

\* The system stays in the hands of administrators, and of those that a super
\* administrator has made (UserLifecycleCoordinator's checks and transactions together).
AdministrationKept == AdministratorRemains /\ SuperAdministratorRemains /\ AdministratorsBySuper
=============================================================================
