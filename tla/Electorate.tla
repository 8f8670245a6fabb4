----------------------------- MODULE Electorate ------------------------------
(***************************************************************************)
(* The voter accounts (accounts joined with users, role "user") and the    *)
(* freeze that protects them while an election is open. An account row and *)
(* its users row are inserted and deleted together, so one state stands for*)
(* both; a student keeps one identity (studentId) across accounts.         *)
(***************************************************************************)
EXTENDS Elections

CONSTANTS
  AccountIds,    \* identities that may ever be given to a voter account
  StudentIds,    \* the students, as the hash normalises their ID
  CandidateAccounts \* the accounts that stand, or ever stood, as candidates

VARIABLES
  account,       \* AccountIds -> [state, student, bySuperAdmin]
  electorate     \* ElectionIds -> the accounts counted in eligibleVotersCount

electorateVars == <<account, electorate>>

AccountRow == [state : {"unborn", "active", "archived", "deleted"},
               student : StudentIds \union {Null}, bySuperAdmin : BOOLEAN]

ElectorateTypeOK ==
  /\ account \in [AccountIds -> AccountRow]
  /\ electorate \in [ElectionIds -> SUBSET AccountIds]

ActiveAccounts == {a \in AccountIds : account[a].state = "active"}

\* The row of `users' exists: archiving keeps it, a hard delete removes it.
HasUserRow(a) == account[a].state \in {"active", "archived"}

\* assertElectorateMutable, on a Worker whose clock shows t.
ElectorateMutable(t) ==
  \A e \in OpenElections : EffectiveStatus(election[e], t) = "closed"

-----------------------------------------------------------------------------
\* Mutant: accounts may be created while the electorate is frozen.
CreateAccountUnfrozen(a, s, bySuperAdmin, t) ==
  /\ account[a].state = "unborn"
  /\ \A b \in AccountIds : HasUserRow(b) => account[b].student # s
  /\ account' = [account EXCEPT ![a] =
                   [state |-> "active", student |-> s, bySuperAdmin |-> bySuperAdmin]]
  /\ UNCHANGED electorate

\* register and bulkImport: a super admin may register a single voter even
\* while the electorate is frozen.
CreateAccount(a, s, bySuperAdmin, t) ==
  /\ bySuperAdmin \/ ElectorateMutable(t)
  /\ account[a].state = "unborn"
  /\ \A b \in AccountIds : HasUserRow(b) => account[b].student # s
  /\ account' = [account EXCEPT ![a] =
                   [state |-> "active", student |-> s, bySuperAdmin |-> bySuperAdmin]]
  /\ UNCHANGED electorate

SoftDelete(a, t) ==
  /\ account[a].state = "active"
  /\ ElectorateMutable(t)
  /\ account' = [account EXCEPT ![a].state = "archived"]
  /\ UNCHANGED electorate

Restore(a, t) ==
  /\ account[a].state = "archived"
  /\ ElectorateMutable(t)
  /\ account' = [account EXCEPT ![a].state = "active"]
  /\ UNCHANGED electorate

HardDelete(a, t) ==
  /\ HasUserRow(a)
  /\ a \notin CandidateAccounts
  /\ ElectorateMutable(t)
  /\ account' = [account EXCEPT ![a].state = "deleted"]
  /\ UNCHANGED electorate

\* Opening a draft counts the active voters inside the same transaction.
SnapshotElectorate(e, to) ==
  /\ electorate' = IF to = "open" THEN [electorate EXCEPT ![e] = ActiveAccounts] ELSE electorate
  /\ UNCHANGED account

-----------------------------------------------------------------------------
ManageAccounts ==
  \E a \in AccountIds, t \in WorkerClock :
    \/ \E s \in StudentIds, bySuperAdmin \in BOOLEAN : CreateAccount(a, s, bySuperAdmin, t)
    \/ SoftDelete(a, t)
    \/ Restore(a, t)
    \/ HardDelete(a, t)
=============================================================================
