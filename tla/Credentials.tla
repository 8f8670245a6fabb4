------------------------------ MODULE Credentials ------------------------------
(***************************************************************************)
(* Passwords, sessions and the login lockout. A login and a change of      *)
(* password read the stored hash, spend a long time in PBKDF2 and only     *)
(* then write; no transaction spans the two. What protects the later write *)
(* is its WHERE clause: it names the hash that was verified. Resets and    *)
(* the archiving of accounts are single transactions.                      *)
(*                                                                         *)
(* Time is left out but for its effect on failed attempts: one is `recent' *)
(* while it is inside the lockout window and `expired' afterwards.         *)
(***************************************************************************)
EXTENDS Integers, FiniteSets

CONSTANTS
  AccountIds,    \* identities that may ever be given to an account
  StudentIds,    \* the student numbers that people log in with
  Clients,       \* the client addresses
  Passwords,
  LoginIds,      \* the login requests
  ChangeIds,     \* the requests to change one's own password
  Null,          \* nothing yet
  LockoutLimit,  \* failed attempts that lock a client out (5 in the code)
  Workers,       \* bound: logins that are under way at the same time
  MaxSalts       \* bound: how many hashes are ever computed

ASSUME LockoutAssumption == LockoutLimit \in Nat \ {0} /\ Workers \in Nat \ {0} /\ MaxSalts \in Nat
ASSUME RequestsAssumption == IsFiniteSet(LoginIds) /\ LoginIds \intersect ChangeIds = {}
ASSUME NullAssumption == Null \notin AccountIds \union StudentIds \union Clients \union Passwords

VARIABLES
  credential,    \* AccountIds -> [state, student, hash]
  sessions,      \* the rows of sessions, named by the request that opened them
  login,         \* LoginIds -> the request and what it has read so far
  change,        \* ChangeIds -> likewise
  attempt,       \* LoginIds -> the row of login_attempts the request left
  salts,         \* how many hashes have been computed: salts are never reused
  disturbed      \* history: the logins whose account was reset, changed, archived
                 \* or deleted after they had read it

accountVars == <<credential, sessions, salts, disturbed>>
vars == <<accountVars, login, change, attempt>>

\* A hash with its salt. Policy "legacy" verifies and is to be upgraded, a hash
\* of policy "unsupported" verifies nothing.
Hash == [password : Passwords \union {Null}, salt : 0..MaxSalts,
         policy : {"current", "legacy", "unsupported"}]

NoHash == [password |-> Null, salt |-> 0, policy |-> "current"]

Account == [state : {"unborn", "active", "archived", "deleted"},
            student : StudentIds \union {Null}, hash : Hash]

NoAccount == [state |-> "unborn", student |-> Null, hash |-> NoHash]

\* A session and the password its owner presented to get it.
Session == [by : LoginIds \union ChangeIds, account : AccountIds, password : Passwords]

LoginOutcomes == {"RATE_LIMITED_ACCOUNT", "INVALID_CREDENTIALS", "logged_in"}
LoginSteps == {"received", "cleaned", "admitted", "failing", "outdated", "verified", "cleared"}

LoginRow ==
  [phase : {"idle"} \union LoginSteps \union LoginOutcomes,
   student : StudentIds \union {Null}, client : Clients \union {Null},
   password : Passwords \union {Null}, account : AccountIds \union {Null}, hash : Hash]

NoLogin == [phase |-> "idle", student |-> Null, client |-> Null, password |-> Null,
            account |-> Null, hash |-> NoHash]

ChangeOutcomes == {"USER_NOT_FOUND", "CURRENT_PASSWORD_INCORRECT", "rotated", "re_login"}
ChangeSteps == {"received", "verified", "committed"}

ChangeRow ==
  [phase : {"idle"} \union ChangeSteps \union ChangeOutcomes,
   account : AccountIds \union {Null}, current : Passwords \union {Null},
   new : Passwords \union {Null}, hash : Hash]

NoChange == [phase |-> "idle", account |-> Null, current |-> Null, new |-> Null, hash |-> NoHash]

Attempts == {"none", "recent", "expired"}

TypeOK ==
  /\ credential \in [AccountIds -> Account]
  /\ sessions \in SUBSET Session
  /\ login \in [LoginIds -> LoginRow]
  /\ change \in [ChangeIds -> ChangeRow]
  /\ attempt \in [LoginIds -> Attempts]
  /\ salts \in 0..MaxSalts
  /\ disturbed \in SUBSET LoginIds

-----------------------------------------------------------------------------
Exists(a) == credential[a].state \in {"active", "archived"}

\* The account a student number leads to, if there is one (users.student_id is unique).
FindByStudentId(s) == {a \in AccountIds : Exists(a) /\ credential[a].student = s}

Verifies(password, hash) == hash.policy # "unsupported" /\ hash.password = password

NeedsRehash(hash) == hash.policy = "legacy"

FreshHash(password) == [password |-> password, salt |-> salts + 1, policy |-> "current"]

SessionsOf(a) == {s \in sessions : s.account = a}

\* The attempts of a student, from a client or from anywhere.
AttemptsOf(s) == {r \in LoginIds : attempt[r] # "none" /\ login[r].student = s}

GetRecentAttempts(s, client) ==
  {r \in AttemptsOf(s) : attempt[r] = "recent" /\ login[r].client = client}

Without(rows) == [r \in LoginIds |-> IF r \in rows THEN "none" ELSE attempt[r]]

\* Mutant: only the account's state is looked at.
AccountUnchanged(a, hash) == credential[a].state = "active"

\* The condition under which a session is inserted, tested by the INSERT itself.
PasswordUnchanged(a, hash) == credential[a].state = "active" /\ credential[a].hash = hash

LoginsUnderWay == {r \in LoginIds : login[r].phase \in LoginSteps}

Disturb(a) == disturbed' = disturbed \union {r \in LoginsUnderWay : login[r].account = a}

-----------------------------------------------------------------------------
(* UserLifecycleCoordinator.authenticate, step by step. *)

LoginAt(r, phase) == login' = [login EXCEPT ![r].phase = phase]

ReceiveLogin(r, s, client, password) ==
  /\ login[r].phase = "idle"
  /\ Cardinality(LoginsUnderWay) < Workers
  /\ login' = [login EXCEPT ![r] = [phase |-> "received", student |-> s, client |-> client,
                 password |-> password, account |-> Null, hash |-> NoHash]]
  /\ UNCHANGED <<accountVars, attempt>>

DeleteExpiredAttempts(r) ==
  /\ login[r].phase = "received"
  /\ attempt' = Without({q \in AttemptsOf(login[r].student) : attempt[q] = "expired"})
  /\ LoginAt(r, "cleaned")
  /\ UNCHANGED accountVars

\* Mutant: one attempt too many.
LockedOutLate(r) ==
  Cardinality(GetRecentAttempts(login[r].student, login[r].client)) > LockoutLimit

LockedOut(r) ==
  Cardinality(GetRecentAttempts(login[r].student, login[r].client)) >= LockoutLimit

CheckLockout(r) ==
  /\ login[r].phase = "cleaned"
  /\ LoginAt(r, IF LockedOut(r) THEN "RATE_LIMITED_ACCOUNT" ELSE "admitted")
  /\ UNCHANGED <<accountVars, attempt>>

\* The account is read and the password verified against the hash that was read.
FindAccount(r) ==
  LET found == {a \in FindByStudentId(login[r].student) : credential[a].state = "active"}
  IN /\ login[r].phase = "admitted"
     /\ \/ found = {} /\ LoginAt(r, "failing")
        \/ \E a \in found :
             login' = [login EXCEPT ![r] =
                         [@ EXCEPT !.account = a, !.hash = credential[a].hash,
                                   !.phase = IF ~Verifies(login[r].password, credential[a].hash)
                                               THEN "failing"
                                             ELSE IF NeedsRehash(credential[a].hash) THEN "outdated"
                                             ELSE "verified"]]
     /\ UNCHANGED <<accountVars, attempt>>

RecordAttempt(r) ==
  /\ login[r].phase = "failing"
  /\ attempt' = [attempt EXCEPT ![r] = "recent"]
  /\ LoginAt(r, "INVALID_CREDENTIALS")
  /\ UNCHANGED accountVars

\* Mutant: the UPDATE does not name the hash that was verified.
RehashAnyway(r) ==
  LET a == login[r].account
      new == FreshHash(login[r].password)
  IN /\ login[r].phase = "outdated"
     /\ salts < MaxSalts
     /\ salts' = salts + 1
     /\ credential' = [credential EXCEPT ![a].hash = new]
     /\ login' = [login EXCEPT ![r] = [@ EXCEPT !.phase = "verified", !.hash = new]]
     /\ UNCHANGED <<sessions, disturbed, attempt>>

\* updatePasswordIfUnchanged with a new hash of the same password.
Rehash(r) ==
  LET a == login[r].account
      new == FreshHash(login[r].password)
  IN /\ login[r].phase = "outdated"
     /\ salts < MaxSalts
     /\ salts' = salts + 1
     /\ IF Exists(a) /\ credential[a].hash = login[r].hash
          THEN /\ credential' = [credential EXCEPT ![a].hash = new]
               /\ login' = [login EXCEPT ![r] = [@ EXCEPT !.phase = "verified", !.hash = new]]
          ELSE UNCHANGED credential /\ LoginAt(r, "verified")
     /\ UNCHANGED <<sessions, disturbed, attempt>>

\* Hashing or the UPDATE fails, and the failure is swallowed.
RehashFails(r) ==
  /\ login[r].phase = "outdated"
  /\ LoginAt(r, "verified")
  /\ UNCHANGED <<accountVars, attempt>>

ClearAttempts(r) ==
  /\ login[r].phase = "verified"
  /\ attempt' = Without(AttemptsOf(login[r].student))
  /\ LoginAt(r, "cleared")
  /\ UNCHANGED accountVars

OpenSession(r) ==
  LET row == login[r]
  IN /\ row.phase = "cleared"
     /\ IF PasswordUnchanged(row.account, row.hash)
          THEN /\ sessions' = sessions \union
                    {[by |-> r, account |-> row.account, password |-> row.password]}
               /\ LoginAt(r, "logged_in")
          ELSE UNCHANGED sessions /\ LoginAt(r, "INVALID_CREDENTIALS")
     /\ UNCHANGED <<credential, salts, disturbed, attempt>>

LoginStep(r) ==
  \/ \E s \in StudentIds, client \in Clients, password \in Passwords :
       ReceiveLogin(r, s, client, password)
  \/ DeleteExpiredAttempts(r)
  \/ CheckLockout(r)
  \/ FindAccount(r)
  \/ RecordAttempt(r)
  \/ Rehash(r)
  \/ RehashFails(r)
  \/ ClearAttempts(r)
  \/ OpenSession(r)

-----------------------------------------------------------------------------
(* changePassword, step by step. *)

ChangeAt(r, phase) == change' = [change EXCEPT ![r].phase = phase]

\* requireAuth has just found the session and its account active.
ReceiveChange(r, s, current, new) ==
  /\ change[r].phase = "idle"
  /\ credential[s.account].state = "active"
  /\ change' = [change EXCEPT ![r] = [phase |-> "received", account |-> s.account,
                  current |-> current, new |-> new, hash |-> NoHash]]
  /\ UNCHANGED accountVars

GetPasswordHash(r) ==
  LET a == change[r].account
  IN /\ change[r].phase = "received"
     /\ IF ~Exists(a) THEN ChangeAt(r, "USER_NOT_FOUND")
        ELSE IF ~Verifies(change[r].current, credential[a].hash)
          THEN ChangeAt(r, "CURRENT_PASSWORD_INCORRECT")
        ELSE change' = [change EXCEPT ![r] =
                          [@ EXCEPT !.phase = "verified", !.hash = credential[a].hash]]
     /\ UNCHANGED accountVars

\* Mutant: the UPDATE does not name the hash that was verified.
CommitChangeAnyway(r) ==
  LET a == change[r].account
      new == FreshHash(change[r].new)
  IN /\ change[r].phase = "verified"
     /\ salts < MaxSalts
     /\ salts' = salts + 1
     /\ credential' = [credential EXCEPT ![a].hash = new]
     /\ sessions' = sessions \ SessionsOf(a)
     /\ Disturb(a)
     /\ change' = [change EXCEPT ![r] = [@ EXCEPT !.phase = "committed", !.hash = new]]

\* changePasswordAndInvalidateSessions: one transaction.
CommitChange(r) ==
  LET a == change[r].account
      new == FreshHash(change[r].new)
  IN /\ change[r].phase = "verified"
     /\ salts < MaxSalts
     /\ salts' = salts + 1
     /\ IF Exists(a) /\ credential[a].hash = change[r].hash
          THEN /\ credential' = [credential EXCEPT ![a].hash = new]
               /\ sessions' = sessions \ SessionsOf(a)
               /\ Disturb(a)
               /\ change' = [change EXCEPT ![r] = [@ EXCEPT !.phase = "committed", !.hash = new]]
          ELSE UNCHANGED <<credential, sessions, disturbed>> /\ ChangeAt(r, "CURRENT_PASSWORD_INCORRECT")

RotateSession(r) ==
  LET row == change[r]
  IN /\ row.phase = "committed"
     /\ IF PasswordUnchanged(row.account, row.hash)
          THEN /\ sessions' = sessions \union
                    {[by |-> r, account |-> row.account, password |-> row.new]}
               /\ ChangeAt(r, "rotated")
          ELSE UNCHANGED sessions /\ ChangeAt(r, "re_login")
     /\ UNCHANGED <<credential, salts, disturbed>>

ChangeStep(r) ==
  /\ \/ \E s \in sessions, current, new \in Passwords : ReceiveChange(r, s, current, new)
     \/ GetPasswordHash(r)
     \/ CommitChange(r)
     \/ RotateSession(r)
  /\ UNCHANGED <<login, attempt>>

-----------------------------------------------------------------------------
(* Administration: one transaction each. Who may act on whom, and the freeze *)
(* of the electorate, only restrict these further; Electorate has the freeze.*)

\* A student number leads to one account at a time.
Register(a, s, password) ==
  /\ credential[a].state = "unborn"
  /\ FindByStudentId(s) = {}
  /\ salts < MaxSalts
  /\ salts' = salts + 1
  /\ credential' = [credential EXCEPT ![a] =
                      [state |-> "active", student |-> s, hash |-> FreshHash(password)]]
  /\ UNCHANGED <<sessions, disturbed, attempt>>

\* The coordinator resets active accounts only; the script resets any.
ResetPassword(a, password) ==
  /\ Exists(a)
  /\ salts < MaxSalts
  /\ salts' = salts + 1
  /\ credential' = [credential EXCEPT ![a].hash = FreshHash(password)]
  /\ sessions' = sessions \ SessionsOf(a)
  /\ attempt' = Without(AttemptsOf(credential[a].student))
  /\ Disturb(a)

SoftDelete(a) ==
  /\ credential[a].state = "active"
  /\ credential' = [credential EXCEPT ![a].state = "archived"]
  /\ sessions' = sessions \ SessionsOf(a)
  /\ Disturb(a)
  /\ UNCHANGED <<salts, attempt>>

Restore(a) ==
  /\ credential[a].state = "archived"
  /\ credential' = [credential EXCEPT ![a].state = "active"]
  /\ UNCHANGED <<sessions, salts, disturbed, attempt>>

HardDelete(a) ==
  /\ Exists(a)
  /\ credential' = [credential EXCEPT ![a].state = "deleted"]
  /\ sessions' = sessions \ SessionsOf(a)
  /\ attempt' = Without(AttemptsOf(credential[a].student))
  /\ Disturb(a)
  /\ UNCHANGED salts

Unlock(a) ==
  /\ Exists(a)
  /\ attempt' = Without(AttemptsOf(credential[a].student))
  /\ UNCHANGED accountVars

Administer ==
  /\ \E a \in AccountIds :
       \/ \E s \in StudentIds, password \in Passwords : Register(a, s, password)
       \/ \E password \in Passwords : ResetPassword(a, password)
       \/ SoftDelete(a) \/ Restore(a) \/ HardDelete(a) \/ Unlock(a)
  /\ UNCHANGED <<login, change>>

Logout(s) ==
  /\ sessions' = sessions \ {s}
  /\ UNCHANGED <<credential, salts, disturbed, login, change, attempt>>

\* The lockout window of an attempt passes.
Age(r) ==
  /\ attempt[r] = "recent"
  /\ attempt' = [attempt EXCEPT ![r] = "expired"]
  /\ UNCHANGED <<accountVars, login, change>>

\* The scheduled purge.
DeleteAllExpiredAttempts ==
  /\ \E r \in LoginIds : attempt[r] = "expired"
  /\ attempt' = Without({r \in LoginIds : attempt[r] = "expired"})
  /\ UNCHANGED <<accountVars, login, change>>

-----------------------------------------------------------------------------
(* Accounts that earlier releases left behind have hashes of any policy. *)
InheritedAccounts ==
  {c \in [AccountIds -> {NoAccount} \union
            [state : {"active", "archived"}, student : StudentIds,
             hash : [password : Passwords, salt : {0}, policy : {"current", "legacy", "unsupported"}]]] :
     \A a, b \in AccountIds : c[a] # NoAccount /\ c[a].student = c[b].student => a = b}

Init ==
  /\ credential \in InheritedAccounts
  /\ sessions = {}
  /\ login = [r \in LoginIds |-> NoLogin]
  /\ change = [r \in ChangeIds |-> NoChange]
  /\ attempt = [r \in LoginIds |-> "none"]
  /\ salts = 0
  /\ disturbed = {}

Next ==
  \/ \E r \in LoginIds : LoginStep(r) /\ UNCHANGED change
  \/ \E r \in ChangeIds : ChangeStep(r)
  \/ Administer
  \/ \E s \in sessions : Logout(s)
  \/ \E r \in LoginIds : Age(r)
  \/ DeleteAllExpiredAttempts

Spec == Init /\ [][Next]_vars

-----------------------------------------------------------------------------
(* Properties. *)

\* Every session is of an active account, and whoever opened it presented what
\* is the account's password now: a reset, a change of password, an archival or a
\* deletion leaves no session behind and lets none in, however long the logins
\* and changes that overlap it take between their read and their insert.
SessionsKnowPassword ==
  \A s \in sessions :
    /\ credential[s.account].state = "active"
    /\ credential[s.account].hash.password = s.password

\* Logins that failed, or may still fail, against one student from one client.
Admitted(s, client) ==
  {r \in LoginIds : /\ login[r].phase \in {"admitted", "failing"}
                    /\ login[r].student = s /\ login[r].client = client}

\* Counting first and recording later lets concurrent logins past the limit, but
\* never by more than are under way together.
LockoutBounded ==
  \A s \in StudentIds, client \in Clients :
    Cardinality(GetRecentAttempts(s, client)) <= LockoutLimit - 1 + Workers

\* Nobody changes a password but an administrator, or someone who knew the one
\* it replaces; no change, and no upgrade of a hash, overwrites a newer password.
PasswordChangesAuthorised ==
  [][\A a \in AccountIds :
       credential'[a].hash.password # credential[a].hash.password =>
         \/ credential[a].state = "unborn"
         \/ \E password \in Passwords : ResetPassword(a, password)
         \/ \E r \in ChangeIds : /\ change[r].account = a
                                /\ change[r].current = credential[a].hash.password
                                /\ change'[r].phase = "committed"]_vars

\* A login whose password was right and whose account nobody touched meanwhile.
RefusedForNothing(r) ==
  /\ login[r].phase = "INVALID_CREDENTIALS"
  /\ login[r].account # Null
  /\ Verifies(login[r].password, login[r].hash)
  /\ r \notin disturbed

\* "Verified credentials must still be allowed to log in."
VerifiedLoginSucceeds == \A r \in LoginIds : ~RefusedForNothing(r)

\* The code breaks that in one case only: the hash is a legacy one, and another
\* login of the same account upgraded it first.
RefusalHasCause == \A r \in LoginIds : RefusedForNothing(r) => NeedsRehash(login[r].hash)
=============================================================================
