-------------------------- MODULE CredentialsProofs --------------------------
(***************************************************************************)
(* Sessions and the lockout, for any number of accounts, requests, clients *)
(* and passwords.                                                          *)
(***************************************************************************)
EXTENDS Credentials, FiniteSetTheorems, TLAPS

\* A login that verified its password holds a hash of that password, before and
\* after the upgrade of the hash.
LoginRowOK(row) ==
  /\ row.phase # "idle" =>
       row.student \in StudentIds /\ row.client \in Clients /\ row.password \in Passwords
  /\ row.phase \in {"outdated", "verified", "cleared"} =>
       row.account \in AccountIds /\ row.hash.password = row.password

\* A change that has verified the current password holds a hash of it, and one that
\* has committed holds the hash of the new password.
ChangeRowOK(row) ==
  /\ row.phase # "idle" =>
       row.account \in AccountIds /\ row.current \in Passwords /\ row.new \in Passwords
  /\ row.phase = "verified" => row.hash.password = row.current
  /\ row.phase = "committed" => row.hash.password = row.new

LoginsInv == login \in [LoginIds -> LoginRow] /\ \A r \in LoginIds : LoginRowOK(login[r])
ChangesInv == change \in [ChangeIds -> ChangeRow] /\ \A r \in ChangeIds : ChangeRowOK(change[r])

AccountsInv ==
  /\ credential \in [AccountIds -> Account]
  /\ sessions \in SUBSET Session
  /\ salts \in 0..MaxSalts
  /\ disturbed \in SUBSET LoginIds
  /\ SessionsKnowPassword

AttemptsInv ==
  /\ attempt \in [LoginIds -> Attempts]
  /\ \A r \in LoginIds : login[r].phase = "idle" => attempt[r] = "none"

SessionInv == LoginsInv /\ ChangesInv /\ AccountsInv /\ AttemptsInv

-----------------------------------------------------------------------------
(* What each kind of write does to the accounts and sessions. *)

\* The unset hash is a hash.
LEMMA NoHashType == NoHash \in Hash
  BY LockoutAssumption DEF NoHash, Hash

\* A fresh hash is a hash of the password it is made from, and the salt is used
\* up.
LEMMA FreshHashType ==
  ASSUME salts \in 0..MaxSalts, salts < MaxSalts, NEW password \in Passwords
  PROVE  /\ FreshHash(password) \in Hash
         /\ FreshHash(password).password = password
         /\ salts + 1 \in 0..MaxSalts
  BY LockoutAssumption DEF FreshHash, Hash

\* The accounts keep their invariant while nothing writes to them.
LEMMA AccountsUntouched ==
  ASSUME AccountsInv, UNCHANGED accountVars PROVE AccountsInv'
  BY DEF AccountsInv, accountVars, SessionsKnowPassword

\* A row is rewritten and the sessions of its account are dropped.
LEMMA SessionsDropped ==
  ASSUME AccountsInv, NEW a \in AccountIds, NEW row \in Account,
         credential' = [credential EXCEPT ![a] = row],
         sessions' = sessions \ SessionsOf(a),
         salts' \in 0..MaxSalts, disturbed' \in SUBSET LoginIds
  PROVE  AccountsInv'
<1>1. SessionsKnowPassword'
  <2> SUFFICES ASSUME NEW s \in sessions'
               PROVE  /\ credential'[s.account].state = "active"
                      /\ credential'[s.account].hash.password = s.password
    BY DEF SessionsKnowPassword
  <2>1. s \in sessions /\ s.account # a /\ s.account \in AccountIds
    BY DEF SessionsOf, AccountsInv, Session
  <2>2. credential'[s.account] = credential[s.account]
    BY <2>1 DEF AccountsInv
  <2>3. QED
    BY <2>1, <2>2 DEF AccountsInv, SessionsKnowPassword
<1>2. QED
  BY <1>1 DEF AccountsInv

\* A row is rewritten that stays active, if it was, with the same password.
LEMMA SessionsKept ==
  ASSUME AccountsInv, NEW a \in AccountIds, NEW row \in Account,
         credential' = [credential EXCEPT ![a] = row],
         credential[a].state = "active" =>
           row.state = "active" /\ row.hash.password = credential[a].hash.password,
         sessions' = sessions,
         salts' \in 0..MaxSalts, disturbed' \in SUBSET LoginIds
  PROVE  AccountsInv'
<1>1. SessionsKnowPassword'
  <2> SUFFICES ASSUME NEW s \in sessions
               PROVE  /\ credential'[s.account].state = "active"
                      /\ credential'[s.account].hash.password = s.password
    BY DEF SessionsKnowPassword
  <2>1. s.account \in AccountIds
    BY DEF AccountsInv, Session
  <2>2. /\ credential[s.account].state = "active"
        /\ credential[s.account].hash.password = s.password
    BY DEF AccountsInv, SessionsKnowPassword
  <2>3. QED
    BY <2>1, <2>2 DEF AccountsInv
<1>2. QED
  BY <1>1 DEF AccountsInv

\* A session is inserted under the condition of createSessionIfPasswordUnchanged.
LEMMA SessionInserted ==
  ASSUME AccountsInv, NEW s \in Session, NEW hash \in Hash,
         PasswordUnchanged(s.account, hash), hash.password = s.password,
         sessions' = sessions \union {s},
         UNCHANGED <<credential, salts, disturbed>>
  PROVE  AccountsInv'
  BY DEF AccountsInv, SessionsKnowPassword, PasswordUnchanged

-----------------------------------------------------------------------------
(* What each kind of step does to a request. *)

\* A login that only moves to another step keeps what is said of logins.
LEMMA LoginAtRow ==
  ASSUME LoginsInv, NEW r \in LoginIds, login[r].phase # "idle",
         NEW phase \in LoginSteps \union LoginOutcomes, LoginAt(r, phase),
         phase \in {"outdated", "verified", "cleared"} =>
           login[r].phase \in {"outdated", "verified", "cleared"}
  PROVE  LoginsInv'
<1> DEFINE row == [login[r] EXCEPT !.phase = phase]
<1>1. login[r] \in LoginRow /\ LoginRowOK(login[r])
  BY DEF LoginsInv
<1>2. row \in LoginRow
  BY <1>1 DEF LoginRow
<1>3. LoginRowOK(row)
  BY <1>1 DEF LoginRowOK, LoginRow
<1>4. login' = [login EXCEPT ![r] = row]
  BY DEF LoginAt
<1> HIDE DEF row
<1>5. QED
  BY <1>2, <1>3, <1>4 DEF LoginsInv

\* A change that only moves to an outcome keeps what is said of changes.
LEMMA ChangeAtRow ==
  ASSUME ChangesInv, NEW r \in ChangeIds, change[r].phase # "idle",
         NEW phase \in ChangeOutcomes, ChangeAt(r, phase)
  PROVE  ChangesInv'
<1> DEFINE row == [change[r] EXCEPT !.phase = phase]
<1>1. change[r] \in ChangeRow /\ ChangeRowOK(change[r])
  BY DEF ChangesInv
<1>2. row \in ChangeRow
  BY <1>1 DEF ChangeRow
<1>3. ChangeRowOK(row)
  BY <1>1 DEF ChangeRowOK, ChangeRow, ChangeOutcomes
<1>4. change' = [change EXCEPT ![r] = row]
  BY DEF ChangeAt
<1> HIDE DEF row
<1>5. QED
  BY <1>2, <1>3, <1>4 DEF ChangesInv

\* Only an idle login has no attempt on record by necessity.
LEMMA AttemptsCleared ==
  ASSUME AttemptsInv, NEW rows, attempt' = Without(rows),
         \A r \in LoginIds : login'[r].phase = "idle" => login[r].phase = "idle"
  PROVE  AttemptsInv'
  BY DEF AttemptsInv, Without, Attempts

\* No login becomes idle again.
LEMMA LoginAtPhase ==
  ASSUME LoginsInv, NEW r \in LoginIds, NEW phase, phase # "idle", LoginAt(r, phase)
  PROVE  \A q \in LoginIds : login'[q].phase = "idle" => login[q].phase = "idle"
  BY DEF LoginsInv, LoginAt, LoginRow

\* Recorded attempts keep their invariant while no login returns to idle.
LEMMA AttemptsUntouched ==
  ASSUME AttemptsInv, UNCHANGED attempt,
         \A r \in LoginIds : login'[r].phase = "idle" => login[r].phase = "idle"
  PROVE  AttemptsInv'
  BY DEF AttemptsInv

-----------------------------------------------------------------------------
(* Every step keeps the invariant. *)

\* A login arrives.
LEMMA ReceiveLoginInv ==
  ASSUME SessionInv, NEW r \in LoginIds, NEW s \in StudentIds, NEW client \in Clients,
         NEW password \in Passwords, ReceiveLogin(r, s, client, password)
  PROVE  LoginsInv' /\ AccountsInv' /\ AttemptsInv'
<1> DEFINE row == [phase |-> "received", student |-> s, client |-> client,
                   password |-> password, account |-> Null, hash |-> NoHash]
<1>1. row \in LoginRow
  BY NoHashType DEF LoginRow, LoginSteps
<1>2. LoginRowOK(row)
  BY DEF LoginRowOK
<1>3. login' = [login EXCEPT ![r] = row] /\ row.phase # "idle" /\ UNCHANGED <<accountVars, attempt>>
  BY DEF ReceiveLogin
<1> HIDE DEF row
<1>4. LoginsInv'
  BY <1>1, <1>2, <1>3 DEF SessionInv, LoginsInv
<1>5. \A q \in LoginIds : login'[q].phase = "idle" => login[q].phase = "idle"
  BY <1>3 DEF SessionInv, LoginsInv
<1>6. QED
  BY <1>3, <1>4, <1>5, AccountsUntouched, AttemptsUntouched DEF SessionInv

\* The login has read the hash of its account, which is the one it will verify.
LEMMA FindAccountInv ==
  ASSUME SessionInv, NEW r \in LoginIds, FindAccount(r)
  PROVE  LoginsInv' /\ AccountsInv' /\ AttemptsInv'
<1>1. UNCHANGED <<accountVars, attempt>> /\ login[r].phase = "admitted"
  BY DEF FindAccount
<1>2. CASE LoginAt(r, "failing")
  <2>1. LoginsInv'
    BY <1>1, <1>2, LoginAtRow DEF SessionInv, LoginSteps
  <2>2. QED
    BY <1>1, <1>2, <2>1, LoginAtPhase, AccountsUntouched, AttemptsUntouched DEF SessionInv
<1>3. ASSUME NEW a \in FindByStudentId(login[r].student), NEW phase,
             phase = IF ~Verifies(login[r].password, credential[a].hash) THEN "failing"
                     ELSE IF NeedsRehash(credential[a].hash) THEN "outdated" ELSE "verified",
             login' = [login EXCEPT ![r] =
                         [@ EXCEPT !.account = a, !.hash = credential[a].hash, !.phase = phase]]
      PROVE  LoginsInv' /\ AccountsInv' /\ AttemptsInv'
  <2> DEFINE row == [login[r] EXCEPT !.account = a, !.hash = credential[a].hash, !.phase = phase]
  <2>1. a \in AccountIds /\ credential[a].hash \in Hash
    BY DEF FindByStudentId, SessionInv, AccountsInv, Account
  <2>2. login[r] \in LoginRow /\ LoginRowOK(login[r])
    BY DEF SessionInv, LoginsInv
  <2>3. /\ phase \in {"failing", "outdated", "verified"}
        /\ phase # "failing" => credential[a].hash.password = login[r].password
    BY <1>3 DEF Verifies
  <2>4. row \in LoginRow /\ row.phase = phase
    BY <2>1, <2>2, <2>3 DEF LoginRow, LoginSteps
  <2>5. LoginRowOK(row)
    BY <1>1, <2>1, <2>2, <2>3 DEF LoginRowOK, LoginRow
  <2>6. login' = [login EXCEPT ![r] = row]
    BY <1>3
  <2> HIDE DEF row
  <2>7. LoginsInv'
    BY <2>4, <2>5, <2>6 DEF SessionInv, LoginsInv
  <2>8. \A q \in LoginIds : login'[q].phase = "idle" => login[q].phase = "idle"
    BY <2>3, <2>4, <2>6 DEF SessionInv, LoginsInv
  <2>9. QED
    BY <1>1, <2>7, <2>8, AccountsUntouched, AttemptsUntouched DEF SessionInv
<1>4. QED
  BY <1>2, <1>3 DEF FindAccount

\* A legacy hash is replaced by a new hash of the same password (the UPDATE
\* names the old hash).
LEMMA RehashInv ==
  ASSUME SessionInv, NEW r \in LoginIds, Rehash(r)
  PROVE  LoginsInv' /\ AccountsInv' /\ AttemptsInv'
<1> DEFINE a == login[r].account
           new == FreshHash(login[r].password)
           row == [login[r] EXCEPT !.phase = "verified", !.hash = new]
           stored == [credential[a] EXCEPT !.hash = new]
<1>1. /\ login[r].phase = "outdated" /\ salts < MaxSalts /\ salts' = salts + 1
      /\ UNCHANGED <<sessions, disturbed, attempt>>
  BY DEF Rehash
<1>2. login[r] \in LoginRow /\ LoginRowOK(login[r])
  BY DEF SessionInv, LoginsInv
<1>3. a \in AccountIds /\ login[r].password \in Passwords /\ login[r].hash.password = login[r].password
  BY <1>1, <1>2 DEF LoginRowOK
<1>4. new \in Hash /\ new.password = login[r].password /\ salts' \in 0..MaxSalts
  BY <1>1, <1>3, FreshHashType DEF SessionInv, AccountsInv
<1>5. CASE Exists(a) /\ credential[a].hash = login[r].hash
  <2>1. credential' = [credential EXCEPT ![a] = stored] /\ login' = [login EXCEPT ![r] = row]
    BY <1>5 DEF Rehash
  <2> HIDE DEF new
  <2>2. row \in LoginRow /\ LoginRowOK(row) /\ row.phase # "idle"
    <3>1. row \in LoginRow
      BY <1>2, <1>4 DEF LoginRow, LoginSteps
    <3>2. /\ row.phase = "verified" /\ row.hash = new /\ row.student = login[r].student
          /\ row.client = login[r].client /\ row.password = login[r].password
          /\ row.account = login[r].account
      BY <1>2 DEF LoginRow
    <3> HIDE DEF row
    <3>3. QED
      BY <1>1, <1>2, <1>4, <3>1, <3>2 DEF LoginRowOK
  <2>3. credential[a] \in Account
    BY <1>3 DEF SessionInv, AccountsInv
  <2>4. stored \in Account /\ stored.state = credential[a].state
        /\ stored.hash.password = credential[a].hash.password
    BY <1>3, <1>4, <1>5, <2>3 DEF Account
  <2> HIDE DEF row, stored, a
  <2>5. LoginsInv'
    BY <2>1, <2>2 DEF SessionInv, LoginsInv
  <2>6. AccountsInv'
    BY <1>1, <1>3, <1>4, <2>1, <2>4, SessionsKept DEF SessionInv, AccountsInv
  <2>7. \A q \in LoginIds : login'[q].phase = "idle" => login[q].phase = "idle"
    BY <2>1, <2>2 DEF SessionInv, LoginsInv
  <2>8. QED
    BY <1>1, <2>5, <2>6, <2>7, AttemptsUntouched DEF SessionInv
<1>6. CASE UNCHANGED credential /\ LoginAt(r, "verified")
  <2>1. LoginsInv'
    BY <1>1, <1>6, LoginAtRow DEF SessionInv, LoginSteps
  <2>2. AccountsInv'
    BY <1>1, <1>4, <1>6 DEF SessionInv, AccountsInv, SessionsKnowPassword
  <2>3. QED
    BY <1>1, <1>6, <2>1, <2>2, LoginAtPhase, AttemptsUntouched DEF SessionInv
<1>7. QED
  BY <1>5, <1>6 DEF Rehash

\* A session is inserted only while the hash that was verified is still stored.
LEMMA OpenSessionInv ==
  ASSUME SessionInv, NEW r \in LoginIds, OpenSession(r)
  PROVE  LoginsInv' /\ AccountsInv' /\ AttemptsInv'
<1> DEFINE row == login[r]
           s == [by |-> r, account |-> row.account, password |-> row.password]
<1>1. row.phase = "cleared" /\ UNCHANGED <<credential, salts, disturbed, attempt>>
  BY DEF OpenSession
<1>2. row \in LoginRow /\ LoginRowOK(row)
  BY DEF SessionInv, LoginsInv
<1>3. s \in Session /\ row.hash \in Hash /\ row.hash.password = s.password
  BY <1>1, <1>2 DEF LoginRowOK, LoginRow, Session
<1>4. CASE PasswordUnchanged(row.account, row.hash) /\ sessions' = sessions \union {s}
           /\ LoginAt(r, "logged_in")
  <2>1. LoginsInv'
    BY <1>1, <1>4, LoginAtRow DEF SessionInv, LoginOutcomes
  <2>2. AccountsInv'
    BY <1>1, <1>3, <1>4, SessionInserted DEF SessionInv
  <2>3. QED
    BY <1>1, <1>4, <2>1, <2>2, LoginAtPhase, AttemptsUntouched DEF SessionInv
<1>5. CASE UNCHANGED sessions /\ LoginAt(r, "INVALID_CREDENTIALS")
  <2>1. LoginsInv'
    BY <1>1, <1>5, LoginAtRow DEF SessionInv, LoginOutcomes
  <2>2. AccountsInv'
    BY <1>1, <1>5, AccountsUntouched DEF SessionInv, accountVars
  <2>3. QED
    BY <1>1, <1>5, <2>1, <2>2, LoginAtPhase, AttemptsUntouched DEF SessionInv
<1>6. QED
  BY <1>4, <1>5 DEF OpenSession

\* The steps that only move a login on, and perhaps clear or record attempts.
LEMMA LoginMovesInv ==
  ASSUME SessionInv, NEW r \in LoginIds, login[r].phase # "idle",
         NEW phase \in LoginSteps \union LoginOutcomes, LoginAt(r, phase),
         phase \in {"outdated", "verified", "cleared"} =>
           login[r].phase \in {"outdated", "verified", "cleared"},
         UNCHANGED accountVars,
         \/ UNCHANGED attempt
         \/ \E rows \in SUBSET LoginIds : attempt' = Without(rows)
         \/ attempt' = [attempt EXCEPT ![r] = "recent"]
  PROVE  LoginsInv' /\ AccountsInv' /\ AttemptsInv'
<1>1. LoginsInv'
  BY LoginAtRow DEF SessionInv
<1>2. AccountsInv'
  BY AccountsUntouched DEF SessionInv
<1>3. \A q \in LoginIds : login'[q].phase = "idle" => login[q].phase = "idle"
  BY LoginAtPhase DEF SessionInv, LoginSteps, LoginOutcomes
<1>4. CASE attempt' = [attempt EXCEPT ![r] = "recent"]
  <2>1. attempt' \in [LoginIds -> Attempts]
    BY <1>4 DEF SessionInv, AttemptsInv, Attempts
  <2>2. ASSUME NEW q \in LoginIds, login'[q].phase = "idle" PROVE attempt'[q] = "none"
    <3>1. login[q].phase = "idle" /\ q # r
      BY <1>3, <2>2
    <3>2. attempt'[q] = attempt[q]
      BY <1>4, <3>1 DEF SessionInv, AttemptsInv
    <3>3. QED
      BY <3>1, <3>2 DEF SessionInv, AttemptsInv
  <2>3. AttemptsInv'
    BY <2>1, <2>2 DEF AttemptsInv
  <2>4. QED
    BY <1>1, <1>2, <2>3
<1>5. QED
  BY <1>1, <1>2, <1>3, <1>4, AttemptsUntouched, AttemptsCleared DEF SessionInv

\* Every step of a login.
LEMMA LoginStepInv ==
  ASSUME SessionInv, NEW r \in LoginIds, LoginStep(r), UNCHANGED change
  PROVE  SessionInv'
<1>0. ChangesInv'
  BY DEF SessionInv, ChangesInv
<1> SUFFICES LoginsInv' /\ AccountsInv' /\ AttemptsInv'
  BY <1>0 DEF SessionInv
<1>1. CASE \E s \in StudentIds, client \in Clients, password \in Passwords :
             ReceiveLogin(r, s, client, password)
  BY <1>1, ReceiveLoginInv
<1>2. CASE DeleteExpiredAttempts(r)
  <2>1. \E rows \in SUBSET LoginIds : attempt' = Without(rows)
    BY <1>2 DEF DeleteExpiredAttempts, AttemptsOf
  <2>2. QED
    BY <1>2, <2>1, LoginMovesInv DEF DeleteExpiredAttempts, LoginSteps
<1>3. CASE CheckLockout(r)
  BY <1>3, LoginMovesInv DEF CheckLockout, LoginSteps, LoginOutcomes
<1>4. CASE FindAccount(r)
  BY <1>4, FindAccountInv
<1>5. CASE RecordAttempt(r)
  BY <1>5, LoginMovesInv DEF RecordAttempt, LoginOutcomes
<1>6. CASE Rehash(r)
  BY <1>6, RehashInv
<1>7. CASE RehashFails(r)
  BY <1>7, LoginMovesInv DEF RehashFails, LoginSteps
<1>8. CASE ClearAttempts(r)
  <2>1. \E rows \in SUBSET LoginIds : attempt' = Without(rows)
    BY <1>8 DEF ClearAttempts, AttemptsOf
  <2>2. QED
    BY <1>8, <2>1, LoginMovesInv DEF ClearAttempts, LoginSteps
<1>9. CASE OpenSession(r)
  BY <1>9, OpenSessionInv
<1>10. QED
  BY <1>1, <1>2, <1>3, <1>4, <1>5, <1>6, <1>7, <1>8, <1>9 DEF LoginStep

\* A change of password arrives with a session.
LEMMA ReceiveChangeInv ==
  ASSUME SessionInv, NEW r \in ChangeIds, NEW s \in sessions, NEW current \in Passwords,
         NEW new \in Passwords, ReceiveChange(r, s, current, new)
  PROVE  ChangesInv' /\ AccountsInv'
<1> DEFINE row == [phase |-> "received", account |-> s.account,
                   current |-> current, new |-> new, hash |-> NoHash]
<1>1. s.account \in AccountIds
  BY DEF SessionInv, AccountsInv, Session
<1>2. row \in ChangeRow
  BY <1>1, NoHashType DEF ChangeRow, ChangeSteps
<1>3. ChangeRowOK(row)
  BY <1>1 DEF ChangeRowOK
<1>4. change' = [change EXCEPT ![r] = row] /\ UNCHANGED accountVars
  BY DEF ReceiveChange
<1> HIDE DEF row
<1>5. QED
  BY <1>2, <1>3, <1>4, AccountsUntouched DEF SessionInv, ChangesInv

\* The change has read the hash that it will verify.
LEMMA GetPasswordHashInv ==
  ASSUME SessionInv, NEW r \in ChangeIds, GetPasswordHash(r)
  PROVE  ChangesInv' /\ AccountsInv'
<1> DEFINE a == change[r].account
           row == [change[r] EXCEPT !.phase = "verified", !.hash = credential[a].hash]
<1>1. change[r].phase = "received" /\ UNCHANGED accountVars
  BY DEF GetPasswordHash
<1>2. change[r] \in ChangeRow /\ ChangeRowOK(change[r])
  BY DEF SessionInv, ChangesInv
<1>3. credential[a].hash \in Hash
  BY <1>1, <1>2 DEF SessionInv, AccountsInv, Account, ChangeRowOK
<1>4. CASE ChangeAt(r, "USER_NOT_FOUND") \/ ChangeAt(r, "CURRENT_PASSWORD_INCORRECT")
  BY <1>1, <1>4, ChangeAtRow, AccountsUntouched DEF SessionInv, ChangeOutcomes
<1>5. CASE change' = [change EXCEPT ![r] = row]
  <2>1. row \in ChangeRow
    BY <1>1, <1>2, <1>3 DEF ChangeRow, ChangeSteps
  <2>2. /\ row.phase = "verified" /\ row.hash = credential[a].hash
        /\ row.account = change[r].account /\ row.current = change[r].current
        /\ row.new = change[r].new
    BY <1>2 DEF ChangeRow
  <2>3. CASE ~Verifies(change[r].current, credential[a].hash)
    BY <1>1, <2>3, ChangeAtRow, AccountsUntouched DEF SessionInv, ChangeOutcomes, GetPasswordHash
  <2>4. CASE Verifies(change[r].current, credential[a].hash)
    <3> HIDE DEF row
    <3>1. ChangeRowOK(row)
      BY <1>1, <1>2, <2>1, <2>2, <2>4 DEF ChangeRowOK, Verifies
    <3>2. QED
      BY <1>1, <1>5, <2>1, <3>1, AccountsUntouched DEF SessionInv, ChangesInv
  <2>5. QED
    BY <2>3, <2>4
<1>6. QED
  BY <1>4, <1>5 DEF GetPasswordHash

\* The change replaces the verified hash and drops the sessions, in one batch.
LEMMA CommitChangeInv ==
  ASSUME SessionInv, NEW r \in ChangeIds, CommitChange(r)
  PROVE  ChangesInv' /\ AccountsInv'
<1> DEFINE a == change[r].account
           new == FreshHash(change[r].new)
           row == [change[r] EXCEPT !.phase = "committed", !.hash = new]
           stored == [credential[a] EXCEPT !.hash = new]
<1>1. change[r].phase = "verified" /\ salts < MaxSalts /\ salts' = salts + 1
  BY DEF CommitChange
<1>2. change[r] \in ChangeRow /\ ChangeRowOK(change[r])
  BY DEF SessionInv, ChangesInv
<1>3. a \in AccountIds /\ change[r].new \in Passwords
  BY <1>1, <1>2 DEF ChangeRowOK
<1>4. new \in Hash /\ new.password = change[r].new /\ salts' \in 0..MaxSalts
  BY <1>1, <1>3, FreshHashType DEF SessionInv, AccountsInv
<1>5. CASE Exists(a) /\ credential[a].hash = change[r].hash
  <2>1. /\ credential' = [credential EXCEPT ![a] = stored] /\ change' = [change EXCEPT ![r] = row]
        /\ sessions' = sessions \ SessionsOf(a) /\ Disturb(a)
    BY <1>5 DEF CommitChange
  <2> HIDE DEF new
  <2>2. row \in ChangeRow /\ ChangeRowOK(row)
    <3>1. row \in ChangeRow
      BY <1>2, <1>4 DEF ChangeRow, ChangeSteps
    <3>2. /\ row.phase = "committed" /\ row.hash = new /\ row.account = change[r].account
          /\ row.current = change[r].current /\ row.new = change[r].new
      BY <1>2 DEF ChangeRow
    <3> HIDE DEF row
    <3>3. QED
      BY <1>1, <1>2, <1>4, <3>1, <3>2 DEF ChangeRowOK
  <2>3. credential[a] \in Account
    BY <1>3 DEF SessionInv, AccountsInv
  <2>4. stored \in Account
    BY <1>3, <1>4, <2>3 DEF Account
  <2>5. disturbed' \in SUBSET LoginIds
    BY <2>1 DEF Disturb, LoginsUnderWay, SessionInv, AccountsInv
  <2> HIDE DEF row, stored, a
  <2>6. ChangesInv'
    BY <2>1, <2>2 DEF SessionInv, ChangesInv
  <2>7. AccountsInv'
    BY <1>3, <1>4, <2>1, <2>4, <2>5, SessionsDropped DEF SessionInv
  <2>8. QED
    BY <2>6, <2>7
<1>6. CASE UNCHANGED <<credential, sessions, disturbed>> /\ ChangeAt(r, "CURRENT_PASSWORD_INCORRECT")
  <2>1. ChangesInv'
    BY <1>1, <1>6, ChangeAtRow DEF SessionInv, ChangeOutcomes
  <2>2. AccountsInv'
    BY <1>4, <1>6 DEF SessionInv, AccountsInv, SessionsKnowPassword
  <2>3. QED
    BY <2>1, <2>2
<1>7. QED
  BY <1>5, <1>6 DEF CommitChange

\* The session that made the change is renewed, if its password is still
\* current.
LEMMA RotateSessionInv ==
  ASSUME SessionInv, NEW r \in ChangeIds, RotateSession(r)
  PROVE  ChangesInv' /\ AccountsInv'
<1> DEFINE row == change[r]
           s == [by |-> r, account |-> row.account, password |-> row.new]
<1>1. row.phase = "committed" /\ UNCHANGED <<credential, salts, disturbed>>
  BY DEF RotateSession
<1>2. row \in ChangeRow /\ ChangeRowOK(row)
  BY DEF SessionInv, ChangesInv
<1>3. s \in Session /\ row.hash \in Hash /\ row.hash.password = s.password
  BY <1>1, <1>2 DEF ChangeRowOK, ChangeRow, Session
<1>4. CASE PasswordUnchanged(row.account, row.hash) /\ sessions' = sessions \union {s}
           /\ ChangeAt(r, "rotated")
  <2>1. ChangesInv'
    BY <1>1, <1>4, ChangeAtRow DEF SessionInv, ChangeOutcomes
  <2>2. AccountsInv'
    BY <1>1, <1>3, <1>4, SessionInserted DEF SessionInv
  <2>3. QED
    BY <2>1, <2>2
<1>5. CASE UNCHANGED sessions /\ ChangeAt(r, "re_login")
  <2>1. ChangesInv'
    BY <1>1, <1>5, ChangeAtRow DEF SessionInv, ChangeOutcomes
  <2>2. QED
    BY <1>1, <1>5, <2>1, AccountsUntouched DEF SessionInv, accountVars
<1>6. QED
  BY <1>4, <1>5 DEF RotateSession

\* Every step of a change.
LEMMA ChangeStepInv ==
  ASSUME SessionInv, NEW r \in ChangeIds, ChangeStep(r)
  PROVE  SessionInv'
<1>1. UNCHANGED <<login, attempt>>
  BY DEF ChangeStep
<1>2. LoginsInv' /\ AttemptsInv'
  BY <1>1 DEF SessionInv, LoginsInv, AttemptsInv
<1>3. ChangesInv' /\ AccountsInv'
  BY ReceiveChangeInv, GetPasswordHashInv, CommitChangeInv, RotateSessionInv DEF ChangeStep
<1>4. QED
  BY <1>2, <1>3 DEF SessionInv

\* Any part of the logins that have read the account may be disturbed.
LEMMA DisturbType ==
  ASSUME AccountsInv, NEW a, Disturb(a) PROVE disturbed' \in SUBSET LoginIds
  BY DEF AccountsInv, Disturb, LoginsUnderWay

\* Resets, archival, deletion and the rest of what administrators do.
LEMMA AdministerInv ==
  ASSUME SessionInv, Administer
  PROVE  SessionInv'
<1>1. UNCHANGED <<login, change>> /\ LoginsInv' /\ ChangesInv'
  BY DEF Administer, SessionInv, LoginsInv, ChangesInv
<1>2. credential \in [AccountIds -> Account] /\ salts \in 0..MaxSalts /\ disturbed \in SUBSET LoginIds
  BY DEF SessionInv, AccountsInv
<1> SUFFICES AccountsInv' /\ AttemptsInv'
  BY <1>1 DEF SessionInv
<1>3. ASSUME NEW a \in AccountIds, NEW s \in StudentIds, NEW password \in Passwords,
             Register(a, s, password)
      PROVE  AccountsInv' /\ AttemptsInv'
  <2> DEFINE row == [state |-> "active", student |-> s, hash |-> FreshHash(password)]
  <2>1. FreshHash(password) \in Hash /\ salts + 1 \in 0..MaxSalts
    BY <1>2, <1>3, FreshHashType DEF Register
  <2>2. row \in Account
    BY <2>1 DEF Account
  <2>3. /\ credential' = [credential EXCEPT ![a] = row] /\ credential[a].state # "active"
        /\ salts' = salts + 1 /\ UNCHANGED <<sessions, disturbed, attempt>>
    BY <1>3 DEF Register
  <2> HIDE DEF row
  <2>4. AccountsInv'
    BY <1>2, <2>1, <2>2, <2>3, SessionsKept DEF SessionInv
  <2>5. QED
    BY <1>1, <2>3, <2>4, AttemptsUntouched DEF SessionInv
<1>4. ASSUME NEW a \in AccountIds, NEW password \in Passwords, ResetPassword(a, password)
      PROVE  AccountsInv' /\ AttemptsInv'
  <2> DEFINE new == FreshHash(password)
             row == [credential[a] EXCEPT !.hash = new]
  <2>1. new \in Hash /\ salts' \in 0..MaxSalts
    BY <1>2, <1>4, FreshHashType DEF ResetPassword
  <2>2. /\ credential' = [credential EXCEPT ![a] = row] /\ sessions' = sessions \ SessionsOf(a)
        /\ Disturb(a) /\ attempt' = Without(AttemptsOf(credential[a].student))
    BY <1>4 DEF ResetPassword
  <2> HIDE DEF new
  <2>3. row \in Account
    BY <1>2, <2>1 DEF Account
  <2> HIDE DEF row
  <2>4. AccountsInv'
    BY <2>1, <2>2, <2>3, SessionsDropped, DisturbType DEF SessionInv
  <2>5. QED
    BY <1>1, <2>2, <2>4, AttemptsCleared DEF SessionInv
<1>5. ASSUME NEW a \in AccountIds, SoftDelete(a)
      PROVE  AccountsInv' /\ AttemptsInv'
  <2> DEFINE row == [credential[a] EXCEPT !.state = "archived"]
  <2>1. row \in Account
    BY <1>2 DEF Account
  <2>2. /\ credential' = [credential EXCEPT ![a] = row] /\ sessions' = sessions \ SessionsOf(a)
        /\ Disturb(a) /\ UNCHANGED <<salts, attempt>>
    BY <1>5 DEF SoftDelete
  <2> HIDE DEF row
  <2>3. AccountsInv'
    BY <1>2, <2>1, <2>2, SessionsDropped, DisturbType DEF SessionInv
  <2>4. QED
    BY <1>1, <2>2, <2>3, AttemptsUntouched DEF SessionInv
<1>6. ASSUME NEW a \in AccountIds, Restore(a)
      PROVE  AccountsInv' /\ AttemptsInv'
  <2> DEFINE row == [credential[a] EXCEPT !.state = "active"]
  <2>1. row \in Account
    BY <1>2 DEF Account
  <2>2. /\ credential' = [credential EXCEPT ![a] = row] /\ credential[a].state # "active"
        /\ UNCHANGED <<sessions, salts, disturbed, attempt>>
    BY <1>6 DEF Restore
  <2> HIDE DEF row
  <2>3. AccountsInv'
    BY <1>2, <2>1, <2>2, SessionsKept DEF SessionInv
  <2>4. QED
    BY <1>1, <2>2, <2>3, AttemptsUntouched DEF SessionInv
<1>7. ASSUME NEW a \in AccountIds, HardDelete(a)
      PROVE  AccountsInv' /\ AttemptsInv'
  <2> DEFINE row == [credential[a] EXCEPT !.state = "deleted"]
  <2>1. row \in Account
    BY <1>2 DEF Account
  <2>2. /\ credential' = [credential EXCEPT ![a] = row] /\ sessions' = sessions \ SessionsOf(a)
        /\ Disturb(a) /\ UNCHANGED salts /\ attempt' = Without(AttemptsOf(credential[a].student))
    BY <1>7 DEF HardDelete
  <2> HIDE DEF row
  <2>3. AccountsInv'
    BY <1>2, <2>1, <2>2, SessionsDropped, DisturbType DEF SessionInv
  <2>4. QED
    BY <1>1, <2>2, <2>3, AttemptsCleared DEF SessionInv
<1>8. ASSUME NEW a \in AccountIds, Unlock(a)
      PROVE  AccountsInv' /\ AttemptsInv'
  BY <1>1, <1>8, AccountsUntouched, AttemptsCleared DEF SessionInv, Unlock
<1>9. QED
  BY <1>3, <1>4, <1>5, <1>6, <1>7, <1>8 DEF Administer

\* The steps of nobody's request: a session ends, or attempts grow old.
LEMMA HousekeepingInv ==
  ASSUME SessionInv,
         \/ \E s \in sessions : Logout(s)
         \/ \E r \in LoginIds : Age(r)
         \/ DeleteAllExpiredAttempts
         \/ UNCHANGED vars
  PROVE  SessionInv'
<1>1. UNCHANGED <<login, change>> /\ LoginsInv' /\ ChangesInv'
  BY DEF SessionInv, LoginsInv, ChangesInv, Logout, Age, DeleteAllExpiredAttempts, vars
<1> SUFFICES AccountsInv' /\ AttemptsInv'
  BY <1>1 DEF SessionInv
<1>2. ASSUME NEW s \in sessions, Logout(s)
      PROVE  AccountsInv' /\ AttemptsInv'
  <2>1. AccountsInv'
    BY <1>2 DEF SessionInv, AccountsInv, SessionsKnowPassword, Logout
  <2>2. QED
    BY <1>1, <1>2, <2>1, AttemptsUntouched DEF SessionInv, Logout
<1>3. ASSUME NEW r \in LoginIds, Age(r)
      PROVE  AccountsInv' /\ AttemptsInv'
  <2>1. attempt[r] = "recent" /\ attempt' = [attempt EXCEPT ![r] = "expired"]
    BY <1>3 DEF Age
  <2>2. attempt' \in [LoginIds -> Attempts]
    BY <2>1 DEF SessionInv, AttemptsInv, Attempts
  <2>3. ASSUME NEW q \in LoginIds, login'[q].phase = "idle" PROVE attempt'[q] = "none"
    <3>1. attempt[q] = "none"
      BY <1>1, <2>3 DEF SessionInv, AttemptsInv
    <3>2. QED
      BY <2>1, <3>1 DEF SessionInv, AttemptsInv
  <2>4. QED
    BY <1>3, <2>2, <2>3, AccountsUntouched DEF SessionInv, AttemptsInv, Age
<1>4. CASE DeleteAllExpiredAttempts
  BY <1>1, <1>4, AccountsUntouched, AttemptsCleared DEF SessionInv, DeleteAllExpiredAttempts
<1>5. CASE UNCHANGED vars
  BY <1>1, <1>5, AccountsUntouched, AttemptsUntouched DEF SessionInv, vars
<1>6. QED
  BY <1>2, <1>3, <1>4, <1>5

\* The invariant holds at the start.
LEMMA SessionInvInit ==
  ASSUME Init PROVE SessionInv
<1>1. LoginsInv
  <2>1. NoLogin \in LoginRow /\ LoginRowOK(NoLogin)
    BY NoHashType DEF NoLogin, LoginRow, LoginRowOK
  <2>2. QED
    BY <2>1 DEF Init, LoginsInv
<1>2. ChangesInv
  <2>1. NoChange \in ChangeRow /\ ChangeRowOK(NoChange)
    BY NoHashType DEF NoChange, ChangeRow, ChangeRowOK
  <2>2. QED
    BY <2>1 DEF Init, ChangesInv
<1>3. AccountsInv
  <2>1. NoAccount \in Account
    BY NoHashType DEF NoAccount, Account
  <2>2. [state : {"active", "archived"}, student : StudentIds,
         hash : [password : Passwords, salt : {0},
                 policy : {"current", "legacy", "unsupported"}]] \subseteq Account
    BY LockoutAssumption DEF Account, Hash
  <2>3. credential \in [AccountIds -> Account]
    BY <2>1, <2>2 DEF Init, InheritedAccounts
  <2>4. QED
    BY <2>3, LockoutAssumption DEF Init, AccountsInv, SessionsKnowPassword
<1>4. AttemptsInv
  BY DEF Init, AttemptsInv, Attempts
<1>5. QED
  BY <1>1, <1>2, <1>3, <1>4 DEF SessionInv

\* The invariant that carries the guarantees about sessions.
THEOREM SessionInvariant == Spec => []SessionInv
<1>1. Init => SessionInv
  BY SessionInvInit
<1>2. SessionInv /\ [Next]_vars => SessionInv'
  BY LoginStepInv, ChangeStepInv, AdministerInv, HousekeepingInv DEF Next
<1>3. QED
  BY <1>1, <1>2, PTL DEF Spec

\* Logins, changes, accounts, sessions and attempts always have their types.
THEOREM CredentialsTypeCorrect == Spec => []TypeOK
<1>1. SessionInv => TypeOK
  BY DEF SessionInv, LoginsInv, ChangesInv, AccountsInv, AttemptsInv, TypeOK
<1>2. QED
  BY <1>1, SessionInvariant, PTL

\* No session outlives the password it was opened with, nor its account's activity.
THEOREM SessionsCorrect == Spec => []SessionsKnowPassword
<1>1. SessionInv => SessionsKnowPassword
  BY DEF SessionInv, AccountsInv
<1>2. QED
  BY <1>1, SessionInvariant, PTL

-----------------------------------------------------------------------------
(* The lockout. Whoever is counted, or still may be, is pending; admission is *)
(* the only step that adds to them, and it adds to the logins under way.      *)

Pending(s, client) == GetRecentAttempts(s, client) \union Admitted(s, client)

LockInv ==
  /\ Cardinality(LoginsUnderWay) <= Workers
  /\ \A s \in StudentIds, client \in Clients :
       Cardinality(Pending(s, client)) <= LockoutLimit - 1 + Workers

\* Sets of logins are finite, so that their cardinalities can be compared.
LEMMA LoginsFinite ==
  ASSUME NEW S \in SUBSET LoginIds
  PROVE  /\ IsFiniteSet(S) /\ Cardinality(S) \in Nat
         /\ \A T \in SUBSET S : Cardinality(T) \in Nat /\ Cardinality(T) <= Cardinality(S)
<1>1. IsFiniteSet(S)
  BY RequestsAssumption, FS_Subset
<1>2. \A T \in SUBSET S : IsFiniteSet(T) /\ Cardinality(T) <= Cardinality(S)
  BY <1>1, FS_Subset
<1>3. QED
  BY <1>1, <1>2, FS_CardinalityType

\* Nobody becomes pending and nobody gets under way.
LEMMA NobodyNew ==
  ASSUME LockInv, LoginsUnderWay' \subseteq LoginsUnderWay,
         \A s \in StudentIds, client \in Clients : Pending(s, client)' \subseteq Pending(s, client)
  PROVE  LockInv'
<1>1. Cardinality(LoginsUnderWay') <= Workers
  <2>1. LoginsUnderWay \in SUBSET LoginIds
    BY DEF LoginsUnderWay
  <2>2. Cardinality(LoginsUnderWay) \in Nat /\ Cardinality(LoginsUnderWay') \in Nat
        /\ Cardinality(LoginsUnderWay') <= Cardinality(LoginsUnderWay)
    BY <2>1, LoginsFinite
  <2>3. QED
    BY <2>2, LockoutAssumption DEF LockInv
<1>2. ASSUME NEW s \in StudentIds, NEW client \in Clients
      PROVE  Cardinality(Pending(s, client)') <= LockoutLimit - 1 + Workers
  <2>1. Pending(s, client) \in SUBSET LoginIds
    BY DEF Pending, GetRecentAttempts, AttemptsOf, Admitted
  <2>2. Cardinality(Pending(s, client)) \in Nat /\ Cardinality(Pending(s, client)') \in Nat
        /\ Cardinality(Pending(s, client)') <= Cardinality(Pending(s, client))
    BY <2>1, LoginsFinite
  <2>3. QED
    BY <2>2, LockoutAssumption DEF LockInv
<1>3. QED
  BY <1>1, <1>2 DEF LockInv

\* A login moves on without being admitted; only a failed one leaves an attempt.
LEMMA MovingOn ==
  ASSUME LockInv, login \in [LoginIds -> LoginRow], NEW r \in LoginIds, NEW row,
         login' = [login EXCEPT ![r] = row],
         row.student = login[r].student, row.client = login[r].client,
         row.phase \in {"admitted", "failing"} => login[r].phase \in {"admitted", "failing"},
         row.phase \in LoginSteps => login[r].phase \in LoginSteps,
         \A q \in LoginIds : attempt'[q] = "recent" =>
           attempt[q] = "recent" \/ (q = r /\ login[r].phase = "failing")
  PROVE  LockInv'
<1>1. LoginsUnderWay' \subseteq LoginsUnderWay
  BY DEF LoginsUnderWay
<1>2. ASSUME NEW s \in StudentIds, NEW client \in Clients, NEW q \in Pending(s, client)'
      PROVE  q \in Pending(s, client)
  <2>1. q \in LoginIds /\ login'[q].student = s /\ login'[q].client = client
        /\ (attempt'[q] = "recent" \/ login'[q].phase \in {"admitted", "failing"})
    BY <1>2 DEF Pending, GetRecentAttempts, AttemptsOf, Admitted
  <2>2. login[q].student = s /\ login[q].client = client
    BY <2>1
  <2>3. attempt[q] = "recent" \/ login[q].phase \in {"admitted", "failing"}
    BY <2>1
  <2>4. QED
    BY <2>1, <2>2, <2>3 DEF Pending, GetRecentAttempts, AttemptsOf, Admitted
<1>3. QED
  BY <1>1, <1>2, NobodyNew

\* LoginAt in the form of MovingOn.
LEMMA MovingOnTo ==
  ASSUME LockInv, login \in [LoginIds -> LoginRow], NEW r \in LoginIds, NEW phase,
         LoginAt(r, phase),
         phase \in {"admitted", "failing"} => login[r].phase \in {"admitted", "failing"},
         phase \in LoginSteps => login[r].phase \in LoginSteps,
         \A q \in LoginIds : attempt'[q] = "recent" =>
           attempt[q] = "recent" \/ (q = r /\ login[r].phase = "failing")
  PROVE  LockInv'
<1> DEFINE row == [login[r] EXCEPT !.phase = phase]
<1>1. login' = [login EXCEPT ![r] = row]
  BY DEF LoginAt
<1>2. row.phase = phase /\ row.student = login[r].student /\ row.client = login[r].client
  BY DEF LoginRow
<1> HIDE DEF row
<1>3. QED
  BY <1>1, <1>2, MovingOn

\* A login that arrives is not counted yet.
LEMMA ReceiveLoginLock ==
  ASSUME SessionInv, LockInv, NEW r \in LoginIds, NEW s \in StudentIds, NEW client \in Clients,
         NEW password \in Passwords, ReceiveLogin(r, s, client, password)
  PROVE  LockInv'
<1> DEFINE row == [phase |-> "received", student |-> s, client |-> client,
                   password |-> password, account |-> Null, hash |-> NoHash]
<1>1. /\ login' = [login EXCEPT ![r] = row] /\ row.phase = "received" /\ UNCHANGED attempt
      /\ login[r].phase = "idle" /\ Cardinality(LoginsUnderWay) < Workers
  BY DEF ReceiveLogin
<1> HIDE DEF row
<1>2. login \in [LoginIds -> LoginRow] /\ attempt[r] = "none"
  BY <1>1 DEF SessionInv, LoginsInv, AttemptsInv
<1>3. Cardinality(LoginsUnderWay') <= Workers
  <2>1. LoginsUnderWay \in SUBSET LoginIds /\ LoginsUnderWay' \in SUBSET LoginIds
        /\ LoginsUnderWay' \subseteq LoginsUnderWay \union {r}
    BY <1>1, <1>2 DEF LoginsUnderWay
  <2>2. IsFiniteSet(LoginsUnderWay) /\ Cardinality(LoginsUnderWay) \in Nat
        /\ Cardinality(LoginsUnderWay') \in Nat
    BY <2>1, LoginsFinite
  <2>3. Cardinality(LoginsUnderWay \union {r}) <= Cardinality(LoginsUnderWay) + 1
    BY <2>2, FS_AddElement
  <2>4. LoginsUnderWay \union {r} \in SUBSET LoginIds
    BY <2>1
  <2>5. Cardinality(LoginsUnderWay \union {r}) \in Nat
        /\ Cardinality(LoginsUnderWay') <= Cardinality(LoginsUnderWay \union {r})
    BY <2>1, <2>4, LoginsFinite
  <2>6. QED
    BY <1>1, <2>2, <2>3, <2>5, LockoutAssumption
<1>4. ASSUME NEW t \in StudentIds, NEW c \in Clients
      PROVE  Cardinality(Pending(t, c)') <= LockoutLimit - 1 + Workers
  <2>1. Pending(t, c)' \subseteq Pending(t, c)
    <3> SUFFICES ASSUME NEW q \in Pending(t, c)' PROVE q \in Pending(t, c)
      OBVIOUS
    <3>1. q \in LoginIds /\ q # r
      BY <1>1, <1>2 DEF Pending, GetRecentAttempts, AttemptsOf, Admitted
    <3>2. login'[q] = login[q] /\ attempt'[q] = attempt[q]
      BY <1>1, <1>2, <3>1
    <3>3. QED
      BY <3>1, <3>2 DEF Pending, GetRecentAttempts, AttemptsOf, Admitted
  <2>2. Pending(t, c) \in SUBSET LoginIds
    BY DEF Pending, GetRecentAttempts, AttemptsOf, Admitted
  <2>3. Cardinality(Pending(t, c)) \in Nat /\ Cardinality(Pending(t, c)') \in Nat
        /\ Cardinality(Pending(t, c)') <= Cardinality(Pending(t, c))
    BY <2>1, <2>2, LoginsFinite
  <2>4. QED
    BY <2>3, LockoutAssumption DEF LockInv
<1>5. QED
  BY <1>3, <1>4 DEF LockInv

\* The step that lets someone in: fewer than the limit are counted, and those not
\* yet counted are under way.
LEMMA CheckLockoutLock ==
  ASSUME SessionInv, LockInv, NEW r \in LoginIds, CheckLockout(r)
  PROVE  LockInv'
<1>1. login \in [LoginIds -> LoginRow] /\ login[r].phase = "cleaned" /\ UNCHANGED attempt
  BY DEF CheckLockout, SessionInv, LoginsInv
<1>2. CASE LockedOut(r)
  BY <1>1, <1>2, MovingOnTo DEF CheckLockout, LoginSteps
<1>3. CASE ~LockedOut(r)
  <2> DEFINE row == [login[r] EXCEPT !.phase = "admitted"]
  <2>1. login' = [login EXCEPT ![r] = row]
    BY <1>3 DEF CheckLockout, LoginAt
  <2>2. row.phase = "admitted" /\ row.student = login[r].student /\ row.client = login[r].client
    BY <1>1 DEF LoginRow
  <2> HIDE DEF row
  <2>3. LoginsUnderWay' = LoginsUnderWay
    BY <1>1, <2>1, <2>2 DEF LoginsUnderWay, LoginSteps
  <2>4. ASSUME NEW s \in StudentIds, NEW client \in Clients
        PROVE  Cardinality(Pending(s, client)') <= LockoutLimit - 1 + Workers
    <3>1. CASE s = login[r].student /\ client = login[r].client
      <4> DEFINE R == GetRecentAttempts(s, client)
      <4>1. R \in SUBSET LoginIds /\ LoginsUnderWay \in SUBSET LoginIds
        BY DEF GetRecentAttempts, AttemptsOf, LoginsUnderWay
      <4>2. Pending(s, client)' \subseteq R \union LoginsUnderWay
        <5>1. GetRecentAttempts(s, client)' \subseteq R
          BY <1>1, <2>1, <2>2 DEF GetRecentAttempts, AttemptsOf
        <5>2. Admitted(s, client)' \subseteq LoginsUnderWay'
          BY DEF Admitted, LoginsUnderWay, LoginSteps
        <5>3. QED
          BY <2>3, <5>1, <5>2 DEF Pending
      <4>3. ~(Cardinality(R) >= LockoutLimit)
        BY <1>3, <3>1 DEF LockedOut
      <4> HIDE DEF R
      <4>4. /\ IsFiniteSet(R) /\ Cardinality(R) \in Nat
            /\ IsFiniteSet(LoginsUnderWay) /\ Cardinality(LoginsUnderWay) \in Nat
        BY <4>1, LoginsFinite
      <4>5. R \intersect LoginsUnderWay \in SUBSET LoginIds
            /\ R \union LoginsUnderWay \in SUBSET LoginIds
        BY <4>1
      <4>6. Cardinality(R \intersect LoginsUnderWay) \in Nat
        BY <4>5, LoginsFinite
      <4>7. Cardinality(R \union LoginsUnderWay) =
              Cardinality(R) + Cardinality(LoginsUnderWay) - Cardinality(R \intersect LoginsUnderWay)
        BY <4>4, FS_Union
      <4>8. Cardinality(Pending(s, client)') \in Nat
            /\ Cardinality(Pending(s, client)') <= Cardinality(R \union LoginsUnderWay)
        BY <4>2, <4>5, LoginsFinite
      <4>9. QED
        BY <4>3, <4>4, <4>6, <4>7, <4>8, LockoutAssumption DEF LockInv
    <3>2. CASE ~(s = login[r].student /\ client = login[r].client)
      <4>1. Pending(s, client)' = Pending(s, client)
        <5>1. \A q \in LoginIds : login'[q].student = login[q].student
                                /\ login'[q].client = login[q].client
                                /\ (q # r => login'[q].phase = login[q].phase)
          BY <1>1, <2>1, <2>2
        <5>2. QED
          BY <1>1, <3>2, <5>1 DEF Pending, GetRecentAttempts, AttemptsOf, Admitted
      <4>2. QED
        BY <4>1 DEF LockInv
    <3>3. QED
      BY <3>1, <3>2
  <2>5. QED
    BY <2>3, <2>4 DEF LockInv
<1>4. QED
  BY <1>2, <1>3

\* No step of a login lets the admitted and the counted ones pass the bound.
LEMMA LoginStepLock ==
  ASSUME SessionInv, LockInv, NEW r \in LoginIds, LoginStep(r)
  PROVE  LockInv'
<1>1. login \in [LoginIds -> LoginRow] /\ attempt \in [LoginIds -> Attempts]
  BY DEF SessionInv, LoginsInv, AttemptsInv
<1>2. CASE \E s \in StudentIds, client \in Clients, password \in Passwords :
             ReceiveLogin(r, s, client, password)
  BY <1>2, ReceiveLoginLock
<1>3. CASE DeleteExpiredAttempts(r)
  BY <1>1, <1>3, MovingOnTo DEF DeleteExpiredAttempts, Without, LoginSteps
<1>4. CASE CheckLockout(r)
  BY <1>4, CheckLockoutLock
<1>5. CASE FindAccount(r)
  <2>1. UNCHANGED attempt /\ login[r].phase = "admitted"
    BY <1>5 DEF FindAccount
  <2>2. CASE LoginAt(r, "failing")
    BY <1>1, <2>1, <2>2, MovingOnTo DEF LoginSteps
  <2>3. ASSUME NEW a, NEW phase, login' = [login EXCEPT ![r] =
                 [@ EXCEPT !.account = a, !.hash = credential[a].hash, !.phase = phase]]
        PROVE  LockInv'
    <3> DEFINE row == [login[r] EXCEPT !.account = a, !.hash = credential[a].hash, !.phase = phase]
    <3>1. login' = [login EXCEPT ![r] = row]
      BY <2>3
    <3>2. row.student = login[r].student /\ row.client = login[r].client
      BY <1>1 DEF LoginRow
    <3> HIDE DEF row
    <3>3. QED
      BY <1>1, <2>1, <3>1, <3>2, MovingOn DEF LoginSteps
  <2>4. QED
    BY <1>5, <2>2, <2>3 DEF FindAccount
<1>6. CASE RecordAttempt(r)
  <2>1. \A q \in LoginIds : attempt'[q] = "recent" => attempt[q] = "recent" \/ q = r
    BY <1>1, <1>6 DEF RecordAttempt
  <2>2. QED
    BY <1>1, <1>6, <2>1, MovingOnTo DEF RecordAttempt, LoginSteps
<1>7. CASE Rehash(r)
  <2> DEFINE row == [login[r] EXCEPT !.phase = "verified", !.hash = FreshHash(login[r].password)]
  <2>1. login[r].phase = "outdated" /\ UNCHANGED attempt
        /\ (login' = [login EXCEPT ![r] = row] \/ LoginAt(r, "verified"))
    BY <1>7 DEF Rehash
  <2>2. row.phase = "verified" /\ row.student = login[r].student /\ row.client = login[r].client
    BY <1>1 DEF LoginRow
  <2> HIDE DEF row
  <2>3. QED
    BY <1>1, <2>1, <2>2, MovingOn, MovingOnTo DEF LoginSteps
<1>8. CASE RehashFails(r)
  BY <1>1, <1>8, MovingOnTo DEF RehashFails, LoginSteps
<1>9. CASE ClearAttempts(r)
  BY <1>1, <1>9, MovingOnTo DEF ClearAttempts, Without, LoginSteps
<1>10. CASE OpenSession(r)
  BY <1>1, <1>10, MovingOnTo DEF OpenSession, LoginSteps
<1>11. QED
  BY <1>2, <1>3, <1>4, <1>5, <1>6, <1>7, <1>8, <1>9, <1>10 DEF LoginStep

\* No other step touches a login, or makes an attempt recent.
LEMMA OtherStepsLock ==
  ASSUME LockInv, attempt \in [LoginIds -> Attempts], UNCHANGED login,
         \/ UNCHANGED attempt
         \/ \E rows : attempt' = Without(rows)
         \/ \E r \in LoginIds : attempt' = [attempt EXCEPT ![r] = "expired"]
  PROVE  LockInv'
<1>1. \A q \in LoginIds : attempt'[q] = "recent" => attempt[q] = "recent"
  BY DEF Without
<1>2. LoginsUnderWay' \subseteq LoginsUnderWay
  BY DEF LoginsUnderWay
<1>3. \A s \in StudentIds, client \in Clients : Pending(s, client)' \subseteq Pending(s, client)
  BY <1>1 DEF Pending, GetRecentAttempts, AttemptsOf, Admitted
<1>4. QED
  BY <1>2, <1>3, NobodyNew

\* However logins interleave, fewer failures than the limit plus the logins that
\* are under way together ever count against a student from one client.
THEOREM LockoutCorrect == Spec => []LockoutBounded
<1>1. Init => LockInv
  <2> SUFFICES ASSUME Init PROVE LockInv
    OBVIOUS
  <2>1. LoginsUnderWay = {} /\ \A s \in StudentIds, client \in Clients : Pending(s, client) = {}
    BY DEF Init, NoLogin, LoginsUnderWay, LoginSteps, Pending, GetRecentAttempts, AttemptsOf, Admitted
  <2>2. QED
    BY <2>1, FS_EmptySet, LockoutAssumption DEF LockInv
<1>2. SessionInv /\ LockInv /\ [Next]_vars => LockInv'
  <2> SUFFICES ASSUME SessionInv, LockInv, [Next]_vars PROVE LockInv'
    OBVIOUS
  <2>1. attempt \in [LoginIds -> Attempts]
    BY DEF SessionInv, AttemptsInv
  <2>2. CASE \E r \in LoginIds : LoginStep(r)
    BY <2>2, LoginStepLock
  <2>3. CASE \E r \in ChangeIds : ChangeStep(r)
    BY <2>1, <2>3, OtherStepsLock DEF ChangeStep
  <2>4. CASE Administer
    <3>1. UNCHANGED login /\ (UNCHANGED attempt \/ \E rows : attempt' = Without(rows))
      BY <2>4 DEF Administer, Register, ResetPassword, SoftDelete, Restore, HardDelete, Unlock
    <3>2. QED
      BY <2>1, <3>1, OtherStepsLock
  <2>5. CASE \E s \in sessions : Logout(s)
    BY <2>1, <2>5, OtherStepsLock DEF Logout
  <2>6. CASE \E r \in LoginIds : Age(r)
    BY <2>1, <2>6, OtherStepsLock DEF Age
  <2>7. CASE DeleteAllExpiredAttempts
    BY <2>1, <2>7, OtherStepsLock DEF DeleteAllExpiredAttempts
  <2>8. CASE UNCHANGED vars
    BY <2>1, <2>8, OtherStepsLock DEF vars
  <2>9. QED
    BY <2>2, <2>3, <2>4, <2>5, <2>6, <2>7, <2>8 DEF Next
<1>3. SessionInv /\ LockInv => LockoutBounded
  <2> SUFFICES ASSUME LockInv, NEW s \in StudentIds, NEW client \in Clients
               PROVE  Cardinality(GetRecentAttempts(s, client)) <= LockoutLimit - 1 + Workers
    BY DEF LockoutBounded
  <2>1. Pending(s, client) \in SUBSET LoginIds
        /\ GetRecentAttempts(s, client) \subseteq Pending(s, client)
    BY DEF Pending, GetRecentAttempts, AttemptsOf, Admitted
  <2>2. /\ Cardinality(Pending(s, client)) \in Nat
        /\ Cardinality(GetRecentAttempts(s, client)) \in Nat
        /\ Cardinality(GetRecentAttempts(s, client)) <= Cardinality(Pending(s, client))
    BY <2>1, LoginsFinite
  <2>3. QED
    BY <2>2, LockoutAssumption DEF LockInv
<1>4. QED
  BY <1>1, <1>2, <1>3, SessionInvariant, PTL DEF Spec

-----------------------------------------------------------------------------
(* Who changes passwords. Every write of a hash but a reset names the hash it *)
(* replaces, so what was verified is what is replaced.                        *)

\* An upgrade replaces a hash by one of the same password.
LEMMA LoginStepKeepsPasswords ==
  ASSUME SessionInv, NEW r \in LoginIds, LoginStep(r), NEW a \in AccountIds
  PROVE  credential'[a].hash.password = credential[a].hash.password
<1>1. CASE UNCHANGED credential
  BY <1>1
<1>2. CASE Rehash(r) /\ credential' # credential
  <2> DEFINE b == login[r].account
             new == FreshHash(login[r].password)
             stored == [credential[b] EXCEPT !.hash = new]
  <2>1. /\ credential[b].hash = login[r].hash /\ login[r].phase = "outdated"
        /\ credential' = [credential EXCEPT ![b] = stored]
    BY <1>2 DEF Rehash
  <2>2. b \in AccountIds /\ login[r].hash.password = login[r].password
    BY <2>1 DEF SessionInv, LoginsInv, LoginRowOK
  <2>3. new.password = login[r].password
    BY DEF FreshHash
  <2>4. credential \in [AccountIds -> Account] /\ credential[b] \in Account
    BY <2>2 DEF SessionInv, AccountsInv
  <2> HIDE DEF new
  <2>5. stored.hash = new
    BY <2>4 DEF Account
  <2> HIDE DEF stored
  <2>6. CASE a = b
    BY <2>1, <2>2, <2>3, <2>4, <2>5, <2>6
  <2>7. CASE a # b
    BY <2>1, <2>4, <2>7
  <2>8. QED
    BY <2>6, <2>7
<1>3. QED
  BY <1>1, <1>2
  DEF LoginStep, ReceiveLogin, DeleteExpiredAttempts, CheckLockout, FindAccount, RecordAttempt,
      Rehash, RehashFails, ClearAttempts, OpenSession, accountVars

\* A change of password replaces the hash that it has verified.
LEMMA ChangeStepReplacesVerified ==
  ASSUME SessionInv, NEW r \in ChangeIds, ChangeStep(r), NEW a \in AccountIds,
         credential'[a].hash.password # credential[a].hash.password
  PROVE  /\ change[r].account = a
         /\ change[r].current = credential[a].hash.password
         /\ change'[r].phase = "committed"
<1>1. CommitChange(r) /\ credential' # credential
  BY DEF ChangeStep, ReceiveChange, GetPasswordHash, RotateSession, accountVars
<1> DEFINE b == change[r].account
           new == FreshHash(change[r].new)
           row == [change[r] EXCEPT !.phase = "committed", !.hash = new]
<1>2. /\ change[r].phase = "verified" /\ credential[b].hash = change[r].hash
      /\ credential' = [credential EXCEPT ![b].hash = new]
      /\ change' = [change EXCEPT ![r] = row]
  BY <1>1 DEF CommitChange
<1>3. change[r] \in ChangeRow /\ ChangeRowOK(change[r]) /\ change \in [ChangeIds -> ChangeRow]
  BY DEF SessionInv, ChangesInv
<1>4. credential[b].hash.password = change[r].current
  BY <1>2, <1>3 DEF ChangeRowOK
<1>5. row.phase = "committed"
  BY <1>3 DEF ChangeRow
<1> HIDE DEF new, row
<1>6. credential \in [AccountIds -> Account]
  BY DEF SessionInv, AccountsInv
<1>7. a = b
  BY <1>2, <1>6
<1>8. change'[r].phase = "committed"
  BY <1>2, <1>3, <1>5
<1>9. QED
  BY <1>4, <1>7, <1>8

\* Of what administrators do only a registration and a reset write a hash.
LEMMA AdministerChangesPasswords ==
  ASSUME SessionInv, Administer, NEW a \in AccountIds,
         credential'[a].hash.password # credential[a].hash.password
  PROVE  \/ credential[a].state = "unborn"
         \/ \E password \in Passwords : ResetPassword(a, password)
<1>0. credential \in [AccountIds -> Account]
  BY DEF SessionInv, AccountsInv
<1>1. ASSUME NEW b \in AccountIds, NEW s \in StudentIds, NEW password \in Passwords,
             Register(b, s, password)
      PROVE  credential[a].state = "unborn"
  BY <1>0, <1>1 DEF Register
<1>2. ASSUME NEW b \in AccountIds, NEW password \in Passwords, ResetPassword(b, password)
      PROVE  ResetPassword(a, password)
  <2>1. credential' = [credential EXCEPT ![b].hash = FreshHash(password)]
    BY <1>2 DEF ResetPassword
  <2>2. a = b
    BY <1>0, <2>1
  <2>3. QED
    BY <1>2, <2>2
<1>3. ASSUME NEW b \in AccountIds, SoftDelete(b) \/ Restore(b) \/ HardDelete(b) \/ Unlock(b)
      PROVE  FALSE
  <2>1. \/ UNCHANGED credential
        \/ \E state : credential' = [credential EXCEPT ![b].state = state]
    BY <1>3 DEF SoftDelete, Restore, HardDelete, Unlock, accountVars
  <2>2. ASSUME NEW state, credential' = [credential EXCEPT ![b].state = state]
        PROVE  credential'[a].hash = credential[a].hash
    <3> DEFINE row == [credential[b] EXCEPT !.state = state]
    <3>1. row.hash = credential[b].hash
      BY <1>0 DEF Account
    <3>2. credential' = [credential EXCEPT ![b] = row]
      BY <2>2
    <3> HIDE DEF row
    <3>3. QED
      BY <1>0, <3>1, <3>2
  <2>3. QED
    BY <2>1, <2>2
<1>4. QED
  BY <1>1, <1>2, <1>3 DEF Administer

\* Nobody changes a password but an administrator, or someone who knew the one it
\* replaces, and no upgrade overwrites a newer password, whatever has happened to the
\* account since the hash was verified (changePassword, authenticate, resetPassword).
THEOREM PasswordChangesCorrect == Spec => PasswordChangesAuthorised
<1> DEFINE Authorised == \A a \in AccountIds :
             credential'[a].hash.password # credential[a].hash.password =>
               \/ credential[a].state = "unborn"
               \/ \E password \in Passwords : ResetPassword(a, password)
               \/ \E r \in ChangeIds : /\ change[r].account = a
                                      /\ change[r].current = credential[a].hash.password
                                      /\ change'[r].phase = "committed"
<1>1. SessionInv /\ [Next]_vars => [Authorised]_vars
  <2> SUFFICES ASSUME SessionInv, Next, NEW a \in AccountIds,
                      credential'[a].hash.password # credential[a].hash.password
               PROVE  \/ credential[a].state = "unborn"
                      \/ \E password \in Passwords : ResetPassword(a, password)
                      \/ \E r \in ChangeIds : /\ change[r].account = a
                                             /\ change[r].current = credential[a].hash.password
                                             /\ change'[r].phase = "committed"
    OBVIOUS
  <2>1. ASSUME NEW r \in LoginIds, LoginStep(r) PROVE FALSE
    BY <2>1, LoginStepKeepsPasswords
  <2>2. ASSUME NEW r \in ChangeIds, ChangeStep(r)
        PROVE  \E q \in ChangeIds : /\ change[q].account = a
                                    /\ change[q].current = credential[a].hash.password
                                    /\ change'[q].phase = "committed"
    BY <2>2, ChangeStepReplacesVerified
  <2>3. CASE Administer
    BY <2>3, AdministerChangesPasswords
  <2>4. CASE UNCHANGED credential
    BY <2>4
  <2>5. QED
    BY <2>1, <2>2, <2>3, <2>4 DEF Next, Logout, Age, DeleteAllExpiredAttempts, accountVars
<1>2. QED
  BY <1>1, SessionInvariant, PTL DEF Spec, PasswordChangesAuthorised

-----------------------------------------------------------------------------
(* Who is turned away. Whoever writes the row of an account while a login     *)
(* holds a hash of it disturbs that login, but for the upgrade by another     *)
(* login, which replaces legacy hashes only.                                  *)

Holding == {"outdated", "verified", "cleared"}

\* What a login has read so far, by its step.
ReadSoFar(row) ==
  /\ row.phase \in {"idle", "received", "cleaned", "admitted"} => row.account = Null
  /\ row.phase = "failing" => row.account = Null \/ ~Verifies(row.password, row.hash)
  /\ row.phase = "outdated" => NeedsRehash(row.hash)

\* The account of an undisturbed login is active, with the hash that was read unless
\* that one was to be upgraded.
HoldsGoodHash(row, stored) ==
  row.phase \in Holding =>
    /\ stored.state = "active"
    /\ NeedsRehash(row.hash) \/ stored.hash = row.hash

Refused(row) ==
  row.phase = "INVALID_CREDENTIALS" /\ row.account # Null /\ Verifies(row.password, row.hash)

CauseInv ==
  \A r \in LoginIds :
    /\ ReadSoFar(login[r])
    /\ r \notin disturbed => /\ HoldsGoodHash(login[r], credential[login[r].account])
                             /\ Refused(login[r]) => NeedsRehash(login[r].hash)

\* A step that leaves the logins alone, and the accounts of the undisturbed ones.
LEMMA CauseUntouched ==
  ASSUME CauseInv, UNCHANGED login, disturbed \subseteq disturbed',
         \A r \in LoginIds : login[r].phase \in Holding /\ r \notin disturbed' =>
           credential'[login[r].account] = credential[login[r].account]
  PROVE  CauseInv'
  BY DEF CauseInv, HoldsGoodHash

\* A login moves on and no account is written.
LEMMA CauseMoves ==
  ASSUME CauseInv, login \in [LoginIds -> LoginRow], NEW r \in LoginIds, NEW row,
         login' = [login EXCEPT ![r] = row], UNCHANGED <<credential, disturbed>>,
         ReadSoFar(row),
         r \notin disturbed => HoldsGoodHash(row, credential[row.account]),
         r \notin disturbed /\ Refused(row) => NeedsRehash(row.hash)
  PROVE  CauseInv'
  BY DEF CauseInv

\* The same where only the step changes.
LEMMA CauseMovesTo ==
  ASSUME CauseInv, login \in [LoginIds -> LoginRow], NEW r \in LoginIds,
         NEW phase, phase \notin {"idle", "received", "outdated", "verified"}, LoginAt(r, phase),
         UNCHANGED <<credential, disturbed>>,
         phase \in {"cleaned", "admitted", "failing"} => login[r].account = Null,
         phase = "cleared" => login[r].phase \in Holding,
         phase = "INVALID_CREDENTIALS" =>
           \/ login[r].phase = "failing"
           \/ login[r].phase = "cleared" /\ ~PasswordUnchanged(login[r].account, login[r].hash)
  PROVE  CauseInv'
<1> DEFINE row == [login[r] EXCEPT !.phase = phase]
<1>1. login' = [login EXCEPT ![r] = row]
  BY DEF LoginAt
<1>2. /\ row.phase = phase /\ row.account = login[r].account
      /\ row.password = login[r].password /\ row.hash = login[r].hash
  BY DEF LoginRow
<1> HIDE DEF row
<1>3. /\ ReadSoFar(login[r])
      /\ r \notin disturbed => HoldsGoodHash(login[r], credential[login[r].account])
  BY DEF CauseInv
<1>4. ReadSoFar(row)
  BY <1>2 DEF ReadSoFar
<1>5. r \notin disturbed => HoldsGoodHash(row, credential[row.account])
  BY <1>2, <1>3 DEF HoldsGoodHash, Holding
<1>6. r \notin disturbed /\ Refused(row) => NeedsRehash(row.hash)
  BY <1>2, <1>3 DEF Refused, ReadSoFar, HoldsGoodHash, Holding, PasswordUnchanged
<1>7. QED
  BY <1>1, <1>4, <1>5, <1>6, CauseMoves

\* The hash that the login reads is the stored one, of an active account.
LEMMA FindAccountCause ==
  ASSUME SessionInv, CauseInv, NEW r \in LoginIds, FindAccount(r)
  PROVE  CauseInv'
<1>1. login[r].phase = "admitted" /\ UNCHANGED <<credential, disturbed>>
  BY DEF FindAccount, accountVars
<1>2. login \in [LoginIds -> LoginRow] /\ login[r].account = Null
  BY <1>1 DEF SessionInv, LoginsInv, CauseInv, ReadSoFar
<1>3. CASE LoginAt(r, "failing")
  BY <1>1, <1>2, <1>3, CauseMovesTo
<1>4. ASSUME NEW a \in FindByStudentId(login[r].student), credential[a].state = "active",
             NEW phase,
             phase = IF ~Verifies(login[r].password, credential[a].hash) THEN "failing"
                     ELSE IF NeedsRehash(credential[a].hash) THEN "outdated" ELSE "verified",
             login' = [login EXCEPT ![r] =
                         [@ EXCEPT !.account = a, !.hash = credential[a].hash, !.phase = phase]]
      PROVE  CauseInv'
  <2> DEFINE row == [login[r] EXCEPT !.account = a, !.hash = credential[a].hash, !.phase = phase]
  <2>1. login' = [login EXCEPT ![r] = row]
    BY <1>4
  <2>2. /\ row.phase = phase /\ row.account = a /\ row.hash = credential[a].hash
        /\ row.password = login[r].password
    BY <1>2 DEF LoginRow
  <2> HIDE DEF row
  <2>3. /\ phase \in {"failing", "outdated", "verified"}
        /\ phase = "failing" => ~Verifies(login[r].password, credential[a].hash)
        /\ phase = "outdated" => NeedsRehash(credential[a].hash)
    BY <1>4
  <2>4. ReadSoFar(row) /\ HoldsGoodHash(row, credential[row.account]) /\ ~Refused(row)
    BY <1>4, <2>2, <2>3 DEF ReadSoFar, HoldsGoodHash, Refused
  <2>5. QED
    BY <1>1, <1>2, <2>1, <2>4, CauseMoves
<1>5. QED
  BY <1>3, <1>4 DEF FindAccount

\* An upgrade replaces a legacy hash, so nobody loses a hash that is not one.
LEMMA RehashCause ==
  ASSUME SessionInv, CauseInv, NEW r \in LoginIds, Rehash(r) \/ RehashFails(r)
  PROVE  CauseInv'
<1> DEFINE a == login[r].account
           new == FreshHash(login[r].password)
           kept == [login[r] EXCEPT !.phase = "verified"]
           row == [login[r] EXCEPT !.phase = "verified", !.hash = new]
           stored == [credential[a] EXCEPT !.hash = new]
<1>1. login[r].phase = "outdated" /\ UNCHANGED disturbed
  BY DEF Rehash, RehashFails, accountVars
<1>2. /\ login \in [LoginIds -> LoginRow] /\ credential \in [AccountIds -> Account]
      /\ LoginRowOK(login[r])
  BY DEF SessionInv, LoginsInv, AccountsInv
<1>3. a \in AccountIds /\ login[r].account # Null /\ NeedsRehash(login[r].hash)
  BY <1>1, <1>2, NullAssumption DEF LoginRowOK, CauseInv, ReadSoFar
<1>4. r \notin disturbed => credential[a].state = "active"
  BY <1>1 DEF CauseInv, HoldsGoodHash, Holding
<1>5. CASE UNCHANGED credential /\ LoginAt(r, "verified")
  <2>1. login' = [login EXCEPT ![r] = kept]
    BY <1>5 DEF LoginAt
  <2>2. kept.phase = "verified" /\ kept.account = a /\ kept.hash = login[r].hash
    BY <1>2 DEF LoginRow
  <2> HIDE DEF kept
  <2>3. /\ ReadSoFar(kept) /\ ~Refused(kept)
        /\ r \notin disturbed => HoldsGoodHash(kept, credential[kept.account])
    BY <1>3, <1>4, <2>2 DEF ReadSoFar, Refused, HoldsGoodHash
  <2>4. QED
    BY <1>1, <1>2, <1>5, <2>1, <2>3, CauseMoves
<1>6. CASE /\ credential[a].hash = login[r].hash
           /\ credential' = [credential EXCEPT ![a] = stored]
           /\ login' = [login EXCEPT ![r] = row]
  <2> HIDE DEF new
  <2>1. row.phase = "verified" /\ row.account = a /\ row.hash = new
    BY <1>2 DEF LoginRow
  <2>2. stored.state = credential[a].state /\ stored.hash = new
    BY <1>2, <1>3 DEF Account
  <2> HIDE DEF row, stored, a
  <2>3. /\ ReadSoFar(row) /\ ~Refused(row)
        /\ r \notin disturbed => HoldsGoodHash(row, stored)
    BY <1>4, <2>1, <2>2 DEF ReadSoFar, Refused, HoldsGoodHash
  <2>4. ASSUME NEW q \in LoginIds, q # r, q \notin disturbed
        PROVE  HoldsGoodHash(login[q], credential'[login[q].account])
    <3>1. HoldsGoodHash(login[q], credential[login[q].account])
      BY <2>4 DEF CauseInv
    <3>2. CASE login[q].account = a
      BY <1>2, <1>3, <1>6, <2>2, <3>1, <3>2 DEF HoldsGoodHash
    <3>3. CASE login[q].account # a
      BY <1>2, <1>6, <3>1, <3>3
    <3>4. QED
      BY <3>2, <3>3
  <2>5. credential'[row.account] = stored
    BY <1>2, <1>3, <1>6, <2>1 DEF a
  <2>6. QED
    BY <1>1, <1>2, <1>6, <2>3, <2>4, <2>5 DEF CauseInv
<1>7. QED
  BY <1>5, <1>6 DEF Rehash, RehashFails, accountVars

\* A refused login is disturbed, or holds a legacy hash: nothing else can have
\* replaced the hash that it verified.
LEMMA LoginStepCause ==
  ASSUME SessionInv, CauseInv, NEW r \in LoginIds, LoginStep(r)
  PROVE  CauseInv'
<1>0. login \in [LoginIds -> LoginRow] /\ ReadSoFar(login[r])
  BY DEF SessionInv, LoginsInv, CauseInv
<1>1. ASSUME NEW s \in StudentIds, NEW client \in Clients, NEW password \in Passwords,
             ReceiveLogin(r, s, client, password)
      PROVE  CauseInv'
  <2> DEFINE row == [phase |-> "received", student |-> s, client |-> client,
                     password |-> password, account |-> Null, hash |-> NoHash]
  <2>1. login' = [login EXCEPT ![r] = row] /\ UNCHANGED <<credential, disturbed>>
    BY <1>1 DEF ReceiveLogin, accountVars
  <2>2. ReadSoFar(row) /\ ~Refused(row) /\ HoldsGoodHash(row, credential[row.account])
    BY DEF ReadSoFar, Refused, HoldsGoodHash, Holding
  <2> HIDE DEF row
  <2>3. QED
    BY <1>0, <2>1, <2>2, CauseMoves
<1>2. CASE DeleteExpiredAttempts(r)
  BY <1>0, <1>2, CauseMovesTo DEF DeleteExpiredAttempts, accountVars, ReadSoFar
<1>3. CASE CheckLockout(r)
  <2>1. PICK phase \in {"RATE_LIMITED_ACCOUNT", "admitted"} : LoginAt(r, phase)
    BY <1>3 DEF CheckLockout
  <2>2. login[r].account = Null /\ UNCHANGED <<credential, disturbed>>
    BY <1>0, <1>3 DEF CheckLockout, accountVars, ReadSoFar
  <2>3. QED
    BY <1>0, <2>1, <2>2, CauseMovesTo
<1>4. CASE FindAccount(r)
  BY <1>4, FindAccountCause
<1>5. CASE RecordAttempt(r)
  BY <1>0, <1>5, CauseMovesTo DEF RecordAttempt, accountVars
<1>6. CASE Rehash(r) \/ RehashFails(r)
  BY <1>6, RehashCause
<1>7. CASE ClearAttempts(r)
  BY <1>0, <1>7, CauseMovesTo DEF ClearAttempts, accountVars, Holding
<1>8. CASE OpenSession(r)
  <2>1. login[r].phase = "cleared" /\ UNCHANGED <<credential, disturbed>>
    BY <1>8 DEF OpenSession
  <2>2. CASE LoginAt(r, "logged_in")
    BY <1>0, <2>1, <2>2, CauseMovesTo
  <2>3. CASE LoginAt(r, "INVALID_CREDENTIALS")
             /\ ~PasswordUnchanged(login[r].account, login[r].hash)
    BY <1>0, <2>1, <2>3, CauseMovesTo
  <2>4. QED
    BY <1>8, <2>2, <2>3 DEF OpenSession
<1>9. QED
  BY <1>1, <1>2, <1>3, <1>4, <1>5, <1>6, <1>7, <1>8 DEF LoginStep

\* Whoever rewrites the row of an account that a login may hold disturbs that login.
LEMMA WriteDisturbs ==
  ASSUME SessionInv, CauseInv, UNCHANGED login, NEW a \in AccountIds, NEW row,
         credential' = [credential EXCEPT ![a] = row],
         Disturb(a) \/ (UNCHANGED disturbed /\ credential[a].state # "active")
  PROVE  CauseInv'
<1>1. credential \in [AccountIds -> Account]
  BY DEF SessionInv, AccountsInv
<1>2. disturbed \subseteq disturbed'
  BY DEF Disturb
<1>3. ASSUME NEW r \in LoginIds, login[r].phase \in Holding, r \notin disturbed'
      PROVE  credential'[login[r].account] = credential[login[r].account]
  <2>1. login[r].account # a
    BY <1>3 DEF Disturb, LoginsUnderWay, LoginSteps, Holding, CauseInv, HoldsGoodHash
  <2>2. QED
    BY <1>1, <2>1
<1>4. QED
  BY <1>2, <1>3, CauseUntouched

\* A change of password, and every act of an administrator, disturbs or leaves alone.
LEMMA OthersCause ==
  ASSUME SessionInv, CauseInv, UNCHANGED login,
         (\E r \in ChangeIds : ChangeStep(r)) \/ Administer
  PROVE  CauseInv'
<1>1. CASE UNCHANGED <<credential, disturbed>>
  BY <1>1, CauseUntouched
<1>2. ASSUME NEW r \in ChangeIds, CommitChange(r), ~UNCHANGED <<credential, disturbed>>
      PROVE  CauseInv'
  <2>1. change[r].account \in AccountIds
    BY <1>2 DEF CommitChange, SessionInv, ChangesInv, ChangeRowOK
  <2>2. QED
    BY <1>2, <2>1, WriteDisturbs DEF CommitChange
<1>3. ASSUME NEW a \in AccountIds,
             \/ \E s \in StudentIds, password \in Passwords : Register(a, s, password)
             \/ \E password \in Passwords : ResetPassword(a, password)
             \/ SoftDelete(a) \/ Restore(a) \/ HardDelete(a)
      PROVE  CauseInv'
  BY <1>3, WriteDisturbs DEF Register, ResetPassword, SoftDelete, Restore, HardDelete
<1>4. CASE \E r \in ChangeIds : ChangeStep(r)
  <2>1. PICK r \in ChangeIds : ChangeStep(r)
    BY <1>4
  <2>2. CASE CommitChange(r)
    BY <1>1, <1>2, <2>2
  <2>3. QED
    BY <1>1, <2>1, <2>2 DEF ChangeStep, ReceiveChange, GetPasswordHash, RotateSession, accountVars
<1>5. CASE Administer
  BY <1>1, <1>3, <1>5 DEF Administer, Unlock, accountVars
<1>6. QED
  BY <1>4, <1>5

\* A login with the right password, whose account nobody reset, changed, archived or
\* deleted in between, is refused in one case only: its hash was a legacy one that
\* another login upgraded first (authenticate, createSessionIfPasswordUnchanged).
THEOREM RefusalsExplained == Spec => []RefusalHasCause
<1>1. Init => CauseInv
  BY DEF Init, NoLogin, CauseInv, ReadSoFar, HoldsGoodHash, Holding, Refused
<1>2. SessionInv /\ CauseInv /\ [Next]_vars => CauseInv'
  <2> SUFFICES ASSUME SessionInv, CauseInv, [Next]_vars PROVE CauseInv'
    OBVIOUS
  <2>1. CASE \E r \in LoginIds : LoginStep(r)
    BY <2>1, LoginStepCause
  <2>2. CASE (\E r \in ChangeIds : ChangeStep(r)) \/ Administer
    <3>1. UNCHANGED login
      BY <2>2 DEF ChangeStep, Administer
    <3>2. QED
      BY <2>2, <3>1, OthersCause
  <2>3. CASE UNCHANGED <<login, credential, disturbed>>
    BY <2>3, CauseUntouched
  <2>4. QED
    BY <2>1, <2>2, <2>3 DEF Next, Logout, Age, DeleteAllExpiredAttempts, vars, accountVars
<1>3. CauseInv => RefusalHasCause
  BY DEF CauseInv, Refused, RefusalHasCause, RefusedForNothing
<1>4. QED
  BY <1>1, <1>2, <1>3, SessionInvariant, PTL DEF Spec
=============================================================================
