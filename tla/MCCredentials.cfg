CONSTANTS
  Null = Null
  AccountIds = {a1}
  StudentIds = {s1}
  Clients = {ip1}
  Passwords = {pw1, pw2}
  LoginIds = {r1, r2, r3}
  ChangeIds = {c1}
  LockoutLimit = 1
  Workers = 2
  MaxSalts = 2
SPECIFICATION Spec
SYMMETRY Symmetry
INVARIANTS SessionsKnowPassword LockoutBounded RefusalHasCause
PROPERTIES PasswordChangesAuthorised
CHECK_DEADLOCK FALSE
