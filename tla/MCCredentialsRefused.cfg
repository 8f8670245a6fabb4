CONSTANTS
  Null = Null
  AccountIds = {a1}
  StudentIds = {s1}
  Clients = {ip1}
  Passwords = {pw1}
  LoginIds = {r1, r2}
  ChangeIds = {}
  LockoutLimit = 5
  Workers = 2
  MaxSalts = 2
SPECIFICATION Spec
INVARIANTS VerifiedLoginSucceeds
CHECK_DEADLOCK FALSE
