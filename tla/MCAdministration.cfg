CONSTANTS
  Null = Null
  u1 = u1 u2 = u2 s1 = s1 s2 = s2 t1 = t1 t2 = t2
  ListedUsers = {u1, u2}
  RoleOf <- MCRoleOf
  Viewer = u1
  SearchTexts = {txt1}
  NoText = NoText
  PageBudgets <- MCPageBudgets
  Students = {s1, s2}
  NoStudent = NoStudent
  Rosters <- MCRosters
  ScriptRosters <- MCScriptRosters
  IMPORT_USERS_BATCH_SIZE = 2
  ImportBudget <- MCImportBudget
  MaxRows = 3
  LogTimes = {1, 2}
  LogIds = {1, 2, 3, 4, 5, 6}
  Targets = {t1, t2}
  InitialRows <- MCInitialRows
  PageSizes = {1, 2}
  DefaultPageSize = 1
  BATCH_SIZE = 2
  AuditBudgets <- MCAuditBudgets
  A1 = A1 A2 = A2 A3 = A3 N1 = N1 N2 = N2 n1 = n1
  c1 = c1 c2 = c2
  COMMON_POSITION_PRESETS <- MCPresets
  FirstNames = {m1, m2}
  AddedName = m3
  ElectionPageBudgets <- MCElectionPageBudgets
  AccountIds = {A1, A2, A3, N1, N2}
  RequestIds = {r1, r2}
  StudentIds = {s1}
  BaseNames = {n1}
  Beginnings <- MCBeginnings
  CandidateAccounts = {A3}
  ImportLists <- MCLists
  MaxNumber = 6
  GivenNames <- MCGiven
  ElectionIds = {e1, e2}
  OpenTimes = {0, 1, 2}
  CloseTimes = {0, 1, 2}
  MaxTime = 3
  Skew = 1
  BareCells <- MCBareCells
  QuotedCells <- MCQuotedCells
  MaxCells = 3
  MaxStudents = 3
SPECIFICATION AdministrationSpec
INVARIANTS OpenHasWindow AdministrationKept ImportAnswersTrue
  UsersPageCorrect RostersReadRightly ImportCorrect AuditLogCorrect ElectionPageCorrect
PROPERTIES NoSilentResume NoEarlyDisplacement AdministrationProgress
CHECK_DEADLOCK FALSE
