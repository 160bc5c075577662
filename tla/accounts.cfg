\* The parts of an account, two or three overlapping requests each.
\* The components never meet, so they share model values: one symmetry then serves all.
CONSTANTS
  Clients = {c1, c2}
  MaxCodes = 3
  MaxAttempts = 1
  MaxPerHour = 1
  MaxRedisFailures = 1
  Devices = {c1, c2}
  MaxSessions = 2
  MaxSecond = 3
  Callers = {c1, c2}
  NationalIds = {i1, i2}
  f1 = f1
  f2 = f2
  f3 = f3
  DocumentIds = {f1, f2, f3}
  TypeOf <- TypesOfDocuments
  Cards = {k1, k2, k3}
  Removers = {x1, x2}
  MaxCrashes = 1
  Admins = {a1, a2}
  GrantKeys = {g1, g2, g3}
  Caps = {1, 2}
  MaxGrantRequests = 4
  Submissions = {z1}
  References = {i1, i2}
  Operators = {c1, c2}
  MaxUnanswered = 1
  q1 = q1
  n1 = n1
  k1 = k1
  x1 = x1
  Payers = {y1}
  Amounts = {1, 2, 3}
  LimitOf <- LimitsOfActions
SPECIFICATION AccountsSpec
SYMMETRY AccountsSymmetry
INVARIANTS
  AccountsTypeOK
  SendLimited
  LogoutEndsOneSession
  BannedStaysOut
  VerificationEarned
  CardsConsistent
  CreditsAccounted
  WithdrawalsAsTold
PROPERTIES
  CodesGuarded
  KycOnlyMovesUp
  PaymentsWithinLimits
CHECK_DEADLOCK FALSE
