SPECIFICATION Spec
CONSTANTS
  c1 = c1
  c2 = c2
  c3 = c3
  c4 = c4
  c5 = c5
  a1 = a1
  a2 = a2
  Callers = {c1, c2, c3, c4, c5}
  Accounts = {a1, a2}
  AccountOf <- Shared
  NoAccount = NoAccount
  Interval = 2
  MaxClock = 3
  Outcomes = {"nil", "two-factor invalid", "context cancelled"}
  Nobody = Nobody
  Other = Other
  NoResult = NoResult
SYMMETRY Symmetry
INVARIANTS
  SelfCheckTypeOK
  AnswersFromOwnAttempts
  AttemptsBounded
PROPERTY CacheAdvances
