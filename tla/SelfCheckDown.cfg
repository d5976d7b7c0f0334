SPECIFICATION Spec
CONSTANTS
  c1 = c1
  c2 = c2
  c3 = c3
  c4 = c4
  c5 = c5
  a1 = a1
  a2 = a2
  Callers = {c1, c2}
  Accounts = {a1}
  AccountOf <- Pair
  NoAccount = NoAccount
  Interval = 2
  MaxClock = 1
  Outcomes = {"nil", "invalid credentials", "two-factor invalid", "unreachable",
              "context cancelled"}
  Nobody = Nobody
  Other = Other
  NoResult = NoResult
INVARIANT DownMeansUnreachable
