SPECIFICATION CallSpec
CONSTANTS
  c1 = c1
  c2 = c2
  c3 = c3
  s1 = s1
  s2 = s2
  Calls = {c1, c2, c3}
  Subjects = {s1, s2}
  SubjectOf <- Busy
  Cost = 2
  GlobalRate = 3
  GlobalBurst = 4
  SubjectRate = 2
  SubjectBurst = 2
  MaxInflight = 2
  MaxClock = 1
  NoLimiter = NoLimiter
  Tools = {"search_documents", "get_runtime_stats"}
  StatsTool = "get_runtime_stats"
  ToolOf <- Mixed
  CanFail <- SearchFails
SYMMETRY Symmetry
INVARIANTS
  CallTypeOK
  SlotsMatchRunning
  GlobalRateHolds
  SubjectRateHolds
  CountsMatchCalls
  ReportsAreMoments
