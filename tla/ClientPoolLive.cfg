SPECIFICATION FairSpec
CONSTANTS
  c1 = c1
  c2 = c2
  c3 = c3
  k1 = k1
  k2 = k2
  s1 = s1
  s2 = s2
  s3 = s3
  a1 = a1
  a2 = a2
  Callers = {c1, c2}
  Closers = {k1}
  Subjects = {s1, s2, s3}
  Accounts = {a1}
  AccountOf <- OneUnmapped
  KeepAlive = TRUE
  NoAccount = NoAccount
  NoSubject = NoSubject
  Nobody = Nobody
PROPERTIES
  ImplementsFairLoginService
  KeepalivesEnd
  FailuresDoNotStick
