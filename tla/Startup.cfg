SPECIFICATION Spec
CONSTANTS
  s1 = s1
  s2 = s2
  k1 = k1
  k2 = k2
  k3 = k3
  k4 = k4
  p1 = p1
  p2 = p2
  p3 = p3
  key0 = key0
  sc = sc
  sd = sd
  Subjects = {s1, s2}
  NoSubject = NoSubject
  Keys = {k1, k2, k3, k4}
  BadKeys = {k4}
  Prefixes = {p1, p2, p3}
  PrefixOf <- PrefixOfKey
  DefaultKey = key0
  Users = {"u1", "u2"}
  Scopes = {sc, sd}
  Environments <- AllEnvironments
INVARIANTS
  ResolvesAsWritten
  IndexAgrees
  NoProviderVariableIgnored
  AccountNeedsAll
