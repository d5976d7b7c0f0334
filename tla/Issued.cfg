SPECIFICATION Spec
CONSTANTS
  Subjects = {s1, s2}
  Ids = {i1, i2, i3}
  Ttls = {0, 2}
  Caps <- MinusOneOrTwo
  MaxClock = 3
  NoSubject = NoSubject
  NoId = NoId
SYMMETRY Symmetry
INVARIANTS
  PassesOnlyFreshDeliveries
  CapRespected
  NoFalseRefusal
  FailsClosed
