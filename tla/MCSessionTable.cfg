CONSTANTS
  None = None
  s1 = s1
  s2 = s2
  alice = alice
  bob = bob
  planA = planA
  planB = planB
  w1 = w1
  w2 = w2
  Ids = {s1, s2}
  Principals = {alice, bob}
  Plans = {planA, planB}
  Workers = {w1, w2}
  MaxSessions = 1
  Stored = TRUE
  MaxRequests = 4
  MaxCrashes = 1
SYMMETRY Symmetry
SPECIFICATION Spec
CHECK_DEADLOCK FALSE
INVARIANTS
  TypeOK
  OnlyTheOwner
  AckedIsDurable
PROPERTIES
  KeepsTheRegister
