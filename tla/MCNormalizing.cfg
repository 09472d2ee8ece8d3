CONSTANTS
  Candidates <- AllPrograms
  Values = {"a", "b"}
  Untrusted = {"fetch"}
SPECIFICATION Spec
CHECK_DEADLOCK FALSE
INVARIANTS
  NormalizingKeepsMeaning
