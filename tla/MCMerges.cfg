CONSTANTS
  Candidates <- UnrenamedPrograms
  Values = {"a", "b"}
  Untrusted = {"fetch"}
SPECIFICATION Spec
CHECK_DEADLOCK FALSE
INVARIANTS
  MergesAreExact
