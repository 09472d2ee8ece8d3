CONSTANTS
  Candidates <- OrderedPrograms
  Values = {"a", "b"}
  Untrusted = {"fetch"}
SPECIFICATION Spec
CHECK_DEADLOCK FALSE
INVARIANTS
  EffectsAreThePlans
  HonestAgentIsServed
  GatesSeeEverySource
