CONSTANTS
  s1 = s1
  s2 = s2
  t1 = t1
  t2 = t2
  NoRow = NoRow
  Sessions <- MCSessions
  Tokens <- MCTokens
  Plan <- MCPlan
SPECIFICATION Spec
INVARIANTS
  AtMostOnceDispatch
  DispatchIsFenced
  SuccessIsWitnessed
  ReportedSuccessIsDurable
  StartedIsUndispatched
PROPERTY
  ImplementsAtMostOnce
