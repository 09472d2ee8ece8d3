CONSTANTS
  u = u
  w = w
  Opaque = Opaque
  Nothing = Nothing
  Stages <- MCStages
  Results <- MCResults
  Values = {u, w}
  Untrusted = {"search"}
  Control = {"buy", "pay"}
  BulkCap = 1
  Policies = {"human", "approve", "reject"}
SPECIFICATION Spec
CHECK_DEADLOCK FALSE
INVARIANTS
  NothingEarly
  FanoutIsExact
  UntrustedIsConfirmed
  
