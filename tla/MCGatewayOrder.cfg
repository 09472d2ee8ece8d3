CONSTANTS
  Nothing = Nothing
  Malformed = Malformed
  Rules <- MCRules
  Symbols <- MCSymbols
  Results <- MCResults
  ToolParams <- MCToolParams
  Effects = {"alert", "send"}
  Gated = {}
  Shadowed = {}
  Args = {"u", "w"}
  BulkCap = 1
  MaxLoop = 3
  MaxPending = 1
  Policies = {"human", "reject", "approve"}
  Orderings = {TRUE, FALSE}
SPECIFICATION Spec
INVARIANTS
  NoExtraIteration
  InPlanOrder
  NothingAfterUnknown
PROPERTY
  KeepsTheMandate
