CONSTANTS
  Nothing = Nothing
  Malformed = Malformed
  Rules <- MCRules
  Symbols <- MCSymbols
  Results <- MCResults
  ToolParams <- MCToolParams
  Effects = {"pay", "erase"}
  Gated = {"pay"}
  Shadowed = {}
  Args = {"u", "w"}
  BulkCap = 1
  MaxLoop = 2
  MaxPending = 1
  Policies = {"human", "reject"}
  Orderings = {FALSE}
SPECIFICATION Spec
INVARIANTS
  TypeOK
  OperandsAreConfirmed
  ReauthorizationIsExclusive
