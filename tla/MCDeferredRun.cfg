CONSTANTS
  Program <- MCProgram
  Results <- MCResults
  Effects = {"pay", "log"}
  Untrusted = {"pay"}
  Control <- MCControl
  Text <- MCText
  Extra <- MCExtra
  MaxActions = 3
  Modes = {"direct", "batched", "human", "stream"}
  None = None
SPECIFICATION Spec
CHECK_DEADLOCK FALSE
INVARIANTS
  EffectsAreApproved
  SitesRunOnce
  DispatchIsCurrent
  GrantsAreSpentOnce
