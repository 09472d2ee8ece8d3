CONSTANTS
  Raw = Raw
  Garbage = Garbage
  Absent = Absent
  Torn = Torn
  s1 = s1
  s2 = s2
  read = read
  send = send
  sendOther = sendOther
  forge = forge
  answer = answer
  Sessions = {s1, s2}
  Strategies = {"deterministic", "auto", "llm-freeform", "specialized-codegen",
                "formal-semantic", "interactive-structuring", "sufficiency-tightness"}
  Budgets = {0, 1}
  Actions = {read, send, sendOther, forge}
  Needs <- MCNeeds
  IdOf <- MCIdOf
  Answers = {answer}
  Stated <- MCStated
  Drafts <- MCDrafts
  Crashing <- MCCrashing
  Canonical = {read, send}
  Tools <- MCTools
  EnableJudge = TRUE
  HasClarifier = TRUE
  MaxCrashes = 1
SPECIFICATION FairSpec
CHECK_DEADLOCK FALSE
INVARIANTS
  TypeOK
  OnlyVettedPlans
PROPERTIES
  EveryPromptIsAnswered
