CONSTANTS
  t1 = t1
  t2 = t2
  g1 = g1
  g2 = g2
  good = good
  bad = bad
  None = None
  Torn = Torn
  Bare = Bare
  Runners = {"factorial", "cross", "live", "st"}
  Tasks <- MCTasks
  Goals <- MCGoals
  Planned <- MCPlanned
  Designs = {"d", "e"}
  Transcripts <- MCTranscripts
  Drafts = {good, bad}
  Compiling = {good}
  Tears = {"half", "unended"}
  MaxStarts = 3
  MaxErrors = 1
SPECIFICATION Spec
CHECK_DEADLOCK FALSE
INVARIANTS
  CleanRunsAreAnalyzable
  FinishedMeansAnswered
  ArtifactsBackRows
PROPERTY
  PaidRowsAreKept
