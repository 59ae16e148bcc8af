SPECIFICATION Spec
CONSTANTS
  Runs = {r1, r2, r3}
  FailureThreshold = 3
  WindowSize = 4
  RateFailures = 2
  HalfOpenTrials = 2
  OpenDuration = 2
  TrialsReport = FALSE
INVARIANT TrialWhenIdle
CHECK_DEADLOCK FALSE
