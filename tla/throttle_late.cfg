SPECIFICATION GuardFairSpec
CONSTANTS
  Runs = {r1, r2, r3}
  FailureThreshold = 3
  WindowSize = 4
  RateFailures = 2
  HalfOpenTrials = 2
  OpenDuration = 2
  TrialsReport = TRUE
  BaseCapacity = 8
  BaseRate = 11
  MinRate = 2
  FloorPercent = 20
  Unit = 2
  Horizon = 8
PROPERTY ShrinksBeforeTrip
