SPECIFICATION FairSpec
CONSTANTS
  Ids <- MCIds
  Setups <- MCSetups
  MaxFaults = 1
  CounterMax = 2
INVARIANTS NothingVanishes PodsSurviveFailedScans IngestedOnce HealthIsHonest
PROPERTIES MarkedIsTaken
CHECK_DEADLOCK FALSE
