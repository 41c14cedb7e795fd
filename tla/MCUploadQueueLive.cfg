SPECIFICATION FairSpec
CONSTANTS
  MaxCaptures = 2
  MaxLeases = 4
  MaxMishaps = 2
  MaxTears = 0
  BatchSize = 2
  Poison <- FirstIsPoison
PROPERTY HealthyItemsDrain
CHECK_DEADLOCK FALSE
