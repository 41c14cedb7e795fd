SPECIFICATION Spec
CONSTANTS
  MaxCaptures = 5
  MaxUploads = 5
  MaxLate = 1
  MaxRepeats = 0
  MaxFaults = 0
  Threshold = 2
  View <- TwoViews
  Detail <- Steady
INVARIANT OneEventPerStillInterval
CHECK_DEADLOCK FALSE
