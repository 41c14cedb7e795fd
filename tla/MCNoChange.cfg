SPECIFICATION Spec
CONSTANTS
  MaxCaptures = 5
  MaxUploads = 6
  MaxLate = 1
  MaxRepeats = 1
  MaxFaults = 1
  Threshold = 2
  View <- TwoViews
  Detail <- Steady
INVARIANTS
  OneOpenEvent
  
  
PROPERTY ClosedIsFinal
CHECK_DEADLOCK FALSE
