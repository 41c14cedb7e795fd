SPECIFICATION Spec
CONSTANTS
  MaxClicks = 2
  MaxRestarts = 1
  MaxMishaps = 1
  MaxFaults = 1
  MaxCuts = 1
INVARIANTS
  MissingBounded
  ResentBounded
  AtMostOneLateCapture
  OneAttemptPauses
PROPERTY ImplementsAtLeastOnce
CHECK_DEADLOCK FALSE
