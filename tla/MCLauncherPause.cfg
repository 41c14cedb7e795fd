SPECIFICATION Spec
CONSTANTS
  MaxClicks = 2
  MaxRestarts = 0
  MaxMishaps = 0
  MaxFaults = 0
  MaxCuts = 0
INVARIANT ClockOutPauses
CHECK_DEADLOCK FALSE
