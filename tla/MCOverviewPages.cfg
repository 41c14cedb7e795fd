SPECIFICATION FairSpec
CONSTANTS
  Employees <- TwoEmployees
  NameOf <- Names
  JobOf <- Jobs
  OtherPoints <- Others
  Streak = 6
  DeviceAge = 1
  AccessRoles <- TwoRoles
  MembersOf <- Members
  KeysOf <- Keys
  Kinds <- SomeKinds
  Activities = {"development"}
  Verdicts = {"reviewing", "reviewed"}
  States = {"online", "offline"}
  Signals <- SomeSignals
  MaxEvents = 2
  MaxFrames = 2
  MaxChanges = 1
  MaxFailures = 1
INVARIANTS
  ReviewedStaysOut
  
  WorstShownFirst
  
PROPERTIES
  PageIsFilled
CHECK_DEADLOCK FALSE
