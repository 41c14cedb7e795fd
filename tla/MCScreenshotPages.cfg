SPECIFICATION FairSpec
CONSTANTS
  NoUri = NoUri
  Uri = {"plain", "api2", "api3"}
  ApiUri = {"api2", "api3"}
  None = None
  All = All
  Employees <- TwoEmployees
  DeptOf <- TwoDepts
  Shots <- ThreeShots
  ImageOf <- Images
  Discovered = "bob"
  Limit = 2
  MaxPage = 2
  MaxRequests = 3
INVARIANTS
  NoObjectUrlLeaks
  ShownImageIsCurrent
  SettledListIsSelected
  
PROPERTIES
  ImplementsLatestView
CHECK_DEADLOCK FALSE
