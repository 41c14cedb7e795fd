SPECIFICATION Spec
CONSTANTS
  MaxRequests = 3
  MaxPolicies = 2
  StoredRoles <- MCStoredRoles
  Edits <- MCEdits
  Event = {e1, e2}
  Entry = {r1}
  Rules = {"nine", "ten"}
  DefaultRule = "half"
  Employee = {n1, n2}
  Name = {"a", "b"}
  Sheet <- MCSheet
  Device = {d1, d2}
INVARIANTS
  
  
  OneReviewAtATime
  
  SavedRuleIsShown
  ShownTokenIsCurrent
  SaysWhatHappened
  SettledRowsAreBackends
PROPERTIES
  UntouchedSaveKeepsScope
  ButtonsReturn
CHECK_DEADLOCK FALSE
