SPECIFICATION FairSpec
CONSTANTS
  User <- Accounts
  Nobody = Nobody
  Grants <- Roles
  Task = {t1, t2}
  NoTask = NoTask
  MaxLogins = 2
  MaxReloads = 1
  Dev = TRUE
INVARIANTS
  IdentityMatchesToken
  ShownPagesAreGranted
  LastActionWins
PROPERTIES
  BootEnds
  LoginReturns
CHECK_DEADLOCK FALSE
