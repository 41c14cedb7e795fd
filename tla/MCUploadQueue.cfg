SPECIFICATION Spec
CONSTANTS
  MaxCaptures = 3
  MaxLeases = 4
  MaxMishaps = 1
  MaxTears = 1
  BatchSize = 2
  Poison <- NonePoison
INVARIANTS
  OrphansBounded
  LossBoundedByTears
  DuplicatesBounded
  BatchStaysLeased
PROPERTY ImplementsAtLeastOnce
CHECK_DEADLOCK FALSE
