SPECIFICATION FairSpec
CONSTANTS
  i1 = i1
  i2 = i2
  a = a
  b = b
  s = s
  k = k
  none = none
  Interrupts = {i1, i2}
  Raisers = {a, b}
  RaisedBy <- ByEach
  Target <- ForOne
  Key <- SameKey
  NoKey = none
  Mode <- BoundaryAndWaiting
  Expiring = {i2}
  Rank <- InOrder
  Dashboards = {"d1", "d2"}
  MaxRetries = 2
  MaxFaults = 1
INVARIANTS TypedOnceEach AttemptsBounded
PROPERTIES Lifecycle Settles
CHECK_DEADLOCK FALSE
