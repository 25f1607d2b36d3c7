SPECIFICATION FairSpec
CONSTANTS
  h = h
  j1 = j1
  j2 = j2
  k = k
  Host = h
  Joiners = {j1, j2}
  Grandfathered = {j2}
  Askers = {j1}
  Readers = {j1}
  JoinPolicy = "ask"
  Keys = {k}
  Score <- SecondBest
  NoUnit = none
  RestartAnywhere = FALSE
  MaxDistilled = 1
  MaxFaults = 1
INVARIANTS MembersOnly
PROPERTIES Spreads ComesToRest
CHECK_DEADLOCK FALSE
