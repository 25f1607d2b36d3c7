SPECIFICATION FairSpec
CONSTANTS
  t1 = t1
  t2 = t2
  p1 = p1
  p2 = p2
  Here = here
  Tasks = {t1, t2}
  DependsOn <- Chain
  Supervisors = {"s1"}
  Peers = {p1}
  Allowed <- FirstAnywhere
  RoleTasks = {}
  Routable = {t2}
  Verifiers <- FirstVerified
  MaxRetries = 1
  MaxConcurrent = 1
  MaxUnstarted = 1
  MaxAttempts = 7
  CrashPoints <- PlacedPoints
  Faults = {"spawn","delegate","publish","machine"}
  MaxFaults = 1
INVARIANTS DependencyOrder OneWorkerPerMachine UnstartedBounded
PROPERTIES Settles
