SPECIFICATION FairSpec
CONSTANTS
  t1 = t1
  t2 = t2
  p1 = p1
  p2 = p2
  Here = here
  Tasks = {t1}
  DependsOn <- NoDeps
  Supervisors = {"s1"}
  Peers = {}
  Allowed <- HereOnly
  RoleTasks = {}
  Routable = {}
  Verifiers <- OneVerifier
  MaxRetries = 1
  MaxConcurrent = 1
  MaxUnstarted = 2
  MaxAttempts = 5
  CrashPoints <- NoPoints
  Faults = {"verifier"}
  MaxFaults = 1
PROPERTIES Reconverges
