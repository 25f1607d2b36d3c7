SPECIFICATION Spec
CONSTANTS
  t1 = t1
  t2 = t2
  p1 = p1
  p2 = p2
  Here = here
  Tasks = {t1, t2}
  DependsOn <- NoDeps
  Supervisors = {"s1"}
  Peers = {}
  Allowed <- HereOnly
  RoleTasks = {t2}
  Routable = {}
  Verifiers <- OneVerifier
  MaxRetries = 1
  MaxConcurrent = 1
  MaxUnstarted = 2
  MaxAttempts = 6
  CrashPoints <- RecordedPoints
  Faults = {"spawn", "publish", "workdir", "verifier", "cancel", "role", "machine"}
  MaxFaults = 2
INVARIANTS DoneIsVerified OneWorker NobodyReadsLater RunningIsReal NoOrphan SlotCeiling LocalBudgetIsSpent
PROPERTIES ImplementsLifecycle
