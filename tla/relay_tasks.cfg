SPECIFICATION FairSpec
CONSTANTS
  u = u
  a1 = a1
  a2 = a2
  Attempts = {u, a1, a2}
  Supervised = {a1, a2}
  Verified = {a1}
  Interrupted = {u}
  Earlier <- Retry
  MaxTasks = 2
  MaxLost = 1
  MaxRestarts = 1
CONSTRAINT OneKind
INVARIANTS OneSessionPerTask
PROPERTIES ImplementsLedger DelegationSettles
CHECK_DEADLOCK FALSE
