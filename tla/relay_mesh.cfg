SPECIFICATION FairSpec
CONSTANTS
  Low = low
  High = high
  Sockets = {1, 2, 3}
  Faults = {"crash", "power", "cut"}
  MaxFaults = 1
INVARIANTS EndsAgree NoLeak
PROPERTIES Relinks
CHECK_DEADLOCK FALSE
