SPECIFICATION FairSpec
CHECK_DEADLOCK FALSE
CONSTANTS
  Callers = {c1, c2}
  Procs = {p1, p2, p3}
  Pids = {1, 2, 3}
  Codes = {0, 1}
  Reuse = FALSE
  MaxWaiters = 3
  Faults = {"exec", "memory", "thread", "ignored", "signal"}
  None = None
INVARIANTS
  Truthful
  OneWaiter
PROPERTIES
  ExitSeen
