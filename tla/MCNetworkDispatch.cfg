SPECIFICATION FairSpec
CONSTANTS
  Queues = {q1}
  Threads = {t1, t2}
  Dispatch = dispatch
  Requests = {r1, r2, r3}
  Reads = {r1, r2}
  Accepts = {r1}
  PipeSize = 8
  EngineFirst = TRUE
  Mortal = TRUE
  Nil = Nil
CHECK_DEADLOCK FALSE
INVARIANTS
  FreedUnused
  UpdateCounted
  Registered
  NoneLeaked
PROPERTIES
  Implements
  Released
