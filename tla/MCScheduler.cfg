SPECIFICATION FairSpec
CHECK_DEADLOCK FALSE
CONSTANTS
  Workers = {w}
  Users = {u1, u2}
  Requests = {r1, r2}
  Void = Void
  None = None
  Times = {1, 2}
  MaxTime = 2
  Cancellers = {w, u1, u2}
  MaxCancel = 1
  MaxBreak = 1
INVARIANTS
  NothingUnheard
  NoOversleep
PROPERTIES
  Served
