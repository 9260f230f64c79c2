SPECIFICATION PlaybackSpec
CHECK_DEADLOCK FALSE
CONSTANTS
  User = u
  Dispatch = w
  Users = {u}
  Workers = {w}
  Cancellers = {u, w}
  Requests <- MCRequests
  Kind <- MCKind
  Streams <- MCStreams
  Void = Void
  None = None
  Times = {1}
  MaxTime = 1
  MaxCancel = 5
  MaxBreak = 1
INVARIANTS
  EosTrue
