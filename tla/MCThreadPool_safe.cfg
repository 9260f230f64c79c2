SPECIFICATION Spec
CONSTANTS
  NumThreads = 2
  Clients = {c1, c2}
  Owner = owner
  Tasks = {t1, t2, t3}
  MaxBatch = 2
  Spurious = TRUE
  Nil = Nil
SYMMETRY Symmetry
INVARIANTS
  CountsAgree
  PopFindsTask
  IdleExact
  WaitFlushes
PROPERTIES
  Implements
