SPECIFICATION FairSpec
CONSTANTS
  NumThreads = 2
  Clients = {c1}
  Owner = owner
  Tasks = {t1, t2}
  MaxBatch = 2
  Spurious = FALSE
  Nil = Nil
PROPERTIES
  WaitReturns
  PoolEnds
  ImplementsFair
