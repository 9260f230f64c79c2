SPECIFICATION Spec
CONSTANTS
  NumThreads = 2
  Clients = {c1, c2}
  Owner = owner
  Tasks = {t1, t2, t3}
  Failures = {"thread", "push"}
  Nil = Nil
SYMMETRY Symmetry
CHECK_DEADLOCK FALSE
INVARIANTS
  IdleExact
  FreedUnused
PROPERTIES
  Implements
