SPECIFICATION FairSpec
CHECK_DEADLOCK FALSE
CONSTANTS
  Loops = {a, b}
  Pollers = {p}
  Clients = {c}
  Tasks = {t1, t2, t3}
  Nil = Nil
  MaxEmpty = 3
  MayBreak = TRUE
  Garbage = {0, 3}
PROPERTIES
  Implements
  LoopsLeave
