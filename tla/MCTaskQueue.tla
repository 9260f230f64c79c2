----------------------------- MODULE MCTaskQueue -----------------------------
EXTENDS TaskQueue

\* Filled is what SelectSeq selects.
ASSUME FilledSelects ==
  \A n \in 0..5 : \A s \in [1..n -> Tasks \cup {Nil}] :
    Filled(s) = SelectSeq(s, LAMBDA t : t # Nil)
=============================================================================
