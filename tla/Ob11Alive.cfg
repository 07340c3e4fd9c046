\* Two sessions: one ends while the other comes.
SPECIFICATION Spec
CONSTANTS
  Sessions = {s1, s2}
  Calls = {c1}
  Closer = closer
  None = None
INVARIANTS
  AliveWhenEvents
SYMMETRY Symmetry
CHECK_DEADLOCK FALSE
