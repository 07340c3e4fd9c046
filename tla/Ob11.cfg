\* Two connections at a time, of any roles, and two calls.
SPECIFICATION Spec
CONSTANTS
  Sessions = {s1, s2}
  Calls = {c1, c2}
  Closer = closer
  None = None
INVARIANTS
  TypeOK
  EndedLeavesSlots
  ReplacedIsClosed
  EndedIsAnswered
  ReturnedLeavesNoEcho
  AliveMeansSession
SYMMETRY Symmetry
VIEW View
CHECK_DEADLOCK FALSE
