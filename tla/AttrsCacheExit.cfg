\* SaveAll after an attribute was deleted; with Edits = {"store"}, after an edit that the ticker's saver
\* marked as saved.
SPECIFICATION Spec
CONSTANTS
  Ids = {group}
  Cards = {}
  BadIds = {}
  Names = {a}
  Objs = {o1, o2, o3}
  Handlers = {h1}
  Savers = {ticker, exit}
  Exit = exit
  Null = Null
  Absent = Absent
  AtomicPuts = TRUE
  IoMayFail = FALSE
  Edits = {"store", "delete"}
INVARIANTS
  SaveAllSavesAll
