\* Two handlers, the ticker's saver and SaveAll on one character card.
SPECIFICATION Spec
CONSTANTS
  Ids = {card}
  Cards = {card}
  BadIds = {}
  Names = {a}
  Objs = {o1, o2, o3}
  Handlers = {h1, h2}
  Savers = {ticker, exit}
  Exit = exit
  Null = Null
  Absent = Absent
  AtomicPuts = TRUE
  IoMayFail = TRUE
  Edits = {"store", "delete", "clear", "save"}
INVARIANTS
  TypeOK
  CleanMeansPersisted
  DeletedStaysDeleted
  MarkMeetsDeletion
PROPERTIES
  NothingErased
SYMMETRY Symmetry
VIEW View
