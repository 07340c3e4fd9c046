\* A card is deleted between CheckForSave's Puts and its marks.
SPECIFICATION Spec
CONSTANTS
  Ids = {card}
  Cards = {card}
  BadIds = {}
  Names = {a}
  Objs = {o1, o2, o3}
  Handlers = {h1}
  Savers = {ticker}
  Exit = exit
  Null = Null
  Absent = Absent
  AtomicPuts = TRUE
  IoMayFail = FALSE
  Edits = {"store", "delete", "clear", "save"}
INVARIANTS
  MarkFindsCard
