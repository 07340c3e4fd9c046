\* One handler and the ticker's saver, with the item of the empty group id.
SPECIFICATION FairSpec
CONSTANTS
  Ids = {group, nogroup}
  Cards = {}
  BadIds = {nogroup}
  Names = {a}
  Objs = {o1, o2}
  Handlers = {h1}
  Savers = {ticker}
  Exit = exit
  Null = Null
  Absent = Absent
  AtomicPuts = FALSE
  IoMayFail = FALSE
  Edits = {"store", "delete", "clear", "save"}
PROPERTIES
  UnsavedIsSaved
