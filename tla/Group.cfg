\* Two messages at a time in a group, or in private chats.
SPECIFICATION Spec
CONSTANTS
  Handlers = {h1, h2}
  Rooms = {g1}
  Private = Private
  Objs = {o1, o2, o3, o4, o5}
  Null = Null
  Absent = Absent
  Sends <- MCSends
  IoMayFail = TRUE
  MaxMessages = 3
  MaxRestarts = 1
INVARIANTS
  TypeOK
  OneRecord
  SettingsSurvive
  NameKept
PROPERTIES
  SilentAfterOff
  ClosedStaysClosed
  SystemAnswers
CONSTRAINT OneGroup
SYMMETRY Symmetry
VIEW View
CHECK_DEADLOCK FALSE
