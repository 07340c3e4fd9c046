\* Two messages at a time, in two groups.
SPECIFICATION MCSpec
CONSTANTS
  Handlers = {h1, h2}
  Groups = {g1, g2}
  Cards = {c1, c2}
  Names = {a, b}
  Data = {attrs}
  Blank = Blank
  Objs = {o1, o2, o3, o4, o5, o6, o7, o8, o9}
  Null = Null
  Absent = Absent
  NoName = NoName
  IoMayFail = TRUE
  MaxCommands = 2
INVARIANTS
  TypeOK
  NamesUnique
PROPERTIES
  DelKeepsBound
  LoadLoads
  SaveCopies
SYMMETRY Symmetry
VIEW View
CHECK_DEADLOCK FALSE
