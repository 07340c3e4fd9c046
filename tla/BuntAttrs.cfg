SPECIFICATION Spec
CONSTANTS
  card1 = card1
  card2 = card2
  u1 = u1
  u2 = u2
  Ids = {card1, card2, card3}
  Owners = {u1, u2}
  Names = {a, b}
  Groups = {g1}
  OwnerOf <- MCOwnerOf
  NoOwner = NoOwner
  NoName = NoName
  NoId = NoId
  Absent = Absent
SYMMETRY Symmetry
VIEW View
INVARIANTS TypeOK BoundCardExists ReverseKeysMirror IndexesSound
PROPERTY KeepsPromise
