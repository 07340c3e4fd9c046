SPECIFICATION ScenesSpec
CONSTANTS
  RiHandlers = {h1, h2}
  Units = {1, 2, 3}
  Values = {1, 2, 3}
  NullInit = 99
  NoUnit = NoUnit
  RiSends <- MCRiSends
  MaxListed = 2
  MaxItems = 2
  MaxRi = 2
  ShHandlers = {h1, h2}
  None = None
  Levels = {1, 2}
  ShSends <- MCShSends
  MaxSh = 2
  Systems <- MCSystems
  Dnd = dnd5e
  coc7 = coc7
  nHp = nHp
  nLife = nLife
  nSpot = nSpot
  nSneak = nSneak
  nHide = nHide
  Names <- MCNames
  Alias <- MCAlias
  Default <- MCDefault
  Missing = Missing
  Untyped = Untyped
  Typed = {1, 3}
  MaxSt = 4
  MaxEdits = 1
  Rules = {0, 1, 2, 3, 4, 5, 11}
  CocSends <- MCCocSends
  Scores = {0, 4, 60}
  Absent = Absent
  SkillDefault = 25
  MaxCoc = 1
  Callers = {c1, c2, c3}
  Requests <- MCRequests
  Lifetime = 2
  MaxTime = 4
  MaxRequests = 4
  NoEntry = NoEntry
SYMMETRY Symmetry
INVARIANTS
  RiSound
  TurnInStep
  ShSound
  StSound
  CheckAsRuled
  MiSound
PROPERTIES
  TurnKept
  DamageAccounted
CHECK_DEADLOCK FALSE
