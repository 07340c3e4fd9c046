SPECIFICATION Spec
CONSTANTS
  Registrars = {g1, g2}
  Runners = {r1, r2}
  Priorities = {0, 10}
  MaxHooks = 4
  NoHandle = NoHandle
SYMMETRY Symmetry
VIEW View
INVARIANTS TypeOK IndexExact
PROPERTY KeepsPromise
