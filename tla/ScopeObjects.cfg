SPECIFICATION Spec
CONSTANTS
  f = f
  l = l
  b = b
  NoScope = NoScope
  Root = f
  Scope <- MCScope
  Programs <- MCPrograms
  Garbage <- MCGarbage
CHECK_DEADLOCK FALSE
INVARIANTS
  TypeOK
  ExitCodeMatchesScopes
PROPERTIES
  JumpsLeave
  NoObjectIsLost
  ReverseOrder
  DisciplinedLifetimes
  ReturnEnds
