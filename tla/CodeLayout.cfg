SPECIFICATION Spec
CONSTANTS
    f = f
    l = l
    b = b
    e = e
    NoScope = NoScope
    Root = f
    Scope <- MCScope
    Programs <- MCPrograms
    Garbage <- MCGarbage
INVARIANTS
    TypeOK
PROPERTIES
    Implements
    JumpsDecideOnTheirCondition
CHECK_DEADLOCK FALSE
