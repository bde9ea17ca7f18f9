SPECIFICATION Spec
CONSTANTS
    Sizes <- MCSizes
    Word = 4
    Header = 1
    Elem = 6
    Locals <- MCLocals
    Globals <- MCGlobals
    VarType <- MCVarType
    Frame = 160
    Scopes <- MCScopes
    TreeSize = 3
INVARIANTS
    ComputesTheExpression
    TemporariesAreDestroyedOnce
CHECK_DEADLOCK FALSE
