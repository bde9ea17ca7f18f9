SPECIFICATION Spec
CONSTANTS
    Variable = {"a", "b", "c", "d", "e"}
    Scripts <- MCScripts
    NoVar = "none"
    Shared = {TRUE, FALSE}
    MaxCompiles = 2
    MaxFrames = 2
INVARIANTS
    TypeOK
    OnlyCompiledCodeRuns
    CurrentIsAlive
    FirstProgramIsItsScript
PROPERTY
    CleanupUndoesRun
CHECK_DEADLOCK FALSE
