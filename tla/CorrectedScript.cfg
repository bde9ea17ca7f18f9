SPECIFICATION Spec
CONSTANTS
    Variable = {"a", "b", "c", "d", "e"}
    Scripts <- Corrected
    NoVar = "none"
    Shared = {FALSE}
    MaxCompiles = 2
    MaxFrames = 1
INVARIANT
    ProgramsAreTheirScripts
CHECK_DEADLOCK FALSE
