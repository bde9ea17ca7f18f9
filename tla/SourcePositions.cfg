SPECIFICATION Spec
CONSTANTS
    Slash = Slash
    NewLine = NewLine
    Letter = Letter
    Scripts <- MCScripts
    Bases = {1, 5}
    MaxCompiles = 2
INVARIANT
    ErrorsAreShownWhereTheyAre
CHECK_DEADLOCK FALSE
