SPECIFICATION Spec
CONSTANTS
    Elements <- MCElements
    Conversions <- MCConversions
    Accuracies <- MCAccuracies
    Calls <- AllCalls
    OuterCalls <- MCOuterCalls
INVARIANTS
    CandidatesAreTheCheapest
    ArgumentsFit
    CandidatesAreInOrder
    BestMatchIsChosen
CHECK_DEADLOCK FALSE
