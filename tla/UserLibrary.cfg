SPECIFICATION Spec
CONSTANTS
    FunctionNames = {"f"}
    DynamicNames = {"print"}
    BasicTypes <- MCBasicTypes
    UserTypes = {"A"}
    Structs = {"S"}
    Arrays <- MCArrays
    FunctionTypes = {"F"}
    ParamLists <- MCParamLists
    CalledTypes = {"A"}
    MoreParams <- MCMoreParams
    MaxFunctions = 4
    MaxTypes = 3
    MaxPrograms = 1
INVARIANTS
    OverloadsLeadToTheirFactories
    OperatorsAreOfTheirType
    StaleOnlyWhatIsForgotten
PROPERTIES
    ClearRestores
