SPECIFICATION Spec
CONSTANTS
  Sources <- MCSources
  TreeSize = 3
  SignsSize = 3
  AnyLength = 4
  Clauses = 6
  Depth = 10
INVARIANTS
  TypeOK
  OperandsInOrder
  ParsesAsWritten
PROPERTIES
  ParserAdvances
