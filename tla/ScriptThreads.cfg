SPECIFICATION Spec
CONSTANTS
  Object = {f, g}
  Temporary = temporary
  Thread = {t1, t2}
  Block = {b1, b2}
  Capturing = {capturing}
  Captureless = {captureless}
  Named = {named, native}
  Native = {native}
  Captured = {v1, v2}
  None = None
  Free = Free
  Junk = Junk
CHECK_DEADLOCK FALSE
CONSTRAINT SmallCarefulScript
INVARIANTS
  CarefulFunctionsKeepTheirCaptures
  BlocksAreFreedOnce
  ThreadsRunWhatTheyWereGiven
PROPERTIES
  JoinReturns
