SPECIFICATION Spec
CONSTANTS
  Slots = 4
  Capacity = 6
  Word = 1
  PointerCells = 1
  NullCommand = NullCommand
  HostCommand = HostCommand
  s1 = s1
  s2 = s2
  Command <- MCCommand
  Sites <- MCSites
  Scopes <- MCScopes
  MemberCodes <- MCMemberCodes
  Calls <- MCCalls
  HostCalls <- MCHostCalls
  Hosts = {"task", "global"}
  MaxRuns = 3
CHECK_DEADLOCK FALSE
INVARIANTS
  TypeOK
  LastInFirstOut
  MemoryApart
PROPERTIES
  ReturnRestoresCaller
  RunsGiveBack
  ImplementsActivations
