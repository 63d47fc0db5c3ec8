SPECIFICATION Spec
CONSTANTS
  RegCount = 2
  Half = 32
  StackSize = 2
  HeapSize = 2
  TensorSize = 1
  MetaSize = 1
  GcInterval = 2
  WeightsBase = 10
  MaxTrace = 6
  Programs <- InstructionPrograms
  Reloadable <- EmptyProgram
  HostWrites <- NoWrites
  HostSeeds <- TensorSeeds
INVARIANTS
  TypeOK
  CallStackMatchesTrace
  TraceIsAPath
  HandlesResolve
  TensorsWellFormed
PROPERTIES
  ImplementsControl
CHECK_DEADLOCK FALSE
