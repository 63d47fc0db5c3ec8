SPECIFICATION Spec
CONSTANTS
  RegCount = 3
  Half = 32
  StackSize = 4
  HeapSize = 1
  TensorSize = 1
  MetaSize = 1
  GcInterval = 2
  WeightsBase = 10
  MaxTrace = 10
  Programs <- StackPrograms
  Reloadable <- NoPrograms
  HostWrites <- NoWrites
  HostSeeds <- NoSeeds
INVARIANTS
  PushedInStack
CHECK_DEADLOCK FALSE
