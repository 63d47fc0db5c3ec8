SPECIFICATION Spec
CONSTANTS
  RegCount = 3
  Half = 8
  StackSize = 1
  HeapSize = 1
  TensorSize = 1
  MetaSize = 1
  GcInterval = 2
  WeightsBase = 3
  MaxTrace = 4
  Programs <- ScalarPrograms
  Reloadable <- NoPrograms
  HostWrites <- NoWrites
  HostSeeds <- NoSeeds
INVARIANTS
  CompletedIsExact
CHECK_DEADLOCK FALSE
