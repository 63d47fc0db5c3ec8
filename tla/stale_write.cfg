SPECIFICATION Spec
CONSTANTS
  RegCount = 2
  Half = 32
  StackSize = 2
  HeapSize = 2
  TensorSize = 1
  MetaSize = 1
  GcInterval = 2
  WeightsBase = 10
  MaxTrace = 5
  Programs <- HostReloads
  Reloadable <- HostReloads
  HostWrites <- NoWrites
  HostSeeds <- NoSeeds
INVARIANTS
  UnrunTraceHasNoWrite
CHECK_DEADLOCK FALSE
