SPECIFICATION Spec
CONSTANTS
  RegCount = 3
  Half = 32
  StackSize = 4
  HeapSize = 3
  TensorSize = 1
  MetaSize = 1
  GcInterval = 2
  WeightsBase = 10
  MaxTrace = 12
  Programs <- MemoryPrograms
  Reloadable <- NoPrograms
  HostWrites <- ForgedWrites
  HostSeeds <- UnsoundSeeds
INVARIANTS
  StackConservation
  FramesNest
  PushStaysInMemory
  HeapTiled
PROPERTIES
  ImplementsControl
CHECK_DEADLOCK FALSE
