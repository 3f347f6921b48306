SPECIFICATION Spec
CONSTANTS
  PipeCap = 2
  ReadBuf = 2
  InputLen = 3
  MaxOut = 2
  CpuLimit = 1
  TicksPerSec = 2
  MaxEmit = 4
INVARIANTS SetupFailureIsError
