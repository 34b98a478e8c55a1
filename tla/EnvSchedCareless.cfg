SPECIFICATION Spec
CONSTANTS
  NCPU = 2
  NENV = 3
  NUser = 1
  MaxGen = 1
  NoEnv = NoEnv
  NoCPU = NoCPU
  Programs <- AllPrograms
INVARIANTS
  LockMatchesPlace
CHECK_DEADLOCK FALSE
