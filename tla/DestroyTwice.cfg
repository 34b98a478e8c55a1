SPECIFICATION Spec
CONSTANTS
  NCPU = 2
  NENV = 4
  NUser = 1
  MaxGen = 1
  NoEnv = NoEnv
  NoCPU = NoCPU
  Programs <- DestroyTwice
INVARIANTS
  ExecutingIsRunning
CHECK_DEADLOCK FALSE
