SPECIFICATION FairSpec
CONSTANTS
  NCPU = 2
  NENV = 6
  NUser = 3
  MaxGen = 1
  NoEnv = NoEnv
  NoCPU = NoCPU
  Programs <- SpinPrograms
PROPERTIES
  RunnableRuns
  ZombieFreed
CHECK_DEADLOCK FALSE
