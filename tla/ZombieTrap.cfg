SPECIFICATION Spec
CONSTANTS
  NCPU = 2
  NENV = 4
  NUser = 1
  MaxGen = 1
  NoEnv = NoEnv
  NoCPU = NoCPU
  Programs <- SpinAndYield
PROPERTIES
  ZombieFreedAtNextTrap
CHECK_DEADLOCK FALSE
