SPECIFICATION Spec
CONSTANTS
  NCPU = 2
  NENV = 4
  NUser = 1
  MaxGen = 2
  NoEnv = NoEnv
  NoCPU = NoCPU
  Programs <- LibraryPrograms
INVARIANTS
  TypeOK
  OneCPU
  ExecutingIsRunning
  RunningHasCPU
  FreeListExact
  ReceiverBlocked
  IdleStaysHome
PROPERTIES
  MessageKept
  ImplementsEnvLife
CHECK_DEADLOCK FALSE
