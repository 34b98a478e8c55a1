SPECIFICATION FairSpec
CONSTANTS
  c1 = c1
  c2 = c2
  c3 = c3
  NoCPU = NoCPU
  CPUs <- MCCPUs
  Careless <- CarelessOne
INVARIANTS
  TypeOK
  ChecksAreExact
  FreeHasNoOwner
PROPERTIES
  ImplementsMutex
  LockProgress
CHECK_DEADLOCK FALSE
