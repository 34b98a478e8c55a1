SPECIFICATION Spec
CONSTANTS
  prog1 = prog1
  prog2 = prog2
  None = None
  NCPU = 3
  EXTPAGES = 14
  Machines <- Processors
  CONSBUFSIZE = 3
  DEVBUF = 3
  CRT_COLS = 2
  CRT_ROWS = 2
  BUFLEN = 6
  MAXARGS = 3
  PRINTBUF = 3
  Prog = {prog1, prog2}
INVARIANTS
  KernelStacksApart
CHECK_DEADLOCK FALSE
