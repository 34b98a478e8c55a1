SPECIFICATION Spec
CONSTANTS
  e1 = e1
  e2 = e2
  e3 = e3
  data = data
  stack = stack
  text = text
  pftemp = pftemp
  xpage = xpage
  Env = {e1, e2, e3}
  First = e1
  Frame = {1, 2, 3, 4, 5, 6, 7, 8, 9}
  Page = {data, stack, text}
  Data = data
  Stack = stack
  ReadOnly = {text}
  PFTEMP = pftemp
  XStack = xpage
  PageOrder <- Order
  XWORDS = 9
  Val = {0, 1}
  Taken <- Others
  Writes <- WriteData
  MaxForks = 2
  Initial = 0
  None = None
INVARIANTS
  TypeOK
  FaultsAreHandled
  SharedPagesProtected
PROPERTIES
  FaultsOnce
  ImplementsPrivateMemory
CHECK_DEADLOCK FALSE
VIEW View
SYMMETRY Symmetry
