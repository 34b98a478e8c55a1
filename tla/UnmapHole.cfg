SPECIFICATION Spec
CONSTANTS
  Frame <- Pages
  Page0 = 0
  EnvsPage = 1
  UtopTable = 2
  FreePages <- FreeAtBoot
  RefMod = 16
  NPD = 1
  NPT = 2
  PGSIZE = 2
  Env = {e1, e2}
  e1 = e1
  e2 = e2
  c1 = c1
  c2 = c2
  Image <- OneRootPage
  CPU = {c1, c2}
  Window <- UpperPage
  Watched <- UpperPage
  PermArgs <- UserPerms
  Habits = {"hole"}
  None = None
INVARIANT check_page_free_list
CHECK_DEADLOCK FALSE
