SPECIFICATION Spec
CONSTANTS
  Arch = "x86_64"
  Huge = FALSE
  None = None
  c1 = c1  c2 = c2  t1 = t1  t2 = t2
  Cpus = {c1, c2}
  Threads = {t1}
  SetIds = {0, 1, 2, 3, 4, 5, 6, 7}
  SetTypes <- Types
  Requests <- MCRequests
  InitPats <- MCInitPats
  Pfns <- MCPfns
  Mts <- MCMts
  FlagBits <- MCFlagBits
  InitEntries <- MCInitEntries
INVARIANT SetMtExact
