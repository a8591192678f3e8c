SPECIFICATION Spec
CONSTANTS
  Arch = "x86_64"
  c1 = c1  c2 = c2
  Cpus = {c1, c2}
  Programs = {"example", "map_pt", "map_pt_manual", "uncachable", "virt2phys", "performance", "memmap"}
  Root = {4}
  InitMem <- MCInitMem
  PageA <- MCPageA
  PageB <- MCPageB
  PageP <- MCPageP
  Huge <- MCHuge
  PmapVa <- MCPmapVa
  Target <- MCTarget
  Pats <- MCPats
  Changes <- MCChanges
  MaxChanges = 3
CHECK_DEADLOCK FALSE
INVARIANTS ChecksOk ProgramsUndo StaleOnlyOwnStores MemmapSandwich
