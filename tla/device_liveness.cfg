SPECIFICATION FairSpec
CONSTANTS
  None = None
  p1 = p1  p2 = p2
  t1 = t1  t2 = t2  t3 = t3
  f1 = f1  f2 = f2
  Procs = {p1, p2}
  Threads = {t1, t3}
  Files = {f1, f2}
  ProcOf <- MCProcOf
  Ops = {"VM_RESOLVE", "VM_UPDATE", "VM_UNLOCK", "GET_ROOT", "SET_ROOT", "mmap"}
PROPERTIES RequestsReturn DeviceFreed
