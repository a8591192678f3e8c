SPECIFICATION FairSpec
CONSTANTS
  None = None
  p1 = p1  p2 = p2
  t1 = t1  t2 = t2  t3 = t3
  f1 = f1  f2 = f2
  Procs = {p1}
  Threads = {t1}
  Files = {f1}
  ProcOf <- MCProcOf
  Ops = {"VM_LOCK", "VM_UNLOCK"}
PROPERTY VmLockReturns
CHECK_DEADLOCK FALSE
