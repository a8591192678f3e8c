SPECIFICATION CallsSpec
CONSTANTS
  Arch = "x86_64"
  None = None
  Own = Own
  Self = Self  Other = Other  Gone = Gone
  Procs = {Self, Other, Gone}
  t1 = t1  t2 = t2
  Threads = {t1}
  CallSet = "all"
  Impls = {"KERNEL", "USER"}
  TlbModes = {"KERNEL", "CUSTOM"}
  RootSwitches <- MCOthersRoot
  Where = "nowhere"
  Calls <- MCCalls
  Touched <- MCTouched
  InitMem <- MCInitMem
  InitRoot <- MCInitRoot
INVARIANTS CallsExact
