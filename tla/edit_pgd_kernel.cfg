SPECIFICATION CallsSpec
CONSTANTS
  Arch = "x86_64"
  None = None
  Own = Own
  Self = Self  Other = Other  Gone = Gone
  Procs = {Self, Other, Gone}
  t1 = t1  t2 = t2
  Threads = {t1}
  CallSet = "pgd"
  Impls = {"KERNEL"}
  TlbModes = {"CUSTOM"}
  RootSwitches = {}
  Where = "nowhere"
  Calls <- MCCalls
  Touched <- MCTouched
  InitMem <- MCInitMem
  InitRoot <- MCInitRoot
INVARIANTS CallsExact
