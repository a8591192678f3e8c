SPECIFICATION Spec
CONSTANTS
  Arch = "x86_64"
  None = None
  Own = Own
  Self = Self  Other = Other  Gone = Gone
  Procs = {Self, Other, Gone}
  t1 = t1  t2 = t2
  Threads = {t1, t2}
  CallSet = "races"
  Impls = {"KERNEL", "USER"}
  TlbModes = {"KERNEL", "CUSTOM"}
  RootSwitches <- MCOneSwitch
  Where = "self"
  Calls <- MCCalls
  Touched <- MCTouched
  InitMem <- MCInitMem
  InitRoot <- MCInitRoot
SYMMETRY MCSymmetry
INVARIANTS TlbCoherent WritesOnPath
