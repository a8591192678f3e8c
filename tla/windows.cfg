SPECIFICATION Spec
CONSTANTS
  p1 = p1  p2 = p2
  c1 = c1  c2 = c2
  v1 = v1  v2 = v2
  Procs = {p1, p2}
  Cpus = {c1, c2}
  Values = {v1, v2}
  Pats = {w1}
  BootPat = w0
  NoProc = NoProc
  OtherRoot = OtherRoot
  None = None
  MaxFaults = 1
SYMMETRY MCSymmetry
INVARIANTS WinTlbCoherent  NoHalfDriver
PROPERTIES RootOfPid LoaderDelivers
