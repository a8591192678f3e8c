SPECIFICATION Spec
CONSTANTS
  p1 = p1  p2 = p2
  Procs = {p1, p2}
  MaxFd = 2
  OwnFiles = {p1}
  Careful = TRUE
  Symbols <- MCSymbols
INVARIANTS OpenFilesSafe NothingLeft NoForeignFile
PROPERTIES CleanupReleases ProgramFilesStay
