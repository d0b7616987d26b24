CONSTANTS
  Available = 2
  Builds = {"win32"}
  WinMaxStarts = 2
  PthreadMaxStarts = 2
  MaxRounds = 1
  MaxSpurious = 1
  MaxForks = 1
SPECIFICATION Spec
CHECK_DEADLOCK FALSE
INVARIANT
  NoAbort
