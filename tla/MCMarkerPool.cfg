CONSTANTS
  Available = 3
  Builds = {"win32", "pthread"}
  WinMaxStarts = 1
  PthreadMaxStarts = 3
  MaxRounds = 2
  MaxSpurious = 2
  MaxForks = 2
SPECIFICATION Spec
\* Helpers block for good in GC_wait_marker once the bounded mark phases
\* are over, as idle helpers do between collections.
CHECK_DEADLOCK FALSE
INVARIANTS
  TypeOK
  StartedMarkersReady
  NoAbort
  MarkCvResetSafe
  HelpersExist
PROPERTIES
  StartReturns
