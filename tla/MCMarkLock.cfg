CONSTANTS
  p1 = p1
  p2 = p2
  p3 = p3
  NoProc = NoProc
  Procs <- MCProcs
SPECIFICATION Spec
INVARIANTS
  TypeOK
  MutualExclusion
PROPERTIES
  ImplementsMarkMutex
