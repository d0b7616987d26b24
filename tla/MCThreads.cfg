CONSTANTS
  Main = Main
  w1 = w1
  f1 = f1
  NoThread = NoThread
  Workers <- MCWorkers
  Foreign <- MCForeign
  MaxDepth = 4
  MaxGC = 1
SPECIFICATION Spec
INVARIANTS
  TypeOK
  StoppedWorldQuiescent
  RootsComplete
  NoUnknownCollector
  RegistryMatchesLifecycle
  NoUseAfterFree
PROPERTIES
  ReclaimedEventually
