CONSTANTS
  Main = Main
  w1 = w1
  f1 = f1
  NoThread = NoThread
  Workers <- MCWorkers
  Foreign <- MCForeign
  MaxDepth = 3
  MaxGC = 1
  MaxFork = 1
SPECIFICATION FSpec
INVARIANTS
  RegistryMatchesLifecycle
  NoUnknownCollector
