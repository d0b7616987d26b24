CONSTANTS
  c1 = c1
  c2 = c2
  NoKid = NoKid
  Kids <- MCKids
  MaxGC = 2
SPECIFICATION Spec
INVARIANTS
  ArgSafe
  NoHeapCorruption
PROPERTIES
  ThreadCleanup
  InfoReleased
