CONSTANTS
  N = 8
  H = 3
SPECIFICATION Spec
INVARIANT NextStackContract
