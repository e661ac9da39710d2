SPECIFICATION HeapSpec
CONSTANTS
  End = 1
  SramTop = 9
  EsdramBss = 12
  SdramTop = 21
  Incr <- MCIncr
INVARIANT GrantsMapped
