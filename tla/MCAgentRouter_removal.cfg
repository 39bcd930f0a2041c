SPECIFICATION Spec
CONSTANTS
  f1 = f1
  f2 = f2
  NoPath = NoPath
  Fallbacks = {f1}
  DebounceCount = 2
  Depth = 2
  MaxFaults = 0
INVARIANT
  RemovalIsDebounced
