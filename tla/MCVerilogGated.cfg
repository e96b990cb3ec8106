SPECIFICATION Spec
CONSTANTS
  Emissions <- Gated
  CircBufThreshold = 2
INVARIANT NoArrayAssign
