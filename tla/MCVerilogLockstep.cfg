SPECIFICATION Spec
CONSTANTS
  Emissions <- Emittable
  CircBufThreshold = 2
INVARIANTS SameOutputs SameState EveryNetOnce
