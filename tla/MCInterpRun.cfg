SPECIFICATION FairSpec
CONSTANTS
  Ops <- FewOps
  Calls <- SomeCalls
  MaxWires = 3
  MaxInstrs = 2
INVARIANTS TypeOK DefinedExactly Settled UndefinedIffUnordered OrderIrrelevant
PROPERTIES NeverRetracted CallReturns
CHECK_DEADLOCK FALSE
