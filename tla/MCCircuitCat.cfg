SPECIFICATION Spec
CONSTANTS
  Gens <- AllGens
  ArrowOf <- SomeArrow
  Dom <- SomeDom
  Cod <- SomeCod
  Meaning <- SomeMeaning
  MaxWires = 7
INVARIANTS Denotes OneDriver InOrder EndsTyped ValuesFitWires
CHECK_DEADLOCK FALSE
