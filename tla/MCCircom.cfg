SPECIFICATION Spec
CONSTANTS
  Cases <- AllCases
  MachineOf <- CaseMachine
  LiteralBits = 4
  FieldPrime = 53
  FieldMaxBits = 5
  Guesses <- SomeGuesses
INVARIANTS OnlyTheRun EveryRunProvable SignalsWired
CHECK_DEADLOCK FALSE
