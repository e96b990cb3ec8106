SPECIFICATION Spec
CONSTANTS
  Cases <- WideCases
  MachineOf <- CaseMachine
  LiteralBits = 4
  FieldPrime = 53
  FieldMaxBits = 5
  Guesses <- SomeGuesses
INVARIANT WithinFieldBudget
CHECK_DEADLOCK FALSE
