SPECIFICATION Spec
CONSTANTS
  WordBits = 3
  ArgDecls <- SomeArgs
  RetTypes <- SomeTypes
  LetStmts <- SomeLets
  TailStmts <- SomeTails
  MaxArgs = 2
  MaxLets = 1
  MaxOps = 2
INVARIANTS KernelComputes PackingInverts EndsMatchSignature NetlistInOrder OnlyPatternsRefused
CHECK_DEADLOCK FALSE
