SPECIFICATION TraceSpec
CONSTANTS
  Machines <- PassThroughs
  MachineOf <- BuiltMachine
  MaxCycles = 4
  Misfits <- SomeMisfits
INVARIANT FittingInputsRun
CHECK_DEADLOCK FALSE
