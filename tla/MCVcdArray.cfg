SPECIFICATION TraceSpec
CONSTANTS
  Machines <- ArrayMachines
  MachineOf <- BuiltMachine
  MaxCycles = 3
  Misfits <- SomeMisfits
INVARIANT TraceRunsToo
CHECK_DEADLOCK FALSE
