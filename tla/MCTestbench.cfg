SPECIFICATION TraceSpec
CONSTANTS
  Machines <- WellBuilt
  MachineOf <- BuiltMachine
  MaxCycles = 4
  Misfits <- SomeMisfits
INVARIANTS MachineFits StateAtStorageWidth FittingInputsRun ScalarTraceRuns FramesShowSamples FramesFitHeader
PROPERTY ImplementsMealy
CHECK_DEADLOCK FALSE
