CONSTANTS
  W = 4
  Runs <- MachineRuns
  NumRegs = 8
  ReservedRegs = 4
  SavedRegs = 1
  Sources <- MCSources
  FirstT = 2
  LastT = 4
SPECIFICATION Spec
CHECK_DEADLOCK FALSE
INVARIANTS TypeOK RowsSatisfied WitnessAccepted SourceMeaning
PROPERTIES ImplementsIsa Termination
