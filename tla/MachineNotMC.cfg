CONSTANTS
  W = 4
  Runs <- NotRuns
  NumRegs = 8
  ReservedRegs = 4
  SavedRegs = 1
  Sources <- MCSources
  FirstT = 2
  LastT = 4
SPECIFICATION Spec
CHECK_DEADLOCK FALSE
INVARIANT RowsSatisfied
