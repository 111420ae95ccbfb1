SPECIFICATION FairSpec
CONSTANTS
  Repetitions = 2
  WitnessDepth = 2
  CompositionDepth = 1
  HeaderBytes = 2
  TextBytes = 3
  SessionBytes = 2
  RCVBUFSIZE = 4
  Worlds <- BothWorlds
INVARIANTS InStep DecisionAgreed NothingLost
PROPERTIES ImplementsLocal HangUpNoticed NoneWaits
