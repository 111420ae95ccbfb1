SPECIFICATION MatrixSpec
CONSTANTS
  LogMatrix = 4
  LogCoset = 3
  MaxQueries = 2
  Hash <- TermHash
  Source <- TermSource
  Garbage <- TermGarbage
INVARIANTS TreeRight ReadsFinal PathsRight ShapesAgree HonestAccepted AcceptedIsCommitted
