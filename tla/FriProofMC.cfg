SPECIFICATION Spec
CONSTANTS
  Instances <- SmallInstances
  ColumnIds = {c1, c2}
  Garbage = Garbage
INVARIANTS HonestAccepted PathConnected CoinsProtected
