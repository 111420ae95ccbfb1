SPECIFICATION Spec
CONSTANTS
  Instances <- Most
CHECK_DEADLOCK FALSE
INVARIANTS ReadsRight RoutingHolds EveryRowTested Delivers
