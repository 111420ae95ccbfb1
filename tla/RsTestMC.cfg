SPECIFICATION Spec
CONSTANT dim = 3
CHECK_DEADLOCK FALSE
INVARIANT OfTheForm
