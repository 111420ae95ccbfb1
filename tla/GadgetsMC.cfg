CONSTANT W = 4
SPECIFICATION Spec
CHECK_DEADLOCK FALSE
INVARIANTS WitnessSatisfies RelationDetermined
