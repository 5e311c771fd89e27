CONSTANTS
  broadness = 2
  MaxEvent = 4
  MaxSearch = 2
  History <- Histories
SPECIFICATION Spec
CHECK_DEADLOCK FALSE
INVARIANTS SearchSound SearchComplete NoReentry
PROPERTY SearchEnds
