SPECIFICATION Spec
CONSTANTS
  BATCH_SIZE = 2
  MaxRows = 5
INVARIANTS TypeOK ResultPartitions ResultTellsAll SkipsAreAudited
CHECK_DEADLOCK FALSE
