SPECIFICATION Spec
CONSTANTS
  BATCH_SIZE = 2
  MaxRows = 5
INVARIANT NeverSilentlyDropped
CHECK_DEADLOCK FALSE
