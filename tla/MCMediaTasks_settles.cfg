SPECIFICATION Spec
CONSTANTS
  MaxEvents = 1
  DeleteFiles = TRUE
PROPERTY Settles
PROPERTY LocksFreed
CHECK_DEADLOCK FALSE
