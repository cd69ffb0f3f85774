SPECIFICATION Spec
CONSTANTS
  MaxEvents = 2
  DeleteFiles = TRUE
PROPERTY NotUnderneath
PROPERTY SkipStays
PROPERTY NotAgain
CHECK_DEADLOCK FALSE
