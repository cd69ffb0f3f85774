SPECIFICATION Spec
CONSTANTS
  Threads = {"a", "b"}
  ProcessOf <- Process
  Questions <- Asked
  MaxNames = 2
  MaxEvents = 2
CHECK_DEADLOCK FALSE
INVARIANT ProfileSound
INVARIANT FallbackKept
INVARIANT BestFits
INVARIANT CacheCurrent
PROPERTY UserFileKept
PROPERTY ShowHealsHere
