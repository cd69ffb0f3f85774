SPECIFICATION Spec
CONSTANTS
  Consumers <- OneConsumer
  MaxRelease = 2
  MaxTime = 1
  TTL = 1
  MaxOperator = 1
  MaxTroubles = 1
CHECK_DEADLOCK FALSE
VIEW UnlabelledView
INVARIANT AskedOnce
INVARIANT PausedIsAsked
INVARIANT StoppedShown
INVARIANT ChecksApart
