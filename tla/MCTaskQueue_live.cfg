SPECIFICATION FairSpec
CONSTANTS
  Tasks = {t1, t2}
  Workers = {w1}
  NoTask = NoTask
  Kinds <- LiveKinds
  MaxTime = 1
  MaxInterrupts = 1
  MaxForced = 1
CHECK_DEADLOCK FALSE
PROPERTY Settles
