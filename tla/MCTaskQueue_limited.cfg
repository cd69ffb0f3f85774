SPECIFICATION Spec
CONSTANTS
  Tasks = {t1, t2}
  Workers = {w1}
  NoTask = NoTask
  Kinds <- LimitedKinds
  MaxTime = 2
  MaxInterrupts = 1
  MaxForced = 1
SYMMETRY TaskSymmetry
CHECK_DEADLOCK FALSE
INVARIANT TypeOK
INVARIANT OneCopy
INVARIANT RowTruth
INVARIANT RunningShown
INVARIANT NoStaleKey
INVARIANT DedupLeavesOne
