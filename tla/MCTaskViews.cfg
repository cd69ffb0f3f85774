SPECIFICATION ViewSpec
CONSTANTS
  Tasks = {t1, t2}
  Workers = {w1, w2}
  NoTask = NoTask
  Kinds <- OneKind
  MaxTime = 0
  MaxInterrupts = 0
  MaxForced = 0
  MaxForms = 1
SYMMETRY BothSymmetry
CHECK_DEADLOCK FALSE
INVARIANT CancelledNeverRuns
INVARIANT RescheduleKeeps
