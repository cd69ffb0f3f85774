SPECIFICATION SyncSpec
CONSTANTS
  Tasks = {t1, t2, t3}
  Workers = {w1}
  Requests = {q1, q2}
  NoTask = NoTask
  Kinds <- AllKinds
  SyncKind <- SyncCall
  CreateKind <- CreateCall
  NativeKinds <- NoNative
  MaxNative = 0
  MaxTime = 3
  MaxRunTime = 9
  MaxInterrupts = 0
  MaxForced = 0
SYMMETRY Symmetry
CHECK_DEADLOCK FALSE
INVARIANT AtMostOneRunnable
INVARIANT SyncKept
