SPECIFICATION FairSyncSpec
CONSTANTS
  Tasks = {t1, t2}
  Workers = {w1}
  Requests = {q1, q2}
  NoTask = NoTask
  Kinds <- AllKinds
  SyncKind <- SyncCall
  CreateKind <- CreateCall
  NativeKinds <- ClickOnly
  MaxNative = 1
  MaxTime = 2
  MaxRunTime = 9
  MaxInterrupts = 1
  MaxForced = 0
CHECK_DEADLOCK FALSE
PROPERTY SyncServed
