--------------------------- MODULE SyncNowProofs ---------------------------
(***************************************************************************)
(* Proofs about sync-now: requests that come one after the other, and      *)
(* after the source's creation, leave one index task that may run, and     *)
(* none of them takes away what another one scheduled.  Any number of      *)
(* requests, tasks and workers, any delays and expiries.                   *)
(***************************************************************************)
EXTENDS SyncNow, TaskQueueProofs

----------------------------------------------------------------------------
(* The rows the handlers make *)

\* The columns a request reads, and the mark it leaves, in the row that
\* historical_task computes.
LEMMA RecordedColumns ==
  ASSUME NEW r \in RowType, NEW signal, NEW eta
  PROVE  /\ Recorded(r, signal, eta).marked = r.marked
         /\ Recorded(r, signal, eta).dedup = r.dedup
         /\ Recorded(r, signal, eta).scheduledAt =
              IF signal \in {"enqueued", "scheduled"} THEN eta ELSE r.scheduledAt
         /\ Recorded(r, signal, eta).status =
              IF signal = "executing" THEN "running"
              ELSE IF r.status = "new" THEN "new" ELSE "moved"
<1>1. {"status", "scheduledAt", "marked", "dedup"} \subseteq DOMAIN r
  BY DEF RowType
<1> DEFINE status == IF signal = "executing" THEN "running"
                     ELSE IF r.status = "new" THEN "new" ELSE "moved"
           attempts == IF signal = "executing" THEN r.attempts + 1 ELSE r.attempts
           failed == r.failed \/ signal = "error"
           at == IF signal \in {"enqueued", "scheduled"} THEN eta ELSE r.scheduledAt
<1>2. Recorded(r, signal, eta) =
        [r EXCEPT !.status = status, !.attempts = attempts, !.failed = failed,
                  !.scheduledAt = at, !.endAt = now]
  BY DEF Recorded
<1> HIDE DEF attempts, failed, at, status
<1>3. /\ Recorded(r, signal, eta).marked = r.marked
      /\ Recorded(r, signal, eta).dedup = r.dedup
      /\ Recorded(r, signal, eta).scheduledAt = at
      /\ Recorded(r, signal, eta).status = status
  BY <1>1, <1>2
<1> QED BY <1>3 DEF at, status

\* A new row is not marked, and has its task's eta.
LEMMA NewColumns ==
  ASSUME NEW eta, NEW dedup
  PROVE  /\ NewRow(eta, dedup).status = "new"
         /\ NewRow(eta, dedup).scheduledAt = eta
         /\ NewRow(eta, dedup).marked = FALSE
         /\ NewRow(eta, dedup).dedup = dedup
BY DEF NewRow, NoRow

\* Opening a row keeps it, or makes one that asks for no removal of duplicates.
LEMMA OpenedColumns ==
  ASSUME NEW r \in RowType, ~r.dedup
  PROVE  /\ ~Opened(r).dedup
         /\ r.status # "absent" => Opened(r) = r
BY NewColumns DEF Opened

\* What a handler's opening changes.
LEMMA HandledColumns ==
  ASSUME TypeOK, NEW w \in Workers, held[w] \in Tasks, NEW signal \in Signals,
         task' \in [Tasks -> MessageType], Handle(w, signal), ~row[held[w]].dedup
  PROVE  /\ \A u \in Tasks \ {held[w]} : row'[u] = row[u]
         /\ ~row'[held[w]].dedup /\ ~handler'[w].row.dedup
         /\ row[held[w]].status # "absent" =>
              /\ row'[held[w]] = row[held[w]]
              /\ handler'[w].row = Recorded(row[held[w]], signal, task'[held[w]].eta)
<1> DEFINE t == held[w]
           r == Opened(row[t])
<1>1. row[t] \in RowType /\ row \in [Tasks -> RowType] /\ now \in Nat
  BY DEF TypeOK
<1>2. r \in RowType /\ ~r.dedup /\ (row[t].status # "absent" => r = row[t])
  <2>1. task'[t].eta \in Nat /\ FALSE \in BOOLEAN
    BY DEF MessageType
  <2> QED BY <1>1, <2>1, OpenedColumns, RowFacts
<1>3. row' = [row EXCEPT ![t] = r]
  BY DEF Handle
<1>4. handler'[w].row = Recorded(r, signal, task'[t].eta)
  BY DEF Handle, TypeOK
<1> HIDE DEF r
<1>5. ~handler'[w].row.dedup
  BY <1>2, <1>4, RecordedColumns
<1> QED BY <1>1, <1>2, <1>3, <1>4, <1>5

----------------------------------------------------------------------------
(* The queue's invariant under requests *)

\* A call to th_schedule from a request: the row and the task at once.
LEMMA ScheduleSyncStep ==
  ASSUME IInv, NEW q \in Requests, NEW t \in Tasks, NEW marks \in SUBSET Tasks,
         ScheduleSync(q, t, marks)
  PROVE  /\ IInv'
         /\ ToSet(queue') = ToSet(queue) \cup {t}
         /\ row'[t] = Recorded(NewRow(SyncEta, SyncKind.dedup), "enqueued", SyncEta)
         /\ \A u \in Tasks \ {t} :
              row'[u] = [row[u] EXCEPT !.marked = @ \/ u \in marks]
<1> USE DEF workerVars, budgets
<1>1. /\ SyncKind.retries \in Nat /\ SyncKind.dedup \in BOOLEAN
      /\ SyncEta \in Nat /\ Later(SyncKind.expires) \in Nat /\ now \in Nat
  BY SyncAssumption, KindFacts, LaterFacts DEF SyncEta, IInv, TypeOK
<1>2. Recorded(NewRow(SyncEta, SyncKind.dedup), "enqueued", SyncEta) \in RowType
  <2>1. "enqueued" \in Signals
    BY DEF Signals
  <2>2. NewRow(SyncEta, SyncKind.dedup) \in RowType
    BY <1>1, NewRowFacts
  <2> QED BY <1>1, <2>1, <2>2, RowFacts
<1>3. /\ row'[t] = Recorded(NewRow(SyncEta, SyncKind.dedup), "enqueued", SyncEta)
      /\ \A u \in Tasks \ {t} : row'[u] = [row[u] EXCEPT !.marked = @ \/ u \in marks]
  BY DEF ScheduleSync
<1>4. row' \in [Tasks -> RowType]
  <2>1. \A u \in Tasks : [row[u] EXCEPT !.marked = @ \/ u \in marks] \in RowType
    <3> SUFFICES ASSUME NEW u \in Tasks
                 PROVE  [row[u] EXCEPT !.marked = @ \/ u \in marks] \in RowType
      OBVIOUS
    <3>1. row[u] \in RowType
      BY DEF IInv, TypeOK
    <3>2. (row[u].marked \/ u \in marks) \in BOOLEAN
      OBVIOUS
    <3> QED BY <3>1, <3>2 DEF RowType
  <2> QED BY <1>2, <2>1 DEF ScheduleSync
<1>5. /\ task' \in [Tasks -> MessageType]
      /\ \A u \in Tasks \ {t} : task'[u] = task[u]
  BY <1>1, SyncAssumption DEF ScheduleSync, IInv, TypeOK, MessageType
<1>6. t \notin Waiting \cup submitting /\ \A w \in Workers : held[w] # t
  BY DEF ScheduleSync, IInv, Bookkeeping, UnusedNowhere
<1>7. /\ queue' \in Seq(Tasks) /\ ToSet(queue') = ToSet(queue) \cup {t}
      /\ Distinct(queue')
  BY <1>6, AppendFacts DEF ScheduleSync, IInv, TypeOK, OneCopy, Distinct, Waiting
<1>8. TypeOK'
  BY <1>4, <1>5, <1>7 DEF ScheduleSync, IInv, TypeOK
<1>9. OneCopy'
  <2>1. /\ Waiting' = Waiting \cup {t}
        /\ \A w \in Workers : Owns(w)' <=> Owns(w)
    BY <1>7 DEF ScheduleSync, Waiting, Owns
  <2>2. /\ ToSet(queue') \cap schedule' = {}
        /\ (ToSet(queue') \cup schedule') \cap moving' = {}
        /\ Waiting' \cap submitting' = {}
    BY <1>6, <1>7, <2>1 DEF ScheduleSync, IInv, OneCopy, Waiting
  <2> QED BY <1>6, <1>7, <2>1, <2>2 DEF ScheduleSync, IInv, OneCopy, Distinct
<1>10. UnusedNowhere'
  BY <1>7 DEF ScheduleSync, IInv, TypeOK, Bookkeeping, UnusedNowhere, Waiting
<1>11. \A w \in Workers : WorkerState(w)'
  BY <1>5, <1>6 DEF ScheduleSync, IInv, Bookkeeping, WorkerState
<1> QED BY <1>3, <1>7, <1>8, <1>9, <1>10, <1>11 DEF IInv, Bookkeeping

\* Every step, of the queue or of a request, keeps the queue's invariant.
LEMMA SyncIInv ==
  ASSUME IInv, [SyncNext]_allVars
  PROVE  IInv'
<1>1. CASE Queue
  BY <1>1, NextIInv DEF Queue, Next, Submit
<1>2. ASSUME NEW t \in Tasks, SourceCreated(t) \/ NativeSchedule(t) PROVE IInv'
  BY <1>2, NextIInv, SyncAssumption DEF SourceCreated, NativeSchedule, Next, Submit
<1>3. ASSUME NEW q \in Requests, SyncLeave(q) PROVE IInv'
  BY <1>3, NextIInv DEF SyncLeave
<1>4. ASSUME NEW q \in Requests, NEW t \in Tasks, SyncFresh(q, t) \/ SyncAdvance(q, t)
      PROVE  IInv'
  BY <1>4, ScheduleSyncStep DEF SyncFresh, SyncAdvance, Matching
<1>5. CASE UNCHANGED allVars
  BY <1>5, NextIInv DEF allVars
<1> QED BY <1>1, <1>2, <1>3, <1>4, <1>5 DEF SyncNext

----------------------------------------------------------------------------
(* Steps of the queue *)

\* What every step of the queue does to tasks, keys and the clock: tasks end,
\* keys are used up, and rows of unused ids stay out of the table.
Ages ==
  /\ now \in Nat /\ now' \in Nat /\ now <= now' /\ now' <= MaxTime
  /\ UNCHANGED syncVars
  /\ \A t \in Tasks :
       /\ task'[t].eta = task[t].eta /\ task'[t].retries = 0
       /\ fate'[t] = "unused" <=> fate[t] = "unused"
       /\ fate'[t] = "live" => fate[t] = "live"
       /\ fate'[t] = "revoked" => fate[t] = "revoked" \/ (fate[t] = "live" /\ t \in revoked)
       /\ t \in revoked' => t \in revoked
       /\ fate'[t] = "live" /\ t \in revoked => t \in revoked'
       /\ fate[t] = "unused" => row'[t] = row[t]

\* Time only brings a fresh call's eta nearer to the clock's end.
LEMMA EtaGrows ==
  ASSUME now \in Nat, now' \in Nat, now <= now', now' <= MaxTime
  PROVE  SyncEta \in Nat /\ SyncEta' \in Nat /\ SyncEta <= SyncEta'
<1>1. SyncKind.delay \in Nat /\ MaxTime \in Nat
  BY SyncAssumption, KindFacts, BoundsAssumption
<1> QED BY <1>1 DEF SyncEta, Later

\* A step of the queue makes no task runnable.
LEMMA AgesRunnable ==
  ASSUME Ages, NEW t \in Tasks
  PROVE  Runnable(t)' => Runnable(t)
BY DEF Ages, Runnable

\* What does not depend on rows survives every step of the queue.
LEMMA AgesKeep ==
  ASSUME SyncInv, IInv', Ages
  PROVE  /\ AtMostOneRunnable'
         /\ \A t \in Tasks : NotSlower(t)' /\ Untouched(t)'
         /\ \A q \in Requests : Served(q)'
<1>1. SyncEta \in Nat /\ SyncEta' \in Nat /\ SyncEta <= SyncEta'
  BY EtaGrows DEF Ages
<1>2. AtMostOneRunnable'
  BY AgesRunnable DEF SyncInv, AtMostOneRunnable
<1>3. ASSUME NEW t \in Tasks PROVE NotSlower(t)'
  <2> SUFFICES ASSUME Runnable(t)', \E u \in Tasks : fate'[u] # "unused" /\ u # t
               PROVE  task'[t].eta <= SyncEta'
    BY DEF NotSlower
  <2>1. Runnable(t) /\ \E u \in Tasks : fate[u] # "unused" /\ u # t
    BY AgesRunnable DEF Ages
  <2>2. task[t].eta <= SyncEta
    BY <2>1 DEF SyncInv, NotSlower
  <2>3. task[t].eta \in Nat /\ task'[t].eta = task[t].eta
    BY DEF SyncInv, IInv, TypeOK, MessageType, Ages
  <2> QED BY <1>1, <2>2, <2>3
<1>4. ASSUME NEW t \in Tasks PROVE Untouched(t)'
  BY DEF SyncInv, Untouched, Ages
<1>5. ASSUME NEW q \in Requests PROVE Served(q)'
  <2> SUFFICES ASSUME reply[q] = "scheduled" PROVE Served(q)'
    BY DEF Served, Ages, syncVars
  <2>1. PICK s \in Tasks : s = serving[q] /\ s = serving'[q]
    BY DEF SyncInv, Served, Ages, syncVars
  <2>2. /\ fate[s] \notin {"unused", "revoked"}
        /\ fate[s] = "live" => s \notin revoked /\ task[s].eta <= SyncEta
    BY <2>1 DEF SyncInv, Served, Runnable
  <2>3. fate'[s] \notin {"unused", "revoked"}
    BY <2>2 DEF Ages
  <2>4. ASSUME fate'[s] = "live" PROVE s \notin revoked' /\ task'[s].eta <= SyncEta'
    <3>1. s \notin revoked' /\ task'[s].eta = task[s].eta /\ task[s].eta <= SyncEta
      BY <2>2, <2>4 DEF Ages
    <3>2. task[s].eta \in Nat
      BY DEF SyncInv, IInv, TypeOK, MessageType
    <3> QED BY <1>1, <3>1, <3>2
  <2> QED BY <2>1, <2>3, <2>4 DEF Served, Runnable
<1> QED BY <1>2, <1>3, <1>4, <1>5

\* What the steps of the queue have still to keep.
RowInv == OneRun /\ NotStarted /\ \A t \in Tasks : Found(t)

----------------------------------------------------------------------------
(* Steps of the queue that no worker takes *)

\* What a step that opens no handler and writes no row does not disturb.
LEMMA StorageKeeps ==
  ASSUME SyncInv, IInv', Ages, UNCHANGED <<pc, held, handler, row>>,
         Waiting' \cup submitting' \subseteq Waiting \cup submitting,
         \A t \in Tasks : \/ fate'[t] = fate[t]
                          \/ /\ t \in Waiting \cup submitting
                             /\ t \notin Waiting' \cup submitting'
  PROVE  RowInv'
<1>1. OneRun'
  BY DEF SyncInv, OneRun, Ages, syncVars
<1>2. \A w \in Workers : Owns(w) => held[w] \in Tasks /\ fate'[held[w]] = fate[held[w]]
  BY DEF SyncInv, IInv, OneCopy, Bookkeeping, WorkerState, Owns
<1>3. \A w \in Workers :
        pc[w] \in {"examine", "start", "running"} \/ handler[w].signal = "executing" => Owns(w)
  BY OwnsFacts DEF SyncInv, IInv, Bookkeeping, WorkerState, Owns
<1>4. \A t \in Waiting' \cup submitting' : t \in Tasks /\ fate'[t] = "live" /\ row'[t].status = "new"
  <2>1. Waiting \cup submitting \subseteq Tasks
    BY ElementOfSeq, LenProperties DEF SyncInv, IInv, TypeOK, Waiting, ToSet
  <2> QED BY <2>1 DEF SyncInv, NotStarted
<1>5. NotStarted'
  BY <1>2, <1>3, <1>4 DEF SyncInv, NotStarted
<1>6. \A t \in Tasks : Found(t)'
  <2> SUFFICES ASSUME NEW t \in Tasks, Runnable(t)' PROVE Found(t)'
    BY DEF Found
  <2>1. Found(t) /\ Runnable(t) /\ task'[t].eta = task[t].eta
    BY AgesRunnable DEF SyncInv, Ages
  <2> QED BY <2>1 DEF Found, Finds
<1> QED BY <1>1, <1>5, <1>6 DEF RowInv

\* A task that is put in the queue has the row it had, with its eta.
LEMMA EnqueueKeeps ==
  ASSUME SyncInv, IInv', Ages, UNCHANGED <<pc, held, handler>>, fate' = fate,
         NEW t \in Tasks, Enqueue(t), t \in Waiting \cup submitting,
         Waiting' \cup submitting' \subseteq Waiting \cup submitting
  PROVE  RowInv'
<1>1. row[t] \in RowType /\ row[t].status = "new" /\ ~row[t].dedup
  BY DEF SyncInv, IInv, TypeOK, NotStarted, OneRun
<1>2. /\ row' = [row EXCEPT ![t] = Recorded(row[t], "enqueued", task[t].eta)]
      /\ row \in [Tasks -> RowType]
  BY <1>1, OpenedColumns DEF Enqueue, SyncInv, IInv, TypeOK
<1>3. PICK r : r = Recorded(row[t], "enqueued", task[t].eta)
  OBVIOUS
<1>4. /\ r.status = "new" /\ ~r.dedup /\ r.marked = row[t].marked
      /\ r.scheduledAt = task[t].eta
  BY <1>1, <1>3, RecordedColumns
<1>5. row'[t] = r /\ \A u \in Tasks \ {t} : row'[u] = row[u]
  BY <1>2, <1>3
<1>6. OneRun'
  BY <1>4, <1>5 DEF SyncInv, OneRun, Ages, syncVars
<1>7. \A u \in Waiting' \cup submitting' : u \in Tasks /\ fate'[u] = "live" /\ row'[u].status = "new"
  <2>1. Waiting \cup submitting \subseteq Tasks
    BY ElementOfSeq, LenProperties DEF SyncInv, IInv, TypeOK, Waiting, ToSet
  <2> QED BY <1>4, <1>5, <2>1 DEF SyncInv, NotStarted
<1>8. \A w \in Workers : pc[w] # "idle" => held[w] \in Tasks
  BY DEF SyncInv, IInv, Bookkeeping, WorkerState
<1>9. NotStarted'
  BY <1>4, <1>5, <1>7, <1>8 DEF SyncInv, NotStarted
<1>10. \A u \in Tasks : Found(u)'
  <2> SUFFICES ASSUME NEW u \in Tasks, Runnable(u)' PROVE Found(u)'
    BY DEF Found
  <2>1. Found(u) /\ Runnable(u) /\ task'[u].eta = task[u].eta
    BY AgesRunnable DEF SyncInv, Ages
  <2> QED BY <1>4, <1>5, <2>1 DEF Found, Finds
<1> QED BY <1>6, <1>9, <1>10 DEF RowInv

\* The clock, the scheduler and the ends of scheduling calls.
LEMMA OffWorkerKeeps ==
  ASSUME SyncInv, IInv', UNCHANGED syncVars,
         \/ Tick \/ ReadSchedule \/ SchedulerLost
         \/ \E t \in Tasks : MoveToQueue(t) \/ SubmitTask(t) \/ SubmitLost(t)
  PROVE  Ages /\ RowInv'
<1> USE DEF workerVars, queueVars, budgets
<1>1. /\ now \in Nat /\ now <= MaxTime /\ MaxTime \in Nat
      /\ \A t \in Tasks : task[t].retries = 0
      /\ fate \in [Tasks -> Ended \cup {"unused", "live"}]
      /\ submitting \subseteq Tasks /\ moving \subseteq Tasks
  BY BoundsAssumption DEF SyncInv, OneRun, IInv, TypeOK
<1>2. \A t \in Waiting \cup submitting : fate[t] = "live"
  BY DEF SyncInv, NotStarted
<1>3. CASE Tick
  <2>1. Ages
    BY <1>1, <1>3 DEF Tick, Ages
  <2> QED BY <1>3, <2>1, StorageKeeps DEF Tick, Waiting
<1>4. CASE ReadSchedule
  <2>1. Ages
    BY <1>1, <1>4 DEF ReadSchedule, Ages
  <2>2. Waiting' = Waiting
    BY <1>4 DEF ReadSchedule, Waiting
  <2> QED BY <1>4, <2>1, <2>2, StorageKeeps DEF ReadSchedule
<1>5. CASE SchedulerLost
  <2>1. Ages
    BY <1>1, <1>2, <1>5 DEF SchedulerLost, Ages, Waiting
  <2>2. /\ Waiting' \cup submitting' \subseteq Waiting \cup submitting
        /\ \A t \in moving : t \in Waiting /\ t \notin Waiting' \cup submitting'
    BY <1>5 DEF SchedulerLost, Waiting, SyncInv, IInv, OneCopy
  <2> QED BY <1>5, <2>1, <2>2, StorageKeeps DEF SchedulerLost
<1>6. ASSUME NEW t \in Tasks, SubmitLost(t) PROVE Ages /\ RowInv'
  <2>1. Ages
    BY <1>1, <1>2, <1>6 DEF SubmitLost, Ages
  <2>2. /\ Waiting' = Waiting /\ t \in submitting /\ submitting' = submitting \ {t}
        /\ t \notin Waiting
    BY <1>6 DEF SubmitLost, Waiting, SyncInv, IInv, OneCopy
  <2>3. \A u \in Tasks \ {t} : fate'[u] = fate[u]
    BY <1>1, <1>6 DEF SubmitLost
  <2> QED BY <1>6, <2>1, <2>2, <2>3, StorageKeeps DEF SubmitLost
<1>7. ASSUME NEW t \in Tasks, MoveToQueue(t) \/ SubmitTask(t) PROVE Ages /\ RowInv'
  <2>1. Enqueue(t) /\ t \in Waiting \cup submitting /\ fate' = fate
    BY <1>7 DEF MoveToQueue, SubmitTask, Waiting
  <2>2. \A u \in Tasks : task'[u].eta = task[u].eta /\ task'[u].retries = task[u].retries
    BY <2>1 DEF Enqueue, SyncInv, IInv, TypeOK, MessageType
  <2>3. \A u \in Tasks \ {t} : row'[u] = row[u]
    BY <2>1 DEF Enqueue, SyncInv, IInv, TypeOK
  <2>4. fate[t] = "live"
    BY <1>2, <2>1
  <2>5. Ages
    BY <1>1, <1>7, <2>1, <2>2, <2>3, <2>4 DEF MoveToQueue, SubmitTask, Ages
  <2>6. ToSet(queue') = ToSet(queue) \cup {t}
    BY <2>1, EnqueueFacts DEF SyncInv, IInv
  <2>7. Waiting' \cup submitting' \subseteq Waiting \cup submitting
    BY <1>7, <2>1, <2>6 DEF MoveToQueue, SubmitTask, Waiting
  <2> QED BY <1>7, <2>1, <2>5, <2>7, EnqueueKeeps DEF MoveToQueue, SubmitTask
<1> QED BY <1>3, <1>4, <1>5, <1>6, <1>7

----------------------------------------------------------------------------
(* Steps of a worker *)

\* Worker w enters historical_task for the task it has: it goes back to the
\* schedule, begins its run, or is over.
Signalled(w, signal) ==
  /\ Owns(w) /\ Handle(w, signal)
  /\ signal \in {"scheduled", "executing", "revoked", "expired", "complete", "error",
                 "locked", "canceled"}
  /\ UNCHANGED <<now, queue, moving, submitting, held, found>>
  /\ schedule' = IF signal = "scheduled" THEN schedule \cup {held[w]} ELSE schedule
  /\ task' \in [Tasks -> MessageType]
  /\ \A u \in Tasks : task'[u].eta = task[u].eta /\ task'[u].retries = 0
  /\ fate[held[w]] = "live"
  /\ IF signal \in {"scheduled", "executing"}
     THEN fate'[held[w]] = "live" /\ row[held[w]].status = "new" /\ revoked' = revoked
     ELSE fate'[held[w]] \in Ended
  /\ \A u \in Tasks \ {held[w]} : fate'[u] = fate[u] /\ (u \in revoked' <=> u \in revoked)
  /\ held[w] \in revoked' => held[w] \in revoked
  /\ fate'[held[w]] = "revoked" => held[w] \in revoked

\* Every step in which a worker signals, and there are no others than these.
LEMMA SignalForm ==
  ASSUME RequestsAlone, SyncInv, NEW w \in Workers,
         \/ Postpone(w) \/ SkipRevoked(w) \/ SkipExpired(w) \/ Start(w)
         \/ Complete(w) \/ Fail(w) \/ CancelRetry(w)
         \/ \E keepRetries \in BOOLEAN : Cancel(w, keepRetries)
         \/ Retry(w) \/ RequeueLater(w) \/ RecordInterrupted(w)
  PROVE  \E signal : Signalled(w, signal)
<1> USE DEF queueVars, budgets
<1>1. pc[w] \in {"examine", "start", "running"}
  <2>1. forced \in Nat /\ pc[w] \in {"idle", "examine", "start", "saving", "running"}
    BY DEF SyncInv, IInv, TypeOK, OneRun
  <2> QED
    BY <2>1 DEF RequestsAlone, Postpone, SkipRevoked, SkipExpired, Start, Complete, Fail,
                CancelRetry, Cancel, Retry, RequeueLater, RecordInterrupted
<1>2. Owns(w)
  BY <1>1, OwnsFacts DEF SyncInv
<1>3. /\ held[w] \in Tasks /\ fate[held[w]] = "live" /\ task[held[w]].retries = 0
      /\ pc[w] \in {"examine", "start"} => row[held[w]].status = "new"
  BY <1>1, <1>2, OwnerFacts DEF SyncInv, OneRun, NotStarted
<1>4. /\ task \in [Tasks -> MessageType] /\ revoked \subseteq Tasks
      /\ fate \in [Tasks -> Ended \cup {"unused", "live"}]
      /\ \A u \in Tasks : task[u].retries = 0
  BY DEF SyncInv, IInv, TypeOK, OneRun
<1>5. CASE Postpone(w)
  <2>1. Signalled(w, "scheduled")
    BY <1>2, <1>3, <1>4, <1>5 DEF Postpone, Signalled
  <2> QED BY <2>1
<1>6. CASE SkipRevoked(w)
  <2>1. Signalled(w, "revoked")
    BY <1>2, <1>3, <1>4, <1>6 DEF SkipRevoked, Signalled, Ended
  <2> QED BY <2>1
<1>7. CASE SkipExpired(w)
  <2>1. Signalled(w, "expired")
    BY <1>2, <1>3, <1>4, <1>7 DEF SkipExpired, Signalled, Ended
  <2> QED BY <2>1
<1>8. CASE Start(w)
  <2>1. Signalled(w, "executing")
    BY <1>2, <1>3, <1>4, <1>8 DEF Start, Signalled
  <2> QED BY <2>1
<1>9. CASE Complete(w)
  <2>1. Signalled(w, "complete")
    BY <1>2, <1>3, <1>4, <1>9 DEF Complete, Signalled, Ended
  <2> QED BY <2>1
<1>10. CASE Fail(w)
  <2>1. PICK signal \in {"error", "locked"} : Handle(w, signal)
    BY <1>10 DEF Fail
  <2>2. fate' = [fate EXCEPT ![held[w]] = "failed"]
    BY <1>3, <1>10 DEF Fail
  <2>3. Signalled(w, signal)
    BY <1>2, <1>3, <1>4, <1>10, <2>1, <2>2 DEF Fail, Signalled, Ended
  <2> QED BY <2>3
<1>11. ASSUME NEW keepRetries \in BOOLEAN, Cancel(w, keepRetries)
       PROVE  Signalled(w, "canceled")
  <2>1. /\ task' = [task EXCEPT ![held[w]].retries = 0]
        /\ fate' = [fate EXCEPT ![held[w]] = "canceled"]
    BY <1>3, <1>11 DEF Cancel
  <2>2. /\ task' \in [Tasks -> MessageType]
        /\ \A u \in Tasks : task'[u].eta = task[u].eta /\ task'[u].retries = 0
    BY <1>3, <1>4, <2>1 DEF MessageType
  <2> QED BY <1>2, <1>3, <1>4, <1>11, <2>1, <2>2 DEF Cancel, Signalled, Ended
<1>12. ~CancelRetry(w) /\ ~Retry(w) /\ ~RequeueLater(w) /\ ~RecordInterrupted(w)
  <2>1. forced \in Nat
    BY DEF SyncInv, IInv, TypeOK
  <2> QED
    BY <1>1, <2>1 DEF RequestsAlone, CancelRetry, Retry, RequeueLater, RecordInterrupted
<1> QED BY <1>5, <1>6, <1>7, <1>8, <1>9, <1>10, <1>11, <1>12

\* A signal leaves rows that a request understands.
LEMMA SignalledKeeps ==
  ASSUME SyncInv, IInv', UNCHANGED syncVars, NEW w \in Workers, NEW signal,
         Signalled(w, signal)
  PROVE  Ages /\ RowInv'
<1>1. PICK t \in Tasks :
        /\ t = held[w] /\ t = held'[w] /\ fate[t] = "live"
        /\ t \notin Waiting \cup submitting
        /\ \A v \in Workers \ {w} : Owns(v) => held[v] # t
  BY OwnerFacts DEF Signalled, SyncInv, Waiting
<1>2. /\ signal \in Signals
      /\ pc'[w] = "saving" /\ handler'[w].signal = signal
      /\ \A v \in Workers \ {w} : pc'[v] = pc[v] /\ handler'[v] = handler[v] /\ held'[v] = held[v]
  <2>1. signal \in Signals
    BY DEF Signalled, Signals
  <2> QED BY <1>1, <2>1, HandleFacts DEF Signalled, SyncInv, IInv
<1>3. /\ \A u \in Tasks \ {t} : row'[u] = row[u]
      /\ ~row'[t].dedup /\ ~handler'[w].row.dedup
      /\ row[t].status # "absent" =>
           /\ row'[t] = row[t]
           /\ handler'[w].row = Recorded(row[t], signal, task[t].eta)
  <2>1. ~row[t].dedup /\ task'[t].eta = task[t].eta
    BY DEF SyncInv, OneRun, Signalled
  <2> QED BY <1>1, <1>2, <2>1, HandledColumns DEF Signalled, SyncInv, IInv
<1>4. Ages
  <2>1. /\ now \in Nat /\ now <= MaxTime /\ now' = now
        /\ fate \in [Tasks -> Ended \cup {"unused", "live"}]
    BY DEF SyncInv, OneRun, IInv, TypeOK, Signalled
  <2>2. "live" \notin Ended /\ "unused" \notin Ended
    BY DEF Ended
  <2>3. /\ fate'[t] # "unused"
        /\ fate'[t] = "revoked" => t \in revoked
        /\ t \in revoked' => t \in revoked
        /\ fate'[t] = "live" /\ t \in revoked => t \in revoked'
    BY <1>1, <2>2 DEF Signalled
  <2>4. ASSUME NEW u \in Tasks, u # t
        PROVE  /\ fate'[u] = fate[u] /\ (u \in revoked' <=> u \in revoked)
               /\ row'[u] = row[u]
    BY <1>1, <1>3, <2>4 DEF Signalled
  <2>5. \A u \in Tasks : task'[u].eta = task[u].eta /\ task'[u].retries = 0
    BY DEF Signalled
  <2> QED BY <1>1, <2>1, <2>3, <2>4, <2>5 DEF Ages
<1>5. OneRun'
  <2>1. signal \notin {"retrying", "interrupted"}
    BY DEF Signalled
  <2> QED BY <1>2, <1>3, <1>4, <2>1 DEF SyncInv, OneRun, Ages, syncVars
<1>6. row[t] \in RowType /\ task[t].eta \in Nat
  BY DEF SyncInv, IInv, TypeOK, MessageType
<1>7. CASE signal \in {"scheduled", "executing"}
  <2>1. /\ fate'[t] = "live" /\ row[t].status = "new" /\ row'[t] = row[t]
        /\ handler'[w].row = Recorded(row[t], signal, task[t].eta)
    BY <1>1, <1>3, <1>7 DEF Signalled
  <2>2. PICK r : r = handler'[w].row /\ r = Recorded(row[t], signal, task[t].eta)
    BY <2>1
  <2>3. /\ r.marked = row[t].marked
        /\ r.scheduledAt = IF signal = "scheduled" THEN task[t].eta ELSE row[t].scheduledAt
        /\ r.status = IF signal = "executing" THEN "running" ELSE "new"
    BY <1>6, <1>7, <2>1, <2>2, RecordedColumns
  <2>4. ASSUME NEW u \in Tasks, u \in Waiting' \cup submitting'
        PROVE  fate'[u] = "live" /\ row'[u].status = "new"
    <3>1. u = t \/ u \in Waiting \cup submitting
      BY <1>1, <2>4 DEF Signalled, Waiting
    <3> QED BY <1>1, <1>3, <2>1, <3>1 DEF SyncInv, NotStarted, Signalled
  <2>5. Waiting' \cup submitting' \subseteq Tasks
    BY ElementOfSeq, LenProperties DEF IInv, TypeOK, Waiting, ToSet
  <2>6. ASSUME NEW v \in Workers
        PROVE  /\ pc'[v] \in {"examine", "start"} =>
                    fate'[held'[v]] = "live" /\ row'[held'[v]].status = "new"
               /\ pc'[v] = "running" \/ handler'[v].signal = "executing" => fate'[held'[v]] = "live"
               /\ handler'[v].signal = "scheduled" => handler'[v].row.status = "new"
    <3>1. CASE v = w
      BY <1>1, <1>2, <2>1, <2>2, <2>3, <3>1
    <3>2. CASE v # w
      <4>1. pc[v] \in {"examine", "start", "running"} \/ handler[v].signal = "executing" =>
              held[v] \in Tasks
        BY DEF SyncInv, IInv, Bookkeeping, WorkerState
      <4>2. held[v] \in Tasks => /\ fate'[held[v]] = fate[held[v]] \/ held[v] = t
                                 /\ row'[held[v]] = row[held[v]]
        BY <1>1, <1>3, <2>1 DEF Signalled
      <4> QED BY <1>1, <1>2, <2>1, <3>2, <4>1, <4>2 DEF SyncInv, NotStarted
    <3> QED BY <3>1, <3>2
  <2>7. NotStarted'
    BY <2>4, <2>5, <2>6 DEF NotStarted
  <2>8. ASSUME NEW u \in Tasks PROVE Found(u)'
    <3> SUFFICES ASSUME Runnable(u)' PROVE Found(u)'
      BY DEF Found
    <3>1. Found(u) /\ Runnable(u) /\ task'[u].eta = task[u].eta
      BY <1>4, AgesRunnable DEF SyncInv, Ages
    <3>2. row'[u] = row[u] /\ Finds(row[u], u)
      BY <1>3, <2>1, <3>1 DEF Found
    <3>3. ASSUME NEW v \in Workers, pc'[v] = "saving", held'[v] = u
          PROVE  Finds(handler'[v].row, u)
      <4>1. CASE v = w
        BY <1>1, <2>2, <2>3, <3>2, <3>3, <4>1 DEF Finds
      <4>2. CASE v # w
        BY <1>2, <3>1, <3>3, <4>2 DEF Found
      <4> QED BY <4>1, <4>2
    <3> QED BY <3>1, <3>2, <3>3 DEF Found, Finds
  <2> QED BY <1>4, <1>5, <2>7, <2>8 DEF RowInv
<1>8. CASE signal \notin {"scheduled", "executing"}
  <2>1. fate'[t] # "live"
    BY <1>1, <1>8 DEF Signalled, Ended
  <2>2. Waiting' = Waiting /\ submitting' = submitting
    BY <1>8 DEF Signalled, Waiting
  <2>3. \A u \in Waiting' \cup submitting' : fate'[u] = "live" /\ row'[u].status = "new"
    <3>1. Waiting \cup submitting \subseteq Tasks
      BY ElementOfSeq, LenProperties DEF SyncInv, IInv, TypeOK, Waiting, ToSet
    <3> QED BY <1>1, <1>3, <2>2, <3>1 DEF SyncInv, NotStarted, Signalled
  <2>4. ASSUME NEW v \in Workers
        PROVE  /\ pc'[v] \in {"examine", "start"} =>
                    fate'[held'[v]] = "live" /\ row'[held'[v]].status = "new"
               /\ pc'[v] = "running" \/ handler'[v].signal = "executing" => fate'[held'[v]] = "live"
               /\ handler'[v].signal = "scheduled" => handler'[v].row.status = "new"
    <3>1. CASE v = w
      BY <1>2, <1>8, <3>1
    <3>2. CASE v # w
      <4>1. pc[v] \in {"examine", "start", "running"} \/ handler[v].signal = "executing" =>
              Owns(v) /\ held[v] \in Tasks
        BY OwnsFacts DEF SyncInv, IInv, Bookkeeping, WorkerState, Owns
      <4>2. Owns(v) /\ held[v] \in Tasks => fate'[held[v]] = fate[held[v]]
                                            /\ row'[held[v]] = row[held[v]]
        BY <1>1, <1>3, <3>2 DEF Signalled
      <4> QED BY <1>2, <3>2, <4>1, <4>2 DEF SyncInv, NotStarted
    <3> QED BY <3>1, <3>2
  <2>5. NotStarted'
    BY <2>3, <2>4 DEF NotStarted
  <2>6. ASSUME NEW u \in Tasks PROVE Found(u)'
    <3> SUFFICES ASSUME Runnable(u)' PROVE Found(u)'
      BY DEF Found
    <3>1. Found(u) /\ Runnable(u) /\ task'[u].eta = task[u].eta /\ u # t
      BY <1>4, <2>1, AgesRunnable DEF SyncInv, Ages, Runnable
    <3> QED BY <1>1, <1>2, <1>3, <3>1 DEF Found, Finds
  <2> QED BY <1>4, <1>5, <2>5, <2>6 DEF RowInv
<1> QED BY <1>7, <1>8

\* What Ages asks of a step that ends at most the task a worker has.
LEMMA AgesByWorker ==
  ASSUME SyncInv, UNCHANGED <<now, task, revoked, syncVars>>,
         NEW t \in Tasks, fate[t] # "unused",
         \A u \in Tasks \ {t} : fate'[u] = fate[u] /\ row'[u] = row[u],
         fate'[t] \in {fate[t], "lost"}
  PROVE  Ages
<1>1. /\ now \in Nat /\ now <= MaxTime
      /\ \A u \in Tasks : task[u].retries = 0
  BY DEF SyncInv, OneRun, IInv, TypeOK
<1> QED BY <1>1 DEF Ages

\* A handler saves a row that a request understands, too; what waits meanwhile
\* still reads as new.
LEMMA SaveFinds ==
  ASSUME SyncInv, IInv', UNCHANGED syncVars, NEW w \in Workers, Save(w)
  PROVE  Ages /\ RowInv'
<1> USE DEF queueVars, budgets
<1>1. PICK t \in Tasks : t = held[w]
  BY DEF Save, SyncInv, IInv, Bookkeeping, WorkerState
<1>2. PICK r : r = handler[w].row
  OBVIOUS
<1> DEFINE next == IF handler[w].signal = "executing" THEN "running" ELSE "idle"
<1>3. /\ pc[w] = "saving" /\ task[t].retries = 0
      /\ handler[w].signal \notin {"retrying", "interrupted"}
  BY DEF Save, SyncInv, OneRun
<1>4. /\ row' = [row EXCEPT ![t] = r]
      /\ pc' = [pc EXCEPT ![w] = next]
      /\ held' = [held EXCEPT ![w] = IF next = "idle" THEN NoTask ELSE t]
      /\ handler' = [handler EXCEPT ![w] = NoHandler]
      /\ UNCHANGED <<now, task, queue, schedule, moving, submitting, revoked, fate>>
  <2> DEFINE signal == handler[w].signal
             mayRetry == signal \in {"error", "canceled", "locked"} /\ task[t].retries > 0
             step == CASE signal = "executing" -> "running"
                       [] signal = "retrying"  -> "requeue"
                       [] mayRetry             -> "retry"
                       [] OTHER                -> "idle"
  <2>1. step = next
    BY <1>3
  <2>2. /\ row' = [row EXCEPT ![t] = r]
        /\ pc' = [pc EXCEPT ![w] = step]
        /\ held' = [held EXCEPT ![w] = IF step = "idle" THEN NoTask ELSE t]
        /\ handler' = [handler EXCEPT ![w] = NoHandler]
        /\ UNCHANGED <<now, task, queue, schedule, moving, submitting, revoked, fate>>
    BY <1>1, <1>2 DEF Save
  <2> HIDE DEF step, next
  <2> QED BY <2>1, <2>2
<1>5. /\ row \in [Tasks -> RowType] /\ pc \in [Workers -> PCs]
      /\ held \in [Workers -> Tasks \cup {NoTask}] /\ handler \in [Workers -> HandlerType]
  BY DEF SyncInv, IInv, TypeOK
<1>6. /\ row'[t] = r /\ \A u \in Tasks \ {t} : row'[u] = row[u]
      /\ pc'[w] = next /\ handler'[w] = NoHandler
      /\ next = "running" => held'[w] = t
      /\ \A v \in Workers \ {w} : pc'[v] = pc[v] /\ held'[v] = held[v] /\ handler'[v] = handler[v]
  BY <1>4, <1>5
<1>7. ~NoHandler.row.dedup /\ NoHandler.signal = "none"
  BY DEF NoHandler, NoRow
<1>8. fate[t] # "unused"
  BY <1>1, <1>3 DEF SyncInv, IInv, Bookkeeping, UnusedNowhere
<1>9. Ages
  BY <1>4, <1>6, <1>8, AgesByWorker
<1>10. OneRun'
  BY <1>2, <1>4, <1>6, <1>7 DEF SyncInv, OneRun, syncVars
<1>11. Owns(w) \/ r.status = "new"
  BY <1>2, <1>3 DEF Owns, SyncInv, NotStarted
<1>12. Owns(w) => /\ t \notin Waiting \cup submitting
                  /\ \A v \in Workers \ {w} : Owns(v) => held[v] # t
  BY <1>1 DEF SyncInv, IInv, OneCopy
<1>13. ASSUME NEW u \in Waiting' \cup submitting'
       PROVE  fate'[u] = "live" /\ row'[u].status = "new"
  <2>1. u \in Waiting \cup submitting /\ u \in Tasks
    <3>1. Waiting \cup submitting \subseteq Tasks
      BY ElementOfSeq, LenProperties DEF SyncInv, IInv, TypeOK, Waiting, ToSet
    <3> QED BY <1>4, <3>1 DEF Waiting
  <2> QED BY <1>4, <1>6, <1>11, <1>12, <2>1 DEF SyncInv, NotStarted
<1>14. ASSUME NEW v \in Workers
       PROVE  /\ pc'[v] \in {"examine", "start"} =>
                   fate'[held'[v]] = "live" /\ row'[held'[v]].status = "new"
              /\ pc'[v] = "running" \/ handler'[v].signal = "executing" => fate'[held'[v]] = "live"
              /\ handler'[v].signal = "scheduled" => handler'[v].row.status = "new"
  <2>1. CASE v = w
    BY <1>1, <1>4, <1>6, <1>7, <2>1 DEF SyncInv, NotStarted
  <2>2. CASE v # w
    <3>1. pc[v] \in {"examine", "start"} => Owns(v) /\ held[v] \in Tasks
      BY OwnsFacts DEF SyncInv, IInv, Bookkeeping, WorkerState
    <3> QED BY <1>4, <1>6, <1>11, <1>12, <2>2, <3>1 DEF SyncInv, NotStarted
  <2> QED BY <2>1, <2>2
<1>15. NotStarted'
  BY <1>13, <1>14 DEF NotStarted
<1>16. ASSUME NEW u \in Tasks PROVE Found(u)'
  <2> SUFFICES ASSUME Runnable(u)' PROVE Found(u)'
    BY DEF Found
  <2>1. Found(u) /\ Runnable(u) /\ task'[u].eta = task[u].eta
    BY <1>9, AgesRunnable DEF SyncInv, Ages
  <2>2. Finds(row'[u], u)
    BY <1>1, <1>2, <1>3, <1>6, <2>1 DEF Found
  <2>3. ASSUME NEW v \in Workers, pc'[v] = "saving", held'[v] = u
        PROVE  Finds(handler'[v].row, u)
    BY <1>6, <2>1, <2>3 DEF Found
  <2> QED BY <2>1, <2>2, <2>3 DEF Found, Finds
<1> QED BY <1>9, <1>10, <1>15, <1>16 DEF RowInv

\* Taking a task, accepting it and being killed write no row.
LEMMA HandKeeps ==
  ASSUME SyncInv, IInv', UNCHANGED syncVars, NEW w \in Workers,
         Dequeue(w) \/ Accept(w) \/ Kill(w)
  PROVE  Ages /\ RowInv'
<1> USE DEF queueVars, budgets
<1>1. /\ pc \in [Workers -> PCs] /\ queue \in Seq(Tasks)
      /\ held \in [Workers -> Tasks \cup {NoTask}] /\ handler \in [Workers -> HandlerType]
      /\ fate \in [Tasks -> Ended \cup {"unused", "live"}]
  BY DEF SyncInv, IInv, TypeOK
<1>2. /\ \A v \in Workers \ {w} : pc'[v] = pc[v] /\ held'[v] = held[v] /\ handler'[v] = handler[v]
      /\ UNCHANGED <<now, task, submitting, revoked, row>>
  BY <1>1 DEF Dequeue, Accept, Kill, Release
<1>3. Waiting \cup submitting \subseteq Tasks
  BY ElementOfSeq, LenProperties DEF SyncInv, IInv, TypeOK, Waiting, ToSet
<1>4. \A v \in Workers :
        pc[v] \in {"examine", "start", "running"} \/ handler[v].signal = "executing" =>
          Owns(v) /\ held[v] \in Tasks
  BY OwnsFacts DEF SyncInv, IInv, Bookkeeping, WorkerState, Owns
<1>5. CASE Dequeue(w)
  <2>1. PICK i \in DOMAIN queue : /\ held' = [held EXCEPT ![w] = queue[i]]
                                  /\ queue' = RemoveAt(queue, i)
    BY <1>5 DEF Dequeue
  <2>2. PICK t \in Tasks : t = queue[i] /\ t \in ToSet(queue)
    BY <1>1, <2>1, ElementOfSeq, LenProperties DEF ToSet
  <2>3. Waiting' \subseteq Waiting
    BY <1>1, <1>5, <2>1, RemoveAtFacts DEF Dequeue, Waiting
  <2>4. /\ pc'[w] = "examine" /\ held'[w] = t /\ handler' = handler /\ fate' = fate
        /\ handler[w].signal = "none"
    BY <1>1, <1>5, <2>1, <2>2 DEF Dequeue, SyncInv, IInv, Bookkeeping, WorkerState
  <2>5. fate[t] = "live" /\ row[t].status = "new"
    BY <2>2 DEF SyncInv, NotStarted, Waiting
  <2>6. Ages
    BY <1>2, <2>4, <2>5, AgesByWorker
  <2>7. OneRun'
    BY <1>2, <2>4 DEF SyncInv, OneRun, syncVars
  <2>8. NotStarted'
    BY <1>2, <1>3, <2>3, <2>4, <2>5 DEF SyncInv, NotStarted
  <2>9. \A u \in Tasks : Found(u)'
    BY <1>2, <2>4 DEF SyncInv, Found, Finds, Runnable
  <2> QED BY <2>6, <2>7, <2>8, <2>9 DEF RowInv
<1>6. CASE Accept(w)
  <2>1. PICK t \in Tasks : t = held[w] /\ fate[t] = "live" /\ row[t].status = "new" /\ ~row[t].dedup
    BY <1>4, <1>6 DEF Accept, SyncInv, OneRun, NotStarted
  <2>2. /\ pc'[w] = "start" /\ held' = held /\ handler' = handler /\ fate' = fate
        /\ Waiting' = Waiting /\ handler[w].signal = "none"
    BY <1>1, <1>6, <2>1 DEF Accept, Waiting, SyncInv, IInv, Bookkeeping, WorkerState
  <2>3. Ages
    BY <1>2, <2>1, <2>2, AgesByWorker
  <2>4. OneRun'
    BY <1>2, <2>2 DEF SyncInv, OneRun, syncVars
  <2>5. NotStarted'
    BY <1>2, <1>3, <2>1, <2>2 DEF SyncInv, NotStarted
  <2>6. \A u \in Tasks : Found(u)'
    BY <1>2, <2>2 DEF SyncInv, Found, Finds, Runnable
  <2> QED BY <2>3, <2>4, <2>5, <2>6 DEF RowInv
<1>7. CASE Kill(w)
  <2>1. PICK t \in Tasks : t = held[w] /\ fate[t] # "unused"
    BY <1>7 DEF Kill, SyncInv, IInv, Bookkeeping, WorkerState, UnusedNowhere
  <2>2. /\ pc'[w] = "idle" /\ handler'[w] = NoHandler /\ Waiting' = Waiting
        /\ fate' = [fate EXCEPT ![t] = IF Owns(w) THEN "lost" ELSE @]
    BY <1>1, <1>7, <2>1 DEF Kill, Release, Waiting
  <2>3. ~NoHandler.row.dedup /\ NoHandler.signal = "none"
    BY DEF NoHandler, NoRow
  <2>4. \A u \in Tasks \ {t} : fate'[u] = fate[u]
    BY <1>1, <2>2
  <2>5. ~Owns(w) => fate'[t] = fate[t]
    BY <1>1, <2>2
  <2>6. fate'[t] \in {fate[t], "lost"}
    BY <1>1, <2>2
  <2>7. Ages
    BY <1>2, <2>1, <2>4, <2>6, AgesByWorker
  <2>8. OneRun'
    BY <1>2, <2>2, <2>3 DEF SyncInv, OneRun, syncVars
  <2>9. \A u \in Waiting \cup submitting : fate'[u] = fate[u]
    BY <1>3, <2>1, <2>4, <2>5 DEF SyncInv, IInv, OneCopy
  <2>10. \A v \in Workers \ {w} : Owns(v) /\ held[v] \in Tasks => fate'[held[v]] = fate[held[v]]
    BY <2>1, <2>4, <2>5 DEF SyncInv, IInv, OneCopy
  <2>11. NotStarted'
    BY <1>2, <1>3, <1>4, <2>2, <2>3, <2>9, <2>10 DEF SyncInv, NotStarted
  <2>12. ASSUME NEW u \in Tasks PROVE Found(u)'
    <3> SUFFICES ASSUME Runnable(u)' PROVE Found(u)'
      BY DEF Found
    <3>1. Found(u) /\ Runnable(u)
      BY <2>7, AgesRunnable DEF SyncInv
    <3> QED BY <1>2, <2>2, <3>1 DEF Found, Finds
  <2> QED BY <2>7, <2>8, <2>11, <2>12 DEF RowInv
<1> QED BY <1>5, <1>6, <1>7

\* Every step of the queue.
LEMMA QueueKeeps ==
  ASSUME RequestsAlone, SyncInv, IInv', Queue
  PROVE  SyncInv'
<1>1. ASSUME NEW w \in Workers, Work(w) \/ Interrupt(w) \/ Kill(w), UNCHANGED syncVars
      PROVE  Ages /\ RowInv'
  <2>1. CASE \/ Postpone(w) \/ SkipRevoked(w) \/ SkipExpired(w) \/ Start(w)
             \/ Complete(w) \/ Fail(w) \/ CancelRetry(w)
             \/ \E keepRetries \in BOOLEAN : Cancel(w, keepRetries)
             \/ Retry(w) \/ RequeueLater(w) \/ RecordInterrupted(w)
    BY <1>1, <2>1, SignalForm, SignalledKeeps
  <2>2. CASE Save(w)
    BY <1>1, <2>2, SaveFinds
  <2>3. CASE Dequeue(w) \/ Accept(w) \/ Kill(w)
    BY <1>1, <2>3, HandKeeps
  <2>4. ~ListPending(w) /\ ~ListScheduled(w) /\ ~RevokeListed(w) /\ ~RequeueNow(w) /\ ~Interrupt(w)
    <3>1. /\ interrupts \in Nat
          /\ pc[w] \in {"idle", "examine", "start", "saving", "running"}
      BY DEF SyncInv, IInv, TypeOK, OneRun
    <3> QED
      BY <3>1 DEF RequestsAlone, ListPending, ListScheduled, RevokeListed, RequeueNow, Interrupt
  <2> QED BY <1>1, <2>1, <2>2, <2>3, <2>4 DEF Work
<1>2. Ages /\ RowInv'
  BY <1>1, OffWorkerKeeps DEF Queue, Scheduler
<1> QED BY <1>2, AgesKeep DEF SyncInv, RowInv, SyncTypeOK, Ages, syncVars

----------------------------------------------------------------------------
(* Requests *)

\* A request finds every task that may still run.
LEMMA RunnableMatches ==
  ASSUME RequestsAlone, SyncInv, NEW t \in Tasks, Runnable(t)
  PROVE  t \in Matching
<1>1. ~row[t].marked /\ row[t].status \in {"new", "running"}
  BY DEF SyncInv, Found, Finds
<1>2. /\ row[t].scheduledAt \in Nat /\ row[t].endAt \in Nat
      /\ now \in Nat /\ now <= MaxTime /\ MaxTime \in Nat
      /\ MaxRunTime \in Nat /\ MaxTime < MaxRunTime
  BY BoundsAssumption, SyncAssumption
  DEF SyncInv, IInv, TypeOK, RowType, OneRun, RequestsAlone
<1>3. row[t].scheduledAt + MaxRunTime > now /\ row[t].endAt + MaxRunTime > now
  BY <1>2
<1> QED BY <1>1, <1>3 DEF Matching

\* The slow task a request replaces is the only one that may still run, if
\* any may.
LEMMA OnlySlower ==
  ASSUME RequestsAlone, SyncInv, NEW p \in Matching, First(p), Slower(p),
         NEW t \in Tasks, Runnable(t)
  PROVE  t = p
<1>1. /\ p \in Tasks /\ row[p].status = "new" /\ row[p].scheduledAt > SyncEta
      /\ row[p].scheduledAt \in Nat
  BY DEF Matching, Slower, SyncInv, IInv, TypeOK, RowType
<1>2. t \in Matching /\ Before(p, t)
  BY RunnableMatches DEF First
<1>3. row[p].scheduledAt <= row[t].scheduledAt /\ row[t].scheduledAt = task[t].eta
  BY <1>1, <1>2 DEF Before, SyncInv, Found, Finds
<1>4. SyncEta \in Nat
  BY SyncAssumption, KindFacts, LaterFacts DEF SyncEta, SyncInv, IInv, TypeOK
<1>5. task[t].eta \in Nat
  BY DEF SyncInv, IInv, TypeOK, MessageType
<1>6. ~(task[t].eta <= SyncEta)
  BY <1>1, <1>3, <1>4, <1>5
<1>7. \A u \in Tasks : fate[u] # "unused" => u = t
  BY <1>6 DEF SyncInv, NotSlower
<1>8. fate[p] # "unused"
  BY <1>1 DEF SyncInv, Untouched
<1> QED BY <1>1, <1>7, <1>8

\* A request that schedules, when nothing else may run but what it marks.
LEMMA RequestKeeps ==
  ASSUME RequestsAlone, SyncInv, NEW q \in Requests, NEW t \in Tasks,
         NEW marks \in SUBSET Tasks, reply[q] = "none", ScheduleSync(q, t, marks),
         \A u \in Tasks : Runnable(u) => u \in marks,
         \A p \in marks : fate[p] # "unused" /\ row[p].scheduledAt > SyncEta
  PROVE  SyncInv'
<1> USE DEF workerVars, budgets
<1>1. /\ IInv'
      /\ ToSet(queue') = ToSet(queue) \cup {t}
      /\ row'[t] = Recorded(NewRow(SyncEta, SyncKind.dedup), "enqueued", SyncEta)
      /\ \A u \in Tasks \ {t} : row'[u] = [row[u] EXCEPT !.marked = @ \/ u \in marks]
  BY ScheduleSyncStep DEF SyncInv
<1>2. /\ fate[t] = "unused" /\ t \notin revoked /\ t \notin marks
      /\ \A w \in Workers : held[w] # t
  BY DEF ScheduleSync, SyncInv, Untouched, IInv, Bookkeeping, UnusedNowhere
<1>3. /\ SyncKind.retries = 0 /\ SyncKind.dedup = FALSE
      /\ SyncEta \in Nat /\ SyncEta' = SyncEta
  BY SyncAssumption, KindFacts, LaterFacts
  DEF RequestsAlone, SyncEta, Later, ScheduleSync, SyncInv, IInv, TypeOK
<1>4. /\ now' = now /\ fate'[t] = "live" /\ revoked' = revoked \cup marks
      /\ task'[t].eta = SyncEta /\ task'[t].retries = 0
      /\ \A u \in Tasks \ {t} : fate'[u] = fate[u] /\ task'[u] = task[u]
      /\ UNCHANGED <<schedule, moving, submitting, pc, held, handler, native>>
  BY <1>3 DEF ScheduleSync, SyncInv, IInv, TypeOK
<1>5. /\ row'[t].status = "new" /\ row'[t].scheduledAt = SyncEta
      /\ ~row'[t].marked /\ ~row'[t].dedup
  <2>1. now \in Nat /\ SyncKind.dedup \in BOOLEAN
    BY SyncAssumption, KindFacts DEF SyncInv, IInv, TypeOK
  <2>2. NewRow(SyncEta, SyncKind.dedup) \in RowType
    BY <1>3, <2>1, NewRowFacts
  <2>3. PICK r : r = NewRow(SyncEta, SyncKind.dedup)
    OBVIOUS
  <2>4. r.status = "new" /\ r.marked = FALSE /\ r.dedup = SyncKind.dedup
    BY <2>3 DEF NewRow, NoRow
  <2>5. r.status = "new" /\ ~r.marked /\ ~r.dedup
    BY <1>3, <2>4
  <2>6. r \in RowType /\ row'[t] = Recorded(r, "enqueued", SyncEta)
    BY <1>1, <2>2, <2>3
  <2> QED BY <2>5, <2>6, RecordedColumns
<1>6. \A u \in Tasks \ {t} : /\ row'[u].status = row[u].status
                             /\ row'[u].dedup = row[u].dedup
  <2> SUFFICES ASSUME NEW u \in Tasks \ {t}
               PROVE  row'[u].status = row[u].status /\ row'[u].dedup = row[u].dedup
    OBVIOUS
  <2>1. row[u] \in RowType
    BY DEF SyncInv, IInv, TypeOK
  <2> QED BY <1>1, <2>1 DEF RowType
<1>7. \A u \in Tasks : Runnable(u)' => u = t
  BY <1>4 DEF Runnable
<1>8. OneRun'
  BY <1>4, <1>5, <1>6 DEF SyncInv, OneRun
<1>9. NotStarted'
  <2>1. Waiting' \cup submitting' = Waiting \cup submitting \cup {t}
    BY <1>1, <1>4 DEF Waiting
  <2>2. Waiting \cup submitting \subseteq Tasks
    BY ElementOfSeq, LenProperties DEF SyncInv, IInv, TypeOK, Waiting, ToSet
  <2>3. \A u \in Waiting' \cup submitting' : fate'[u] = "live" /\ row'[u].status = "new"
    BY <1>4, <1>5, <1>6, <2>1, <2>2 DEF SyncInv, NotStarted
  <2>4. \A w \in Workers : pc[w] # "idle" => held[w] \in Tasks \ {t}
    BY <1>2 DEF SyncInv, IInv, Bookkeeping, WorkerState
  <2>5. \A w \in Workers : handler[w].signal # "none" => pc[w] # "idle"
    BY DEF SyncInv, IInv, Bookkeeping, WorkerState
  <2> QED BY <1>4, <1>6, <2>3, <2>4, <2>5 DEF SyncInv, NotStarted
<1>10. AtMostOneRunnable'
  BY <1>7 DEF AtMostOneRunnable
<1>11. ASSUME NEW u \in Tasks PROVE Found(u)' /\ NotSlower(u)' /\ Untouched(u)'
  <2>1. Found(u)'
    BY <1>2, <1>4, <1>5, <1>7 DEF Found, Finds
  <2>2. NotSlower(u)'
    BY <1>3, <1>4, <1>7 DEF NotSlower
  <2>3. Untouched(u)'
    BY <1>4, <1>6 DEF SyncInv, Untouched
  <2> QED BY <2>1, <2>2, <2>3
<1>12. ASSUME NEW r \in Requests, reply'[r] = "scheduled" PROVE Served(r)'
  <2>1. CASE r = q /\ serving'[r] = t
    BY <1>2, <1>3, <1>4, <2>1 DEF Served, Runnable
  <2>2. CASE reply[r] = "scheduled" /\ serving'[r] = serving[r]
    <3>1. PICK s \in Tasks : s = serving[r] /\ s = serving'[r]
      BY <2>2 DEF SyncInv, Served
    <3>2. /\ fate[s] \notin {"unused", "revoked"}
          /\ fate[s] = "live" => Runnable(s) /\ task[s].eta <= SyncEta
      BY <2>2, <3>1 DEF SyncInv, Served
    <3>3. s # t /\ fate'[s] = fate[s] /\ task'[s] = task[s]
      BY <1>2, <1>4, <3>2
    <3>4. fate[s] = "live" => s \notin marks
      <4> SUFFICES ASSUME fate[s] = "live", s \in marks PROVE FALSE
        OBVIOUS
      <4>1. row[s].scheduledAt = task[s].eta /\ task[s].eta <= SyncEta /\ task[s].eta \in Nat
        BY <3>2 DEF SyncInv, Found, Finds, IInv, TypeOK, MessageType
      <4> QED BY <1>3, <4>1
    <3> QED BY <1>3, <1>4, <3>1, <3>2, <3>3, <3>4 DEF Served, Runnable
  <2>3. /\ reply \in [Requests -> {"none", "left", "scheduled"}]
        /\ serving \in [Requests -> Tasks \cup {NoTask}]
    BY DEF SyncInv, SyncTypeOK
  <2>4. /\ reply' = [reply EXCEPT ![q] = "scheduled"]
        /\ serving' = [serving EXCEPT ![q] = t]
    BY DEF ScheduleSync
  <2> QED BY <1>12, <2>1, <2>2, <2>3, <2>4
<1>13. SyncTypeOK'
  BY DEF ScheduleSync, SyncInv, SyncTypeOK
<1> QED BY <1>1, <1>8, <1>9, <1>10, <1>11, <1>12, <1>13 DEF SyncInv, Served

\* The source's creation schedules the first task there is.
LEMMA CreatedKeeps ==
  ASSUME RequestsAlone, SyncInv, IInv', NEW t \in Tasks, SourceCreated(t)
  PROVE  SyncInv'
<1> USE DEF workerVars, budgets
<1> DEFINE eta == Later(CreateKind.delay)
<1>1. /\ \A u \in Tasks : fate[u] = "unused"
      /\ \A u \in Tasks \ {t} : /\ fate'[u] = "unused" /\ row'[u] = row[u]
                                /\ task'[u] = task[u]
      /\ fate'[t] = "live" /\ task'[t].eta = eta
      /\ task'[t].retries = CreateKind.retries
      /\ row'[t] = NewRow(eta, CreateKind.dedup)
      /\ submitting' = submitting \cup {t}
      /\ UNCHANGED <<now, queue, schedule, moving, revoked, pc, held, handler>>
      /\ UNCHANGED syncVars
  BY DEF SourceCreated, SubmitRow, SyncInv, IInv, TypeOK
<1>2. CreateKind.retries = 0 /\ CreateKind.dedup = FALSE
  BY SyncAssumption, KindFacts DEF RequestsAlone
<1>3. /\ row'[t].status = "new" /\ row'[t].scheduledAt = eta
      /\ ~row'[t].marked /\ ~row'[t].dedup
  <2>1. PICK r : r = NewRow(eta, CreateKind.dedup)
    OBVIOUS
  <2> HIDE DEF eta
  <2>2. r.status = "new" /\ r.marked = FALSE /\ r.dedup = FALSE /\ r.scheduledAt = eta
    BY <1>2, <2>1 DEF NewRow, NoRow
  <2>3. row'[t] = r
    BY <1>1, <2>1
  <2> QED BY <2>2, <2>3
<1>4. t \notin revoked /\ \A w \in Workers : held[w] # t
  BY <1>1 DEF SyncInv, Untouched, IInv, Bookkeeping, UnusedNowhere
<1>5. Waiting \cup submitting = {} /\ \A w \in Workers : pc[w] = "idle"
  <2>1. Waiting \cup submitting \subseteq Tasks
    BY ElementOfSeq, LenProperties DEF SyncInv, IInv, TypeOK, Waiting, ToSet
  <2> QED BY <1>1, <2>1 DEF SyncInv, IInv, Bookkeeping, UnusedNowhere, WorkerState
<1>6. \A u \in Tasks : Runnable(u)' => u = t
  BY <1>1 DEF Runnable
<1>7. SyncTypeOK' /\ AtMostOneRunnable'
  BY <1>1, <1>6 DEF SyncInv, SyncTypeOK, AtMostOneRunnable, syncVars
<1>8. OneRun'
  BY <1>1, <1>2, <1>3 DEF SyncInv, OneRun, syncVars
<1>9. NotStarted'
  <2>1. Waiting' \cup submitting' = {t}
    BY <1>1, <1>5 DEF Waiting
  <2>2. \A w \in Workers : pc'[w] = "idle" /\ handler'[w].signal = "none"
    BY <1>1, <1>5 DEF SyncInv, IInv, Bookkeeping, WorkerState
  <2> QED BY <1>1, <1>3, <2>1, <2>2 DEF NotStarted
<1>10. ASSUME NEW u \in Tasks PROVE Found(u)' /\ NotSlower(u)' /\ Untouched(u)'
  <2>1. Found(u)'
    BY <1>1, <1>3, <1>4, <1>6 DEF Found, Finds
  <2>2. NotSlower(u)'
    BY <1>1, <1>6 DEF NotSlower
  <2>3. Untouched(u)'
    BY <1>1 DEF SyncInv, Untouched
  <2> QED BY <2>1, <2>2, <2>3
<1>11. ASSUME NEW q \in Requests PROVE Served(q)'
  BY <1>1 DEF SyncInv, Served, syncVars
<1> QED BY <1>7, <1>8, <1>9, <1>10, <1>11 DEF SyncInv

\* A request that leaves what it found changes no task.
LEMMA LeaveKeeps ==
  ASSUME SyncInv, IInv', NEW q \in Requests, SyncLeave(q)
  PROVE  SyncInv'
<1>1. /\ UNCHANGED vars /\ native' = native
      /\ reply' = [reply EXCEPT ![q] = "left"]
      /\ \E p \in Tasks : serving' = [serving EXCEPT ![q] = p]
  BY DEF SyncLeave, Matching
<1> USE DEF vars, queueVars, workerVars, budgets
<1>2. SyncTypeOK'
  BY <1>1 DEF SyncInv, SyncTypeOK
<1>3. OneRun' /\ NotStarted' /\ AtMostOneRunnable'
  BY <1>1 DEF SyncInv, OneRun, NotStarted, Waiting, AtMostOneRunnable, Runnable
<1>4. \A t \in Tasks : Found(t)' /\ NotSlower(t)' /\ Untouched(t)'
  BY <1>1 DEF SyncInv, Found, Finds, Runnable, NotSlower, SyncEta, Later, Untouched
<1>5. ASSUME NEW r \in Requests PROVE Served(r)'
  <2> SUFFICES ASSUME reply'[r] = "scheduled" PROVE Served(r)'
    BY DEF Served
  <2>1. reply[r] = "scheduled" /\ serving'[r] = serving[r]
    BY <1>1 DEF SyncInv, SyncTypeOK
  <2> QED BY <1>1, <2>1 DEF SyncInv, Served, Runnable, SyncEta, Later
<1> QED BY <1>2, <1>3, <1>4, <1>5 DEF SyncInv

\* Every step keeps the invariant.
LEMMA SyncKeeps ==
  ASSUME RequestsAlone, SyncInv, [SyncNext]_allVars
  PROVE  SyncInv'
<1>1. IInv'
  BY SyncIInv DEF SyncInv
<1>2. CASE Queue
  BY <1>1, <1>2, QueueKeeps
<1>3. ASSUME NEW t \in Tasks, SourceCreated(t) PROVE SyncInv'
  BY <1>1, <1>3, CreatedKeeps
<1>4. ASSUME NEW t \in Tasks PROVE ~NativeSchedule(t)
  BY DEF RequestsAlone, NativeSchedule, SyncInv, OneRun
<1>5. ASSUME NEW q \in Requests, SyncLeave(q) PROVE SyncInv'
  BY <1>1, <1>5, LeaveKeeps
<1>6. ASSUME NEW q \in Requests, NEW t \in Tasks, SyncFresh(q, t) PROVE SyncInv'
  <2>1. reply[q] = "none" /\ Matching = {} /\ ScheduleSync(q, t, {})
    BY <1>6 DEF SyncFresh
  <2>2. \A u \in Tasks : ~Runnable(u)
    BY <2>1, RunnableMatches
  <2> QED BY <2>1, <2>2, RequestKeeps
<1>7. ASSUME NEW q \in Requests, NEW t \in Tasks, SyncAdvance(q, t) PROVE SyncInv'
  <2>1. PICK p \in Matching : First(p) /\ Slower(p) /\ ScheduleSync(q, t, {p})
    BY <1>7 DEF SyncAdvance
  <2>2. p \in Tasks /\ row[p].status = "new" /\ row[p].scheduledAt > SyncEta
    BY <2>1 DEF Matching, Slower
  <2>3. fate[p] # "unused"
    BY <2>2 DEF SyncInv, Untouched
  <2>4. \A u \in Tasks : Runnable(u) => u \in {p}
    BY <2>1, OnlySlower
  <2>5. reply[q] = "none"
    BY <1>7 DEF SyncAdvance
  <2> QED BY <2>1, <2>2, <2>3, <2>4, <2>5, RequestKeeps
<1>8. CASE UNCHANGED allVars
  <2> USE DEF allVars, syncVars, vars, queueVars, workerVars, budgets
  <2>1. OneRun' /\ NotStarted' /\ AtMostOneRunnable' /\ SyncTypeOK'
    BY <1>8 DEF SyncInv, OneRun, NotStarted, Waiting, AtMostOneRunnable, Runnable, SyncTypeOK
  <2>2. \A t \in Tasks : Found(t)' /\ NotSlower(t)' /\ Untouched(t)'
    BY <1>8 DEF SyncInv, Found, Finds, Runnable, NotSlower, SyncEta, Later, Untouched
  <2>3. \A q \in Requests : Served(q)'
    BY <1>8 DEF SyncInv, Served, Runnable, SyncEta, Later
  <2> QED BY <1>1, <2>1, <2>2, <2>3 DEF SyncInv
<1> QED BY <1>2, <1>3, <1>4, <1>5, <1>6, <1>7, <1>8 DEF SyncNext

LEMMA InitSyncInv == SyncInit => SyncInv
<1> SUFFICES ASSUME SyncInit PROVE SyncInv
  OBVIOUS
<1>1. IInv
  BY InitIInv DEF SyncInit
<1>2. /\ \A t \in Tasks : fate[t] = "unused" /\ row[t] = NoRow /\ task[t].retries = 0
      /\ \A w \in Workers : pc[w] = "idle" /\ handler[w] = NoHandler
      /\ now = 0 /\ native = 0 /\ revoked = {} /\ submitting = {} /\ Waiting = {}
      /\ \A q \in Requests : reply[q] = "none"
  BY DEF SyncInit, Init, Waiting, ToSet
<1>3. OneRun
  BY <1>2, BoundsAssumption DEF OneRun, NoHandler, NoRow
<1>4. NotStarted /\ AtMostOneRunnable /\ SyncTypeOK
  BY <1>2 DEF NotStarted, AtMostOneRunnable, Runnable, NoHandler, SyncInit, SyncTypeOK
<1>5. \A t \in Tasks : Found(t) /\ NotSlower(t) /\ Untouched(t)
  BY <1>2 DEF Found, NotSlower, Untouched, Runnable, NoRow
<1>6. \A q \in Requests : Served(q)
  BY <1>2 DEF Served
<1> QED BY <1>1, <1>3, <1>4, <1>5, <1>6 DEF SyncInv

----------------------------------------------------------------------------
(* Theorems *)

\* The invariant behind the next two: each task runs once, a row that may still
\* lead to a run is one that a request's query matches, and it is due no later
\* than a new call would be.
THEOREM SyncInvariance ==
  ASSUME RequestsAlone
  PROVE  SyncSpec => []SyncInv
<1>1. SyncInv /\ [SyncNext]_allVars => SyncInv'
  BY SyncKeeps
<1> QED BY <1>1, InitSyncInv, PTL DEF SyncSpec

\* find_pending_or_running_index_task never misses a task that may still run,
\* so sync-now after sync-now, or after the creation, leaves one.
THEOREM OneRunnable ==
  ASSUME RequestsAlone
  PROVE  SyncSpec => []AtMostOneRunnable
<1>1. SyncInv => AtMostOneRunnable
  BY DEF SyncInv
<1> QED BY <1>1, SyncInvariance, PTL

\* schedule_sync_now_index revokes only a task that is due later than its own,
\* and no task that a request scheduled is.
THEOREM RequestsAreKept ==
  ASSUME RequestsAlone
  PROVE  SyncSpec => []SyncKept
<1>1. SyncInv => SyncKept
  BY DEF SyncInv, Served, SyncKept
<1> QED BY <1>1, SyncInvariance, PTL

=============================================================================
