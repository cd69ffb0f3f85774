----------------------------- MODULE TaskQueue -----------------------------
(***************************************************************************)
(* One task queue of TubeSync: the huey storage (pending queue, schedule   *)
(* and revocation keys), its worker threads or its single worker process,  *)
(* the scheduler thread, and the TaskHistory row that the signal handlers  *)
(* of common/huey.py keep for every task.                                  *)
(*                                                                         *)
(* huey itself is a library: what a worker or the scheduler does between   *)
(* two signals is modelled from how common/huey.py and sync/tasks.py use   *)
(* it.  What the signal handlers do is translated from common/huey.py.     *)
(*                                                                         *)
(* A row's timestamps are kept as far as the code compares them: start_at  *)
(* is only ever compared with NULL and with end_at, so "status" says which *)
(* of the three cases holds; scheduled_at and end_at are clock readings.   *)
(***************************************************************************)
EXTENDS Naturals, Sequences, FiniteSets, SequencesExt

CONSTANTS
  Tasks,           \* task ids; an id is used for one scheduling call
  NoTask,          \* no task
  Workers,         \* worker threads, or one worker process
  Kinds,           \* the ways in which the program schedules tasks
  MaxTime,         \* bound: the clock stops here and an eta saturates
  MaxInterrupts,   \* bound: how often a worker process is told to stop
  MaxForced        \* bound: how often a body asks for one more try

ASSUME NoTaskAssumption == NoTask \notin Tasks
ASSUME BoundsAssumption == 
  MaxTime \in Nat /\ MaxInterrupts \in Nat /\ MaxForced \in Nat

\* A kind is what distinguishes two scheduling calls: the function and the
\* arguments ("call"), and the options of the decorator or of the call.
KindType ==
  [call : STRING, priority : Nat, retries : Nat, retryDelay : Nat,
   delay : Nat, expires : Nat, dedup : BOOLEAN]

ASSUME KindsAssumption == Kinds # {} /\ Kinds \subseteq KindType

VARIABLES
  now,         \* the clock
  task,        \* [Tasks -> message]: the task as it was last serialized
  queue,       \* the pending queue, oldest first
  schedule,    \* ids in the schedule, waiting for their eta
  moving,      \* ids the scheduler took off the schedule, not yet enqueued
  submitting,  \* ids whose row th_schedule saved, not yet enqueued
  revoked,     \* ids with a revoke_once key in the storage
  pc, held,    \* what each worker does, and with which task
  found,       \* the waiting duplicates a worker listed, not yet revoked
  handler,     \* a worker's historical_task between reading and saving
  row,         \* the TaskHistory table
  interrupts,  \* interruptions so far
  forced,      \* forced retries so far
  fate         \* auxiliary: how each task ended

queueVars  == <<queue, schedule, moving, submitting, revoked>>
workerVars == <<pc, held, found, handler>>
budgets    == <<interrupts, forced>>
vars == <<now, task, queueVars, workerVars, row, budgets, fate>>

PCs == {"idle", "examine", "list", "listed", "listedAll", "start", "saving",
        "running", "interrupted", "retry", "requeue"}
Signals == {"none", "enqueued", "scheduled", "executing", "complete", "error",
            "canceled", "locked", "retrying", "revoked", "expired",
            "interrupted"}
Ended == {"complete", "failed", "canceled", "revoked", "expired", "lost"}

MessageType == [kind : Kinds, retries : Nat, eta : Nat, deadline : Nat]

\* "new": start_at is NULL.  "running": start_at = end_at.
\* "moved": start_at # end_at, some signal came after EXECUTING.
RowType ==
  [status : {"absent", "new", "running", "moved"},
   scheduledAt : Nat, endAt : Nat, attempts : Nat,
   failed : BOOLEAN, marked : BOOLEAN, dedup : BOOLEAN]

HandlerType == [signal : Signals, row : RowType]

----------------------------------------------------------------------------
(* Helpers *)

NoRow == [status |-> "absent", scheduledAt |-> 0, endAt |-> 0, attempts |-> 0,
          failed |-> FALSE, marked |-> FALSE, dedup |-> FALSE]

NoHandler == [signal |-> "none", row |-> NoRow]

Later(d) == IF now + d > MaxTime THEN MaxTime ELSE now + d

\* The row th_schedule creates, with the columns it leaves to their defaults.
NewRow(eta, dedup) ==
  [NoRow EXCEPT !.status = "new", !.scheduledAt = eta, !.endAt = now,
                !.dedup = dedup]

\* get_or_create at the start of historical_task.
Opened(r) == IF r.status = "absent" THEN NewRow(now, FALSE) ELSE r

\* Mutant: completion leaves start_at = end_at.
RecordedStillRunning(r, signal, eta) ==
  [r EXCEPT
     !.status = IF signal \in {"executing", "complete"} THEN "running"
                ELSE IF @ = "new" THEN "new" ELSE "moved",
     !.endAt = now]

\* Mutant: start_at is set by the first run only, not by a retry.
RecordedFirstStart(r, signal, eta) ==
  [r EXCEPT
     !.status = IF signal = "executing" /\ @ = "new" THEN "running"
                ELSE IF @ = "new" THEN "new" ELSE "moved",
     !.endAt = now]

\* What historical_task makes of the row r of a task whose eta is given.
Recorded(r, signal, eta) ==
  [r EXCEPT
     !.status = IF signal = "executing" THEN "running"
                ELSE IF @ = "new" THEN "new" ELSE "moved",
     !.attempts = IF signal = "executing" THEN @ + 1 ELSE @,
     !.failed = @ \/ signal = "error",
     !.scheduledAt = IF signal \in {"enqueued", "scheduled"} THEN eta ELSE @,
     !.endAt = now]

Due(t) == task[t].eta <= now

\* Pending tasks are dequeued by priority, then in the order they came.
IsNext(i) ==
  /\ i \in DOMAIN queue
  /\ \A j \in DOMAIN queue :
       LET p(k) == task[queue[k]].kind.priority
       IN  p(j) < p(i) \/ (p(j) = p(i) /\ i <= j)

\* The waiting tasks a in S that the executing task b makes superfluous.
Duplicates(b, S) ==
  {a \in S : /\ task[a].kind.call = task[b].kind.call
             /\ a # b
             /\ task[a].kind.priority <= task[b].kind.priority
             /\ task[a].retries >= task[b].retries}

\* Worker w enters historical_task for its task: the handler has read the
\* row and computed the new one, which it saves in full by Save(w).
Handle(w, signal) ==
  LET t == held[w]
      r == Opened(row[t])
  IN  /\ row' = [row EXCEPT ![t] = r]
      /\ handler' = [handler EXCEPT
           ![w] = [signal |-> signal,
                   row |-> Recorded(r, signal, task'[t].eta)]]
      /\ pc' = [pc EXCEPT ![w] = "saving"]

\* huey.enqueue of a task nobody else can reach yet: expiry is resolved, the
\* ENQUEUED handler runs to its end, and only then the task is stored.
Enqueue(t) ==
  /\ task' = [task EXCEPT ![t].deadline = Later(task[t].kind.expires)]
  /\ row' = [row EXCEPT ![t] = Recorded(Opened(@), "enqueued", task[t].eta)]
  /\ queue' = Append(queue, t)

Release(w) ==
  /\ pc' = [pc EXCEPT ![w] = "idle"]
  /\ held' = [held EXCEPT ![w] = NoTask]
  /\ found' = [found EXCEPT ![w] = {}]
  /\ handler' = [handler EXCEPT ![w] = NoHandler]

----------------------------------------------------------------------------
Init ==
  /\ now = 0
  /\ task = [t \in Tasks |-> [kind |-> CHOOSE k \in Kinds : TRUE,
                              retries |-> 0, eta |-> 0, deadline |-> 0]]
  /\ queue = <<>>
  /\ schedule = {} /\ moving = {} /\ submitting = {} /\ revoked = {}
  /\ pc = [w \in Workers |-> "idle"]
  /\ held = [w \in Workers |-> NoTask]
  /\ found = [w \in Workers |-> {}]
  /\ handler = [w \in Workers |-> NoHandler]
  /\ row = [t \in Tasks |-> NoRow]
  /\ interrupts = 0 /\ forced = 0
  /\ fate = [t \in Tasks |-> "unused"]

----------------------------------------------------------------------------
(* Producers *)

\* th_schedule up to update_or_create: the row exists, the task does not.
SubmitRow(t, k) ==
  /\ fate[t] = "unused"
  /\ fate' = [fate EXCEPT ![t] = "live"]
  /\ task' = [task EXCEPT ![t] = [kind |-> k, retries |-> k.retries,
                                  eta |-> Later(k.delay), deadline |-> 0]]
  /\ row' = [row EXCEPT ![t] = NewRow(Later(k.delay), k.dedup)]
  /\ submitting' = submitting \cup {t}
  /\ UNCHANGED <<now, queue, schedule, moving, revoked, workerVars, budgets>>

\* th_schedule's last call: task_wrapper.huey.enqueue(task_obj).
SubmitTask(t) ==
  /\ t \in submitting
  /\ submitting' = submitting \ {t}
  /\ Enqueue(t)
  /\ UNCHANGED <<now, schedule, moving, revoked, workerVars, budgets, fate>>

\* The scheduling process dies between the two, or huey's storage raises.
SubmitLost(t) ==
  /\ t \in submitting
  /\ submitting' = submitting \ {t}
  /\ fate' = [fate EXCEPT ![t] = "lost"]
  /\ UNCHANGED <<now, task, queue, schedule, moving, revoked, workerVars, row,
                 budgets>>

----------------------------------------------------------------------------
(* The scheduler thread *)

\* Take every task that is due off the schedule.
ReadSchedule ==
  /\ moving = {}
  /\ \E t \in schedule : Due(t)
  /\ moving' = {t \in schedule : Due(t)}
  /\ schedule' = {t \in schedule : ~Due(t)}
  /\ UNCHANGED <<now, task, queue, submitting, revoked, workerVars, row,
                 budgets, fate>>

MoveToQueue(t) ==
  /\ t \in moving
  /\ moving' = moving \ {t}
  /\ Enqueue(t)
  /\ UNCHANGED <<now, schedule, submitting, revoked, workerVars, budgets, fate>>

\* The consumer dies between the two.
SchedulerLost ==
  /\ moving # {}
  /\ moving' = {}
  /\ fate' = [t \in Tasks |-> IF t \in moving THEN "lost" ELSE fate[t]]
  /\ UNCHANGED <<now, task, queue, schedule, submitting, revoked, workerVars, row,
                 budgets>>

----------------------------------------------------------------------------
(* A worker, from taking a task to the EXECUTING signal *)

Dequeue(w) ==
  /\ pc[w] = "idle"
  /\ \E i \in DOMAIN queue :
       /\ IsNext(i)
       /\ held' = [held EXCEPT ![w] = queue[i]]
       /\ queue' = RemoveAt(queue, i)
  /\ pc' = [pc EXCEPT ![w] = "examine"]
  /\ UNCHANGED <<now, task, schedule, moving, submitting, revoked, found,
                 handler, row, budgets, fate>>

\* Not due yet: back to the schedule, then SIGNAL_SCHEDULED.
Postpone(w) ==
  /\ pc[w] = "examine"
  /\ ~Due(held[w])
  /\ schedule' = schedule \cup {held[w]}
  /\ UNCHANGED task
  /\ Handle(w, "scheduled")
  /\ UNCHANGED <<now, queue, moving, submitting, revoked, held, found,
                 budgets, fate>>

\* A revoke_once key stops one run and is used up by it.
SkipRevoked(w) ==
  /\ pc[w] = "examine"
  /\ Due(held[w])
  /\ held[w] \in revoked
  /\ revoked' = revoked \ {held[w]}
  /\ fate' = [fate EXCEPT ![held[w]] = "revoked"]
  /\ UNCHANGED task
  /\ Handle(w, "revoked")
  /\ UNCHANGED <<now, queue, schedule, moving, submitting, held, found, budgets>>

SkipExpired(w) ==
  LET t == held[w]
  IN  /\ pc[w] = "examine"
      /\ Due(t)
      /\ t \notin revoked
      /\ task[t].kind.expires > 0 /\ now > task[t].deadline
      /\ fate' = [fate EXCEPT ![t] = "expired"]
      /\ UNCHANGED task
      /\ Handle(w, "expired")
      /\ UNCHANGED <<now, queueVars, held, found, budgets>>

\* The task will run.  Its EXECUTING receiver on_executing_remove_duplicates
\* goes first, and does nothing unless the row says remove_duplicates.
Accept(w) ==
  LET t == held[w]
  IN  /\ pc[w] = "examine"
      /\ Due(t)
      /\ t \notin revoked
      /\ ~(task[t].kind.expires > 0 /\ now > task[t].deadline)
      /\ pc' = [pc EXCEPT ![w] = IF row[t].dedup THEN "list" ELSE "start"]
      /\ UNCHANGED <<now, task, queueVars, held, found, handler, row,
                     budgets, fate>>

\* Mutant: duplicates are looked for among the unfinished rows, as
\* sync_dedup.py does, and not among the waiting tasks.
ListRows(w) ==
  /\ pc[w] = "list"
  /\ found' = [found EXCEPT ![w] =
       {a \in Tasks : fate[a] = "live" /\ task[a].kind.call = task[held[w]].kind.call}]
  /\ pc' = [pc EXCEPT ![w] = "listed"]
  /\ UNCHANGED <<now, task, queueVars, held, handler, row, budgets, fate>>

ListPending(w) ==
  /\ pc[w] = "list"
  /\ found' = [found EXCEPT ![w] = Duplicates(held[w], ToSet(queue))]
  /\ pc' = [pc EXCEPT ![w] = "listed"]
  /\ UNCHANGED <<now, task, queueVars, held, handler, row, budgets, fate>>

\* Revoke what the pending list gave, then read the schedule.
ListScheduled(w) ==
  /\ pc[w] = "listed"
  /\ revoked' = revoked \cup found[w]
  /\ found' = [found EXCEPT ![w] = Duplicates(held[w], schedule)]
  /\ pc' = [pc EXCEPT ![w] = "listedAll"]
  /\ UNCHANGED <<now, task, queue, schedule, moving, submitting, held, handler,
                 row, budgets, fate>>

RevokeListed(w) ==
  /\ pc[w] = "listedAll"
  /\ revoked' = revoked \cup found[w]
  /\ found' = [found EXCEPT ![w] = {}]
  /\ pc' = [pc EXCEPT ![w] = "start"]
  /\ UNCHANGED <<now, task, queue, schedule, moving, submitting, held, handler,
                 row, budgets, fate>>

Start(w) ==
  /\ pc[w] = "start"
  /\ UNCHANGED task
  /\ Handle(w, "executing")
  /\ UNCHANGED <<now, queueVars, held, found, budgets, fate>>

----------------------------------------------------------------------------
(* A worker, from the task's body to the end *)

\* Mutant: a failed task is retried without looking at its retries.
SaveRetrying(w) ==
  LET t == held[w]
      signal == handler[w].signal
      next == CASE signal = "executing" -> "running"
                [] signal = "retrying"  -> "requeue"
                [] signal \in {"error", "canceled", "locked"} -> "retry"
                [] OTHER                -> "idle"
  IN  /\ pc[w] = "saving"
      /\ row' = [row EXCEPT ![t] = handler[w].row]
      /\ pc' = [pc EXCEPT ![w] = next]
      /\ held' = [held EXCEPT ![w] = IF next = "idle" THEN NoTask ELSE t]
      /\ handler' = [handler EXCEPT ![w] = NoHandler]
      /\ UNCHANGED <<now, task, queueVars, found, budgets, fate>>

\* historical_task saves the whole row it computed, and the worker goes on.
Save(w) ==
  LET t == held[w]
      signal == handler[w].signal
      mayRetry == signal \in {"error", "canceled", "locked"} /\ task[t].retries > 0
      next == CASE signal = "executing" -> "running"
                [] signal = "retrying"  -> "requeue"
                [] mayRetry             -> "retry"
                [] OTHER                -> "idle"
  IN  /\ pc[w] = "saving"
      /\ row' = [row EXCEPT ![t] = handler[w].row]
      /\ pc' = [pc EXCEPT ![w] = next]
      /\ held' = [held EXCEPT ![w] = IF next = "idle" THEN NoTask ELSE t]
      /\ handler' = [handler EXCEPT ![w] = NoHandler]
      /\ UNCHANGED <<now, task, queueVars, found, budgets, fate>>

Complete(w) ==
  /\ pc[w] = "running"
  /\ fate' = [fate EXCEPT ![held[w]] = "complete"]
  /\ UNCHANGED task
  /\ Handle(w, "complete")
  /\ UNCHANGED <<now, queueVars, held, found, budgets>>

\* The body raises, or finds a lock_task lock taken (TaskLockedException).
Fail(w) ==
  /\ pc[w] = "running"
  /\ fate' = [fate EXCEPT ![held[w]] =
                IF task[held[w]].retries > 0 THEN @ ELSE "failed"]
  /\ UNCHANGED task
  /\ \E signal \in {"error", "locked"} : Handle(w, signal)
  /\ UNCHANGED <<now, queueVars, held, found, budgets>>

\* CancelExecution without retry=True: retry=False drops the retries, and
\* the default keeps those that are left.
Cancel(w, keepRetries) ==
  LET t == held[w]
      left == IF keepRetries THEN task[t].retries ELSE 0
  IN  /\ pc[w] = "running"
      /\ task' = [task EXCEPT ![t].retries = left]
      /\ fate' = [fate EXCEPT ![t] = IF left > 0 THEN @ ELSE "canceled"]
      /\ Handle(w, "canceled")
      /\ UNCHANGED <<now, queueVars, held, found, budgets>>

\* CancelExecution(retry=True): one more try, even when none is left.
CancelRetry(w) ==
  LET t == held[w]
  IN  /\ pc[w] = "running"
      /\ forced < MaxForced
      /\ forced' = forced + 1
      /\ task' = [task EXCEPT ![t].retries = IF @ = 0 THEN 1 ELSE @]
      /\ Handle(w, "canceled")
      /\ UNCHANGED <<now, queueVars, held, found, interrupts, fate>>

Retry(w) ==
  /\ pc[w] = "retry"
  /\ task' = [task EXCEPT ![held[w]].retries = @ - 1]
  /\ Handle(w, "retrying")
  /\ UNCHANGED <<now, queueVars, held, found, budgets, fate>>

\* Mutant: the new eta is computed and announced, the task never stored.
RequeueForgotten(w) ==
  LET t == held[w]
  IN  /\ pc[w] = "requeue"
      /\ task[t].kind.retryDelay > 0
      /\ task' = [task EXCEPT ![t].eta = Later(task[t].kind.retryDelay)]
      /\ Handle(w, "scheduled")
      /\ UNCHANGED <<now, queueVars, held, found, budgets, fate>>

\* With a retry delay the task goes to the schedule under its old id ...
RequeueLater(w) ==
  LET t == held[w]
  IN  /\ pc[w] = "requeue"
      /\ task[t].kind.retryDelay > 0
      /\ task' = [task EXCEPT ![t].eta = Later(task[t].kind.retryDelay)]
      /\ schedule' = schedule \cup {t}
      /\ Handle(w, "scheduled")
      /\ UNCHANGED <<now, queue, moving, submitting, revoked, held, found,
                     budgets, fate>>

\* ... and without one straight to the queue.
RequeueNow(w) ==
  /\ pc[w] = "requeue"
  /\ task[held[w]].kind.retryDelay = 0
  /\ Enqueue(held[w])
  /\ Release(w)
  /\ UNCHANGED <<now, schedule, moving, submitting, revoked, budgets, fate>>

\* Mutant: the task is put back, and its body goes on to its end.
InterruptIgnored(w) ==
  /\ pc[w] = "running"
  /\ interrupts < MaxInterrupts
  /\ interrupts' = interrupts + 1
  /\ Enqueue(held[w])
  /\ UNCHANGED <<now, schedule, moving, submitting, revoked, workerVars, forced,
                 fate>>

\* The consumer is told to stop while a body runs: on_interrupted puts the
\* task back on the queue before historical_task sees SIGNAL_INTERRUPTED.
Interrupt(w) ==
  /\ pc[w] = "running"
  /\ interrupts < MaxInterrupts
  /\ interrupts' = interrupts + 1
  /\ Enqueue(held[w])
  /\ pc' = [pc EXCEPT ![w] = "interrupted"]
  /\ UNCHANGED <<now, schedule, moving, submitting, revoked, held, found,
                 handler, forced, fate>>

RecordInterrupted(w) ==
  /\ pc[w] = "interrupted"
  /\ UNCHANGED task
  /\ Handle(w, "interrupted")
  /\ UNCHANGED <<now, queueVars, held, found, budgets, fate>>

\* A worker holds the only copy of its task, unless that copy is already
\* back in the storage and only the bookkeeping of the signal is left.
Owns(w) ==
  /\ pc[w] \notin {"idle", "interrupted"}
  /\ handler[w].signal \notin {"scheduled", "interrupted"}

\* SIGKILL: terminate_queue_worker, or the container dies.
Kill(w) ==
  /\ pc[w] # "idle"
  /\ fate' = [fate EXCEPT ![held[w]] =
                IF Owns(w) THEN "lost" ELSE @]
  /\ Release(w)
  /\ UNCHANGED <<now, task, queueVars, row, budgets>>

----------------------------------------------------------------------------
Tick ==
  /\ now < MaxTime
  /\ now' = now + 1
  /\ UNCHANGED <<task, queueVars, workerVars, row, budgets, fate>>

Submit(t) == SubmitTask(t) \/ SubmitLost(t) \/ \E k \in Kinds : SubmitRow(t, k)

Scheduler == ReadSchedule \/ \E t \in Tasks : MoveToQueue(t)

\* What a worker does by itself, without being interrupted or killed.
Work(w) ==
  \/ Dequeue(w)
  \/ Postpone(w) \/ SkipRevoked(w) \/ SkipExpired(w) \/ Accept(w)
  \/ ListPending(w) \/ ListScheduled(w) \/ RevokeListed(w) \/ Start(w)
  \/ Save(w)
  \/ Complete(w) \/ Fail(w) \/ CancelRetry(w)
  \/ \E keepRetries \in BOOLEAN : Cancel(w, keepRetries)
  \/ Retry(w) \/ RequeueLater(w) \/ RequeueNow(w)
  \/ RecordInterrupted(w)

Next ==
  \/ Tick
  \/ Scheduler \/ SchedulerLost
  \/ \E t \in Tasks : Submit(t)
  \/ \E w \in Workers : Work(w) \/ Interrupt(w) \/ Kill(w)

Spec == Init /\ [][Next]_vars

\* Time passes, the scheduler thread polls, a scheduling call returns, and a
\* worker that can go on goes on (a body ends in one of its ways).
Fairness ==
  /\ WF_vars(Tick)
  /\ WF_vars(Scheduler)
  /\ \A t \in Tasks : WF_vars(SubmitTask(t))
  /\ \A w \in Workers : WF_vars(Work(w))

FairSpec == Spec /\ Fairness

----------------------------------------------------------------------------
(* Properties *)

TypeOK ==
  /\ now \in Nat
  /\ task \in [Tasks -> MessageType]
  /\ queue \in Seq(Tasks)
  /\ schedule \subseteq Tasks
  /\ moving \subseteq Tasks
  /\ submitting \subseteq Tasks
  /\ revoked \subseteq Tasks
  /\ pc \in [Workers -> PCs]
  /\ held \in [Workers -> Tasks \cup {NoTask}]
  /\ found \in [Workers -> SUBSET Tasks]
  /\ handler \in [Workers -> HandlerType]
  /\ row \in [Tasks -> RowType]
  /\ interrupts \in Nat /\ forced \in Nat
  /\ fate \in [Tasks -> Ended \cup {"unused", "live"}]

Waiting == ToSet(queue) \cup schedule \cup moving

\* A task id is never in two places at once: not twice in the pending queue,
\* not in the queue and the schedule, not waiting while a worker has it, not
\* with two workers.  Retries and interruptions put the same id back (huey's
\* requeue, on_interrupted), so every one of them must come after the copy
\* before it was given up.
OneCopy ==
  /\ \A i, j \in DOMAIN queue : queue[i] = queue[j] => i = j
  /\ ToSet(queue) \cap schedule = {}
  /\ (ToSet(queue) \cup schedule) \cap moving = {}
  /\ Waiting \cap submitting = {}
  /\ \A w \in Workers : Owns(w) => held[w] \notin Waiting \cup submitting
  /\ \A v, w \in Workers : Owns(v) /\ Owns(w) /\ held[v] = held[w] => v = w

\* What OneCopy and TypeOK rest on: an id that was never used is nowhere, a
\* worker that is not idle has a task, a handler is open only between reading
\* and saving, and a task that is to be retried has a retry left, whatever
\* happened to it since its signal was recorded.
UnusedNowhere ==
  \A t \in Tasks : fate[t] = "unused" =>
    /\ t \notin Waiting \cup submitting
    /\ \A w \in Workers : held[w] # t

WorkerState(w) ==
  /\ pc[w] # "idle" => held[w] \in Tasks
  /\ pc[w] # "saving" => handler[w].signal = "none"
  /\ pc[w] = "retry" => task[held[w]].retries > 0

Bookkeeping == UnusedNowhere /\ \A w \in Workers : WorkerState(w)

IInv == TypeOK /\ OneCopy /\ Bookkeeping

\* What the row says of a task is so, when nothing but the handlers writes it:
\* a row that says "executing" (start_at = end_at, TaskHistory.running())
\* belongs to a task a worker has, and a row that was never started belongs to
\* a task that can still start.  The exceptions are ends that no handler
\* records as such: a killed worker, a revoked and an expired task.
RowTrue(t) ==
  LET atWorker == \E w \in Workers : Owns(w) /\ held[w] = t
  IN  /\ row[t].status = "running" => atWorker \/ fate[t] = "lost"
      /\ row[t].status = "new" =>
           \/ t \in Waiting \cup submitting \/ atWorker
           \/ fate[t] \in {"revoked", "expired", "lost"}

RowTruth == \A t \in Tasks : RowTrue(t)

\* While a task's body runs its row says so: get_running_tasks() and the
\* checks built on it (get_source_index_task and its like) see it.  Two
\* handlers of one id, an old signal's and a new one's, could break this.
RunningShown ==
  \A w \in Workers : pc[w] = "running" => row[held[w]].status = "running"

\* on_executing_remove_duplicates never removes every copy of a call: of the
\* tasks scheduled for it at least one ends in another way than revoked.
DedupLeavesOne ==
  \A t \in Tasks :
    fate[t] = "revoked" =>
      \E u \in Tasks :
        /\ task[u].kind.call = task[t].kind.call
        /\ fate[u] \notin {"unused", "revoked"}

\* A revoke_once key is consumed by the waiting copy it was written for.  A
\* key left behind by a task that had already passed the check would swallow
\* that task's next retry.  With one worker this cannot happen.
NoStaleKey ==
  \A t \in revoked :
    fate[t] = "live" =>
      t \in Waiting \/ \E w \in Workers : pc[w] = "examine" /\ held[w] = t

\* What these four rest on when the queue has one worker.  A task that can
\* still run is live, and a worker that has only the bookkeeping of a signal
\* left has given its task back.
LiveAt(w) ==
  LET signal == handler[w].signal
      mayRetry == signal \in {"error", "canceled", "locked"} /\ task[held[w]].retries > 0
  IN  /\ pc[w] \notin {"idle", "saving", "interrupted"} => fate[held[w]] = "live"
      /\ signal \in {"executing", "retrying"} \/ mayRetry => fate[held[w]] = "live"

LivingAt(w) ==
  LET signal == handler[w].signal
  IN  /\ LiveAt(w)
      /\ signal \in {"revoked", "expired"} => fate[held[w]] = signal
      /\ pc[w] = "interrupted" \/ signal \in {"scheduled", "interrupted"} =>
           held[w] \in Waiting \/ fate[held[w]] = "lost"

Living ==
  /\ \A t \in Waiting \cup submitting : fate[t] = "live"
  /\ \A w \in Workers : LivingAt(w)

\* The row of a task that waits has left the run before it, and between reading
\* and saving a handler nobody else changes what the row says of a run.
Halted == {"new", "moved"}

RowsAt(w) ==
  LET stored == row[held[w]].status
      signal == handler[w].signal
      next   == handler[w].row.status
  IN  /\ pc[w] \in {"examine", "list", "listed", "listedAll", "start"} =>
           stored \in Halted
      /\ pc[w] = "running" => stored = "running"
      /\ pc[w] \in {"interrupted", "retry", "requeue"} => stored = "moved"
      /\ pc[w] = "saving" =>
           \/ signal = "executing" /\ stored \in Halted /\ next = "running"
           \/ /\ signal \in {"scheduled", "revoked", "expired"}
              /\ stored \in Halted /\ next \in Halted
           \/ /\ signal \in {"complete", "error", "canceled", "locked"}
              /\ stored = "running" /\ next = "moved"
           \/ /\ signal \in {"retrying", "interrupted"}
              /\ stored = "moved" /\ next = "moved"

RowsFollow ==
  /\ \A t \in Waiting \cup submitting : row[t].status \in Halted
  /\ \A w \in Workers : RowsAt(w)

\* A key is for a copy of a call of which another copy is spared: one that has
\* ended otherwise, or that goes on without a key.
Spared(u) ==
  /\ fate[u] \notin {"unused", "revoked"}
  /\ fate[u] = "live" => u \notin revoked

FoundAt(w) ==
  /\ pc[w] \notin {"listed", "listedAll"} => found[w] = {}
  /\ \A a \in found[w] :
       /\ a # held[w] /\ task[a].kind.call = task[held[w]].kind.call
       /\ fate[a] # "unused"
       /\ fate[a] = "live" => a \in Waiting

KeysFollow ==
  /\ \A w \in Workers : FoundAt(w)
  /\ \A t \in Tasks :
       /\ t \in revoked => fate[t] # "unused"
       /\ t \in revoked \/ fate[t] = "revoked" =>
            \E u \in Tasks : Spared(u) /\ task[u].kind.call = task[t].kind.call

OneWorkerInv == Living /\ RowsFollow /\ RowTruth /\ KeysFollow /\ NoStaleKey

\* Every task that was scheduled ends: nothing gets stuck between the
\* schedule, the queue and the workers, whatever is retried or interrupted.
Settles == \A t \in Tasks : fate[t] = "live" ~> fate[t] \in Ended
=============================================================================
