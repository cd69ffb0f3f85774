------------------------------ MODULE SyncNow ------------------------------
(***************************************************************************)
(* The bridge's POST /sources/{uuid}/sync for one source, on top of the    *)
(* limited queue that runs index_source: medianest_bridge/sync_dedup.py    *)
(* decides from the TaskHistory rows alone whether an index task is        *)
(* pending or running.  The other actors that schedule index_source for    *)
(* the source (its creation, the dashboard's sync-now button, the hourly   *)
(* schedule_indexing) are the native schedulings.                          *)
(*                                                                         *)
(* A request is one step: it runs in transaction.atomic() after            *)
(* select_for_update(), so no other request and no handler writes a row    *)
(* between its reads and its writes.  A handler that read a row before the *)
(* transaction still saves it afterwards (Save of TaskQueue).              *)
(***************************************************************************)
EXTENDS TaskQueue

CONSTANTS
  Requests,      \* sync-now calls; each is made once
  SyncKind,      \* how schedule_sync_now_index schedules index_source
  CreateKind,    \* how source_post_save does for a new source
  NativeKinds,   \* how the rest of the program does
  MaxNative,     \* bound: native schedulings
  MaxRunTime     \* settings.MAX_RUN_TIME

ASSUME SyncAssumption ==
  /\ SyncKind \in Kinds /\ CreateKind \in Kinds
  /\ NativeKinds \subseteq Kinds
  /\ MaxNative \in Nat /\ MaxRunTime \in Nat

VARIABLES
  native,    \* native schedulings so far
  reply,     \* what each request did: "none" yet, "left" or "scheduled"
  serving    \* the task a request left alone, or scheduled

syncVars == <<native, reply, serving>>
allVars == <<vars, syncVars>>

----------------------------------------------------------------------------
\* find_pending_or_running_index_task: the rows its query matches ...
Matching ==
  {t \in Tasks :
     /\ ~row[t].marked
     /\ \/ row[t].status = "new" /\ row[t].scheduledAt + MaxRunTime > now
        \/ row[t].status = "running" /\ row[t].endAt + MaxRunTime > now}

\* ... and the order in which first() looks at them: a running one before
\* the pending ones, and of these the soonest.
Before(t, u) ==
  \/ row[t].status = "running" /\ row[u].status = "new"
  \/ /\ row[t].status = "running" /\ row[u].status = "running"
     /\ row[t].endAt >= row[u].endAt
  \/ /\ row[t].status = "new" /\ row[u].status = "new"
     /\ row[t].scheduledAt <= row[u].scheduledAt

First(t) == t \in Matching /\ \A u \in Matching : Before(t, u)

SyncEta == Later(SyncKind.delay)

\* Mutant: every pending row counts as slower.
SlowerAlways(t) == row[t].status = "new"

\* A pending row that is due later than sync-now would be.
Slower(t) == row[t].status = "new" /\ row[t].scheduledAt > SyncEta

\* Mutants: the rows are marked but their tasks not revoked ...
ScheduleSyncMarking(q, t, marks) ==
  /\ fate[t] = "unused"
  /\ fate' = [fate EXCEPT ![t] = "live"]
  /\ task' = [task EXCEPT ![t] =
       [kind |-> SyncKind, retries |-> SyncKind.retries, eta |-> SyncEta,
        deadline |-> Later(SyncKind.expires)]]
  /\ row' = [u \in Tasks |->
       IF u = t THEN Recorded(NewRow(SyncEta, SyncKind.dedup), "enqueued", SyncEta)
       ELSE [row[u] EXCEPT !.marked = @ \/ u \in marks]]
  /\ queue' = Append(queue, t)
  /\ reply' = [reply EXCEPT ![q] = "scheduled"]
  /\ serving' = [serving EXCEPT ![q] = t]
  /\ UNCHANGED <<now, schedule, moving, submitting, revoked, workerVars, budgets,
                 native>>

\* ... or the slow task is looked up to be revoked after the new one exists.
ScheduleSyncFirst(q, t, marks) ==
  /\ fate[t] = "unused"
  /\ fate' = [fate EXCEPT ![t] = "live"]
  /\ revoked' = IF marks = {} THEN revoked ELSE revoked \cup {t}
  /\ task' = [task EXCEPT ![t] =
       [kind |-> SyncKind, retries |-> SyncKind.retries, eta |-> SyncEta,
        deadline |-> Later(SyncKind.expires)]]
  /\ row' = [row EXCEPT ![t] =
       Recorded(NewRow(SyncEta, SyncKind.dedup), "enqueued", SyncEta)]
  /\ queue' = Append(queue, t)
  /\ reply' = [reply EXCEPT ![q] = "scheduled"]
  /\ serving' = [serving EXCEPT ![q] = t]
  /\ UNCHANGED <<now, schedule, moving, submitting, workerVars, budgets, native>>

\* TaskHistory.schedule(index_source, delay=sync_delay) under the id t, while
\* the rows in "marks" get the [revoked] prefix and their ids a key.
ScheduleSync(q, t, marks) ==
  /\ fate[t] = "unused"
  /\ fate' = [fate EXCEPT ![t] = "live"]
  /\ revoked' = revoked \cup marks
  /\ task' = [task EXCEPT ![t] =
       [kind |-> SyncKind, retries |-> SyncKind.retries, eta |-> SyncEta,
        deadline |-> Later(SyncKind.expires)]]
  /\ row' = [u \in Tasks |->
       IF u = t THEN Recorded(NewRow(SyncEta, SyncKind.dedup), "enqueued", SyncEta)
       ELSE [row[u] EXCEPT !.marked = @ \/ u \in marks]]
  /\ queue' = Append(queue, t)
  /\ reply' = [reply EXCEPT ![q] = "scheduled"]
  /\ serving' = [serving EXCEPT ![q] = t]
  /\ UNCHANGED <<now, schedule, moving, submitting, workerVars, budgets, native>>

\* Nothing matches: schedule.
SyncFresh(q, t) ==
  /\ reply[q] = "none"
  /\ Matching = {}
  /\ ScheduleSync(q, t, {})

\* A slower pending task is revoked, marked and replaced.
SyncAdvance(q, t) ==
  /\ reply[q] = "none"
  /\ \E p \in Matching : First(p) /\ Slower(p) /\ ScheduleSync(q, t, {p})

\* The request relies on the row it found.
SyncLeave(q) ==
  /\ reply[q] = "none"
  /\ \E p \in Matching :
       /\ First(p) /\ ~Slower(p)
       /\ serving' = [serving EXCEPT ![q] = p]
  /\ reply' = [reply EXCEPT ![q] = "left"]
  /\ UNCHANGED <<vars, native>>

\* The source is created, active: source_post_save schedules its first index
\* before anybody can ask for a sync.
SourceCreated(t) ==
  /\ \A u \in Tasks : fate[u] = "unused"
  /\ SubmitRow(t, CreateKind)
  /\ UNCHANGED syncVars

\* Any other th_schedule(index_source, ...) for the source.
NativeSchedule(t) ==
  /\ native < MaxNative
  /\ native' = native + 1
  /\ \E k \in NativeKinds : SubmitRow(t, k)
  /\ UNCHANGED <<reply, serving>>

----------------------------------------------------------------------------
SyncInit ==
  /\ Init
  /\ native = 0
  /\ reply = [q \in Requests |-> "none"]
  /\ serving = [q \in Requests |-> NoTask]

Queue ==
  /\ \/ Tick
     \/ Scheduler \/ SchedulerLost
     \/ \E t \in Tasks : SubmitTask(t) \/ SubmitLost(t)
     \/ \E w \in Workers : Work(w) \/ Interrupt(w) \/ Kill(w)
  /\ UNCHANGED syncVars

SyncNext ==
  \/ Queue
  \/ \E t \in Tasks : SourceCreated(t) \/ NativeSchedule(t)
  \/ \E q \in Requests :
       SyncLeave(q) \/ \E t \in Tasks : SyncFresh(q, t) \/ SyncAdvance(q, t)

SyncSpec == SyncInit /\ [][SyncNext]_allVars

\* The queue's fairness; nobody has to ask for a sync.
FairSyncSpec ==
  /\ SyncSpec
  /\ WF_allVars(Tick /\ UNCHANGED syncVars)
  /\ WF_allVars(Scheduler /\ UNCHANGED syncVars)
  /\ \A t \in Tasks : WF_allVars(SubmitTask(t) /\ UNCHANGED syncVars)
  /\ \A w \in Workers : WF_allVars(Work(w) /\ UNCHANGED syncVars)

----------------------------------------------------------------------------
(* Properties *)

\* A task that may still run its body: alive, and not about to be skipped.
Runnable(t) == fate[t] = "live" /\ t \notin revoked

\* Sync-now after sync-now, and sync-now after create's slow schedule, never
\* leave two index tasks that would both run.
AtMostOneRunnable ==
  \A t, u \in Tasks : Runnable(t) /\ Runnable(u) => t = u

\* The task a request scheduled is never taken away by a later request: it
\* is neither revoked nor due to be.
SyncKept ==
  \A q \in Requests :
    reply[q] = "scheduled" =>
      fate[serving[q]] # "revoked" /\ (fate[serving[q]] = "live" => Runnable(serving[q]))

\* When these two hold: index_source is not retried (@db_task gives it none) and
\* not put back by an interruption, nobody else schedules it, no call for it asks
\* for the removal of duplicates, and sync-now believes a row as long as the
\* clock runs.
RequestsAlone ==
  /\ \A k \in Kinds : k.retries = 0 /\ ~k.dedup
  /\ MaxInterrupts = 0 /\ MaxForced = 0 /\ MaxNative = 0
  /\ MaxTime < MaxRunTime

\* What they rest on then.  A task runs once ...
OneRun ==
  /\ now <= MaxTime /\ native = 0
  /\ \A t \in Tasks : task[t].retries = 0 /\ ~row[t].dedup
  /\ \A w \in Workers :
       /\ pc[w] \in {"idle", "examine", "start", "saving", "running"}
       /\ handler[w].signal \notin {"retrying", "interrupted"}
       /\ ~handler[w].row.dedup

\* ... and its row is new until then.
NotStarted ==
  /\ \A t \in Waiting \cup submitting : fate[t] = "live" /\ row[t].status = "new"
  /\ \A w \in Workers :
       /\ pc[w] \in {"examine", "start"} =>
            fate[held[w]] = "live" /\ row[held[w]].status = "new"
       /\ pc[w] = "running" \/ handler[w].signal = "executing" => fate[held[w]] = "live"
       /\ handler[w].signal = "scheduled" => handler[w].row.status = "new"

\* A request finds every task that may still run, in the table and in what
\* a handler is about to save there.
Finds(r, t) ==
  ~r.marked /\ r.status \in {"new", "running"} /\ r.scheduledAt = task[t].eta

Found(t) ==
  Runnable(t) =>
    /\ Finds(row[t], t)
    /\ \A w \in Workers : pc[w] = "saving" /\ held[w] = t => Finds(handler[w].row, t)

\* It is not slower than a new one would be, unless it is the create's, and
\* then there is no other.
NotSlower(t) ==
  Runnable(t) => task[t].eta <= SyncEta \/ \A u \in Tasks : fate[u] # "unused" => u = t

SyncTypeOK ==
  /\ reply \in [Requests -> {"none", "left", "scheduled"}]
  /\ serving \in [Requests -> Tasks \cup {NoTask}]

Untouched(t) == fate[t] = "unused" => row[t].status = "absent" /\ t \notin revoked

Served(q) ==
  reply[q] = "scheduled" =>
    /\ serving[q] \in Tasks
    /\ fate[serving[q]] \notin {"unused", "revoked"}
    /\ fate[serving[q]] = "live" => Runnable(serving[q]) /\ task[serving[q]].eta <= SyncEta

SyncInv ==
  /\ IInv /\ SyncTypeOK /\ OneRun /\ NotStarted /\ AtMostOneRunnable
  /\ \A t \in Tasks : Found(t) /\ NotSlower(t) /\ Untouched(t)
  /\ \A q \in Requests : Served(q)

\* A task that sync-now scheduled runs to an end of its own, or is lost to a
\* crash: requests, clicks and interruptions around it cannot starve it.
SyncServed ==
  \A q \in Requests :
    reply[q] = "scheduled" ~>
      \E t \in Tasks : /\ serving[q] = t
                      /\ fate[t] \in {"complete", "failed", "canceled", "lost"}
=============================================================================
