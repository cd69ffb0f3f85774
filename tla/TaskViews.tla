------------------------------ MODULE TaskViews ------------------------------
(***************************************************************************)
(* The task pages over a TaskQueue: RevokeTaskView, TaskScheduleView (with *)
(* Huey.reschedule) and ResetTasks (with h_q_reset_tasks).  A page reads   *)
(* the storage and the TaskHistory rows while the workers go on, and acts  *)
(* on what it read.                                                        *)
(***************************************************************************)
EXTENDS TaskQueue

CONSTANTS
  MaxForms   \* bound: how many pages are sent

VARIABLES
  form,       \* the page that is being answered
  barrier,    \* revoke_all is in force: no task starts
  cancelled,  \* auxiliary: tasks that waited when a page wrote their key
  forgone,    \* auxiliary: tasks whose end a page answers for: the user revoked
              \* them, the key met them when they had started, or the page died
  forms       \* pages so far

viewVars == <<form, barrier, cancelled, forgone, forms>>
allVars == <<vars, viewVars>>

\* step: what comes next; id: the task of the page; seen: its row when the
\* page was opened; copy: the task that replaces it.
NoForm == [step |-> "none", id |-> NoTask, seen |-> NoRow, copy |-> NoTask]
ViewInit ==
  /\ Init
  /\ form = NoForm /\ barrier = FALSE /\ cancelled = {} /\ forgone = {} /\ forms = 0

At(step) == form.step = step
Goto(step) == form' = [form EXCEPT !.step = step]

Open(step, t) ==
  /\ At("none") /\ forms < MaxForms /\ forms' = forms + 1
  /\ form' = [NoForm EXCEPT !.step = step, !.id = t,
                            !.seen = IF t = NoTask THEN NoRow ELSE row[t]]
  /\ UNCHANGED <<vars, barrier, cancelled, forgone>>

\* Mutant: only a pending task is revoked.
WriteKeyPending ==
  /\ revoked' = revoked \cup ({form.id} \cap ToSet(queue))
  /\ cancelled' = cancelled \cup ({form.id} \cap Waiting)
  /\ UNCHANGED <<now, task, queue, schedule, moving, submitting, workerVars, row,
                 budgets, fate, barrier, forms>>

\* revoke_by_id and revoke with revoke_once: the key is written, wherever the
\* task is by now.
WriteKey ==
  /\ revoked' = revoked \cup {form.id}
  /\ cancelled' = cancelled \cup ({form.id} \cap Waiting)
  /\ UNCHANGED <<now, task, queue, schedule, moving, submitting, workerVars, row,
                 budgets, fate, barrier, forms>>

\* task.save() of the row as it was read, with its "[revoked] " prefix.
SaveMarked ==
  /\ row' = [row EXCEPT ![form.id] = [form.seen EXCEPT !.marked = TRUE]]
  /\ UNCHANGED <<now, task, queueVars, workerVars, budgets, fate, barrier, cancelled,
                 forgone, forms>>

----------------------------------------------------------------------------
(* RevokeTaskView *)

OpenRevoke(t) == row[t].status # "absent" /\ Open("revoke", t)

RevokeOnce ==
  /\ At("revoke") /\ WriteKey
  /\ forgone' = forgone \cup {form.id}
  /\ IF form.seen.marked THEN form' = NoForm ELSE Goto("mark")

MarkRevoked == At("mark") /\ SaveMarked /\ form' = NoForm

----------------------------------------------------------------------------
(* TaskScheduleView *)

OpenSchedule(t) == row[t].status # "absent" /\ Open("pending", t)

\* reschedule looks through the pending tasks, then through the schedule.
FindPending ==
  /\ At("pending")
  /\ Goto(IF form.id \in ToSet(queue) THEN "revoke found" ELSE "scheduled")
  /\ UNCHANGED <<vars, barrier, cancelled, forgone, forms>>

FindScheduled ==
  /\ At("scheduled")
  /\ IF form.id \in schedule THEN Goto("revoke found") ELSE form' = NoForm
  /\ UNCHANGED <<vars, barrier, cancelled, forgone, forms>>

RevokeFound == At("revoke found") /\ WriteKey /\ Goto("clone")
  /\ forgone' = forgone \cup ({form.id} \ Waiting)

\* Mutant: what is found is revoked, and no copy is made of it.
CloneNothing(u) ==
  /\ At("clone") /\ fate[u] = "unused" /\ form' = NoForm
  /\ UNCHANGED <<vars, barrier, cancelled, forgone, forms>>

\* The copy has a new id, a new eta and a clone of the row as it is now; the
\* call to enqueue is the one th_schedule ends with.
Clone(u) ==
  /\ At("clone") /\ fate[u] = "unused"
  /\ \E eta \in now .. MaxTime : task' = [task EXCEPT ![u] = [task[form.id] EXCEPT !.eta = eta]]
  /\ row' = [row EXCEPT ![u] = row[form.id]]
  /\ fate' = [fate EXCEPT ![u] = "live"]
  /\ submitting' = submitting \cup {u}
  /\ form' = [form EXCEPT !.step = "mark moved", !.copy = u]
  /\ UNCHANGED <<now, queue, schedule, moving, revoked, workerVars, budgets,
                 barrier, cancelled, forgone, forms>>

MarkMoved ==
  /\ At("mark moved") /\ form.copy \notin submitting /\ fate[form.copy] # "lost"
  /\ SaveMarked /\ form' = NoForm

\* The web process dies, alone or with enqueue.
ViewDies ==
  /\ ~At("none")
  /\ At("mark moved") => fate[form.copy] = "lost"
  /\ form' = NoForm /\ forgone' = forgone \cup ({form.id} \ {NoTask})
  /\ UNCHANGED <<vars, barrier, cancelled, forms>>

----------------------------------------------------------------------------
(* ResetTasks *)

Lost(S) == fate' = [t \in Tasks |-> IF t \in S THEN "lost" ELSE fate[t]]

\* Every task class is revoked for the next ten minutes ...
ResetRevoke == Open("flush schedule", NoTask)
BarrierUp ==
  /\ At("flush schedule") /\ ~barrier /\ barrier' = TRUE
  /\ UNCHANGED <<vars, form, cancelled, forgone, forms>>

\* ... what waits is thrown away ...
FlushSchedule ==
  /\ At("flush schedule") /\ barrier /\ Goto("flush queue")
  /\ schedule' = {} /\ Lost(schedule)
  /\ UNCHANGED <<now, task, queue, moving, submitting, revoked, workerVars, row, budgets,
                 barrier, cancelled, forgone, forms>>

FlushQueue ==
  /\ At("flush queue") /\ Goto("flush all")
  /\ queue' = <<>> /\ Lost(ToSet(queue))
  /\ UNCHANGED <<now, task, schedule, moving, submitting, revoked, workerVars, row, budgets,
                 barrier, cancelled, forgone, forms>>

\* ... and at last the revocations too, those of the users with them.
FlushAll ==
  /\ At("flush all") /\ form' = NoForm
  /\ queue' = <<>> /\ schedule' = {} /\ Lost(ToSet(queue) \cup schedule)
  /\ revoked' = {} /\ barrier' = FALSE /\ cancelled' = {}
  /\ UNCHANGED <<now, task, moving, submitting, workerVars, row, budgets, forgone, forms>>

\* The ten minutes are over, when the page died before the last flush.
BarrierExpires ==
  /\ At("none") /\ barrier /\ barrier' = FALSE
  /\ UNCHANGED <<vars, form, cancelled, forgone, forms>>

\* A worker that examines a task meanwhile drops it.
SkipReset(w) ==
  /\ barrier /\ pc[w] = "examine" /\ Due(held[w])
  /\ fate' = [fate EXCEPT ![held[w]] = "lost"]
  /\ revoked' = revoked \ {held[w]}
  /\ UNCHANGED task /\ Handle(w, "revoked")
  /\ UNCHANGED <<now, queue, schedule, moving, submitting, held, found, budgets, viewVars>>

----------------------------------------------------------------------------
\* The queue goes on; no task passes the barrier.
QueueNext ==
  /\ Next /\ UNCHANGED viewVars
  /\ barrier => \A w \in Workers : pc[w] = "examine" => pc'[w] \notin {"list", "start"}

Views ==
  \/ \E t \in Tasks : OpenRevoke(t) \/ OpenSchedule(t) \/ Clone(t)
  \/ RevokeOnce \/ MarkRevoked
  \/ FindPending \/ FindScheduled \/ RevokeFound \/ MarkMoved \/ ViewDies
  \/ ResetRevoke \/ BarrierUp \/ FlushSchedule \/ FlushQueue \/ FlushAll \/ BarrierExpires
  \/ \E w \in Workers : SkipReset(w)

ViewNext == QueueNext \/ Views
ViewSpec == ViewInit /\ [][ViewNext]_allVars

----------------------------------------------------------------------------
(* Properties *)

\* A task that still waited when a page revoked it never runs, whatever the
\* scheduler and the workers did between the page's steps (the key survives
\* a postponement and is looked at by the worker that takes the task).
CancelledNeverRuns ==
  \A w \in Workers : held[w] \in cancelled => pc[w] \notin {"list", "listed", "listedAll",
                                                         "start", "running", "retry"}

\* What it rests on, with OneCopy: a task that was revoked while it waited keeps
\* its key as long as it waits, and whoever takes it finds the key.
Steps ==
  {"none", "revoke", "mark", "pending", "scheduled", "revoke found", "clone",
   "mark moved", "flush schedule", "flush queue", "flush all"}

ViewTypeOK ==
  /\ form \in [step : Steps, id : Tasks \cup {NoTask}, seen : RowType,
               copy : Tasks \cup {NoTask}]
  /\ form.step \notin {"none", "flush schedule", "flush queue", "flush all"} =>
       form.id \in Tasks
  /\ barrier \in BOOLEAN
  /\ cancelled \subseteq Tasks /\ forgone \subseteq Tasks

KeyMeets(t) ==
  /\ fate[t] # "unused" /\ t \notin submitting
  /\ t \in Waiting => t \in revoked
  /\ \A w \in Workers : Owns(w) /\ held[w] = t =>
       \/ pc[w] = "examine" /\ t \in revoked
       \/ pc[w] = "saving" /\ handler[w].signal = "revoked"

ViewInv == IInv /\ ViewTypeOK /\ \A t \in cancelled : KeyMeets(t)

\* Rescheduling and deduplication lose nothing: a call whose task is revoked
\* has another task that was not, unless a page answers for it.
RescheduleKeeps ==
  \A t \in Tasks :
    fate[t] = "revoked" =>
      \/ t \in forgone \cup {form.id}
      \/ \E u \in Tasks \ {t} :
           /\ task[u].kind.call = task[t].kind.call
           /\ fate[u] \notin {"unused", "revoked"} \/ u \in forgone \cup {form.id}

\* What it rests on when the queue has one worker.  A key or a revoked end
\* belongs to a call that somebody still knows: another task that is spared, or
\* a page that answers for it.
Answered(t) == t \in forgone \/ (At("clone") /\ t = form.id)

Remembered(t) ==
  \E u \in Tasks : /\ task[u].kind.call = task[t].kind.call
                   /\ Spared(u) \/ Answered(u)

\* A key that a task carries past the check of its run was written by a page.
KeyInPlace(t) ==
  t \in revoked /\ fate[t] = "live" =>
    \/ t \in Waiting \cup forgone
    \/ \E w \in Workers : pc[w] = "examine" /\ held[w] = t

Untouched(t) ==
  row[t].status = "absent" /\ t \notin revoked \cup forgone /\ t # form.id

KeepsInv ==
  /\ \A t \in Waiting \cup submitting : fate[t] = "live"
  /\ \A w \in Workers : LiveAt(w) /\ FoundAt(w)
  /\ \A t \in Tasks :
       /\ fate[t] = "unused" => Untouched(t)
       /\ t \in revoked \/ fate[t] = "revoked" => Remembered(t)
       /\ KeyInPlace(t)
=============================================================================
