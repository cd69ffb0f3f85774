-------------------------- MODULE TaskViewsProofs --------------------------
(***************************************************************************)
(* Proofs about the task pages: they make no second copy of a task, and a  *)
(* task that was revoked while it waited never runs.  Any number of tasks, *)
(* workers and pages, and any kinds of tasks.  In a queue with one worker, *)
(* besides, no call is forgotten that is revoked, copied or deduplicated.  *)
(***************************************************************************)
EXTENDS TaskViews, TaskQueueProofs

----------------------------------------------------------------------------
(* The queue's invariant under the pages *)

\* A page that changes only itself, keys or rows leaves the queue consistent.
LEMMA PageOnly ==
  ASSUME IInv, row' \in [Tasks -> RowType], revoked' \subseteq Tasks,
         UNCHANGED <<now, task, queue, schedule, moving, submitting, workerVars,
                     budgets, fate>>
  PROVE  IInv'
<1> USE DEF workerVars, budgets
<1>1. TypeOK'
  BY DEF IInv, TypeOK
<1>2. Quiet
  BY DEF Quiet, Owns
<1>3. \A w \in Workers : WorkerState(w)'
  BY DEF IInv, Bookkeeping, WorkerState
<1> QED BY <1>1, <1>2, <1>3, QuietStep DEF IInv, Bookkeeping

\* Throwing away what waits leaves the rest as it is.
LEMMA FlushStep ==
  ASSUME IInv, NEW S \in SUBSET Tasks, Lost(S), revoked' \subseteq Tasks,
         \/ queue' = queue
         \/ queue' = <<>>,
         schedule' \subseteq schedule,
         UNCHANGED <<now, task, moving, submitting, workerVars, row, budgets>>
  PROVE  IInv' /\ Waiting' \subseteq Waiting
<1> USE DEF workerVars, budgets
<1>1. /\ queue' \in Seq(Tasks) /\ Distinct(queue')
      /\ ToSet(queue') \subseteq ToSet(queue)
  <2>1. CASE queue' = queue
    BY <2>1 DEF IInv, TypeOK, OneCopy, Distinct
  <2>2. CASE queue' = <<>>
    BY <2>2 DEF ToSet, Distinct
  <2> QED BY <2>1, <2>2
<1>2. Waiting' \subseteq Waiting
  BY <1>1 DEF Waiting
<1>3. /\ fate' \in [Tasks -> Ended \cup {"unused", "live"}]
      /\ \A t \in Tasks : fate'[t] = "unused" => fate[t] = "unused"
  BY DEF Lost, IInv, TypeOK, Ended
<1>4. TypeOK'
  BY <1>1, <1>3 DEF IInv, TypeOK
<1>5. OneCopy'
  <2>1. \A w \in Workers : Owns(w)' <=> Owns(w)
    BY DEF Owns
  <2>2. \A w \in Workers : Owns(w)' => held'[w] \notin Waiting' \cup submitting'
    BY <1>2, <2>1 DEF IInv, OneCopy
  <2>3. /\ ToSet(queue') \cap schedule' = {}
        /\ (ToSet(queue') \cup schedule') \cap moving' = {}
        /\ Waiting' \cap submitting' = {}
    BY <1>1, <1>2 DEF IInv, OneCopy
  <2> QED BY <1>1, <2>1, <2>2, <2>3 DEF IInv, OneCopy, Distinct
<1>6. Bookkeeping'
  BY <1>2, <1>3 DEF IInv, Bookkeeping, UnusedNowhere, WorkerState
<1> QED BY <1>2, <1>4, <1>5, <1>6 DEF IInv

\* A rescheduled task's copy is a new task, and nowhere before.
LEMMA CloneStep ==
  ASSUME IInv, ViewTypeOK, NEW u \in Tasks, Clone(u)
  PROVE  IInv'
<1> USE DEF workerVars, budgets
<1>1. form.id \in Tasks /\ fate[u] = "unused"
  BY DEF Clone, At, ViewTypeOK
<1>2. PICK eta \in now .. MaxTime :
        task' = [task EXCEPT ![u] = [task[form.id] EXCEPT !.eta = eta]]
  BY DEF Clone
<1>3. eta \in Nat
  BY BoundsAssumption DEF IInv, TypeOK
<1>4. [task[form.id] EXCEPT !.eta = eta] \in MessageType
  <2>1. task[form.id] \in MessageType
    BY <1>1 DEF IInv, TypeOK
  <2> HIDE DEF workerVars, budgets
  <2> QED BY <1>3, <2>1 DEF MessageType
<1>5. /\ task' \in [Tasks -> MessageType]
      /\ \A t \in Tasks \ {u} : task'[t] = task[t]
  BY <1>2, <1>4 DEF IInv, TypeOK
<1>6. TypeOK'
  BY <1>1, <1>5 DEF IInv, TypeOK, Clone
<1>7. u \notin Waiting \cup submitting /\ \A w \in Workers : held[w] # u
  BY <1>1 DEF IInv, Bookkeeping, UnusedNowhere
<1>8. /\ Waiting' = Waiting /\ submitting' = submitting \cup {u}
      /\ \A w \in Workers : Owns(w)' <=> Owns(w)
  BY DEF Clone, Waiting, Owns
<1>9. OneCopy'
  BY <1>7, <1>8 DEF IInv, OneCopy, Clone
<1>10. UnusedNowhere'
  BY <1>8 DEF IInv, TypeOK, Bookkeeping, UnusedNowhere, Clone
<1>11. \A w \in Workers : WorkerState(w)'
  BY <1>5, <1>7 DEF IInv, Bookkeeping, WorkerState, Clone
<1> QED BY <1>6, <1>9, <1>10, <1>11 DEF IInv, Bookkeeping

\* A task that meets the barrier is dropped like one that meets its key.
LEMMA SkipResetStep ==
  ASSUME IInv, NEW w \in Workers, SkipReset(w)
  PROVE  IInv'
<1>1. Owns(w)
  BY OwnsFacts DEF SkipReset
<1>2. /\ fate' \in [Tasks -> Ended \cup {"unused", "live"}]
      /\ \A t \in Tasks : fate'[t] = "unused" => fate[t] = "unused"
  BY DEF SkipReset, IInv, TypeOK, Ended
<1>3. QuietHandle(w, "revoked")
  BY <1>1, <1>2 DEF SkipReset, QuietHandle, IInv, TypeOK, budgets, Signals
<1> QED BY <1>1, <1>3, QuietHandleStep

\* Every step, of the queue or of a page, keeps the queue's invariant.
LEMMA ViewIInv ==
  ASSUME IInv, ViewTypeOK, [ViewNext]_allVars
  PROVE  IInv'
<1>1. CASE QueueNext
  BY <1>1, NextIInv DEF QueueNext
<1>2. ASSUME UNCHANGED vars PROVE IInv'
  BY <1>2, NextIInv
<1>3. ASSUME WriteKey, form.id \in Tasks PROVE IInv'
  BY <1>3, PageOnly DEF WriteKey, IInv, TypeOK
<1>4. ASSUME SaveMarked, form.id \in Tasks PROVE IInv'
  <2>1. [form.seen EXCEPT !.marked = TRUE] \in RowType
    BY DEF ViewTypeOK, RowType
  <2> QED BY <1>4, <2>1, PageOnly DEF SaveMarked, IInv, TypeOK, queueVars
<1>5. CASE RevokeOnce \/ MarkRevoked \/ RevokeFound \/ MarkMoved
  <2>1. form.id \in Tasks
    BY <1>5 DEF RevokeOnce, MarkRevoked, RevokeFound, MarkMoved, At, ViewTypeOK
  <2> QED BY <1>3, <1>4, <1>5, <2>1 DEF RevokeOnce, MarkRevoked, RevokeFound, MarkMoved
<1>6. CASE FlushSchedule \/ FlushQueue \/ FlushAll
  <2>1. ToSet(queue) \subseteq Tasks /\ schedule \subseteq Tasks
    BY ElementOfSeq, LenProperties DEF IInv, TypeOK, ToSet
  <2>2. CASE FlushSchedule
    BY <2>1, <2>2, FlushStep DEF FlushSchedule, IInv, TypeOK
  <2>3. CASE FlushQueue
    BY <2>1, <2>3, FlushStep DEF FlushQueue, IInv, TypeOK
  <2>4. CASE FlushAll
    BY <2>1, <2>4, FlushStep DEF FlushAll, IInv, TypeOK
  <2> QED BY <1>6, <2>2, <2>3, <2>4
<1>7. ASSUME NEW t \in Tasks, OpenRevoke(t) \/ OpenSchedule(t) \/ Clone(t)
      PROVE  IInv'
  BY <1>2, <1>7, CloneStep DEF OpenRevoke, OpenSchedule, Open
<1>8. CASE \/ FindPending \/ FindScheduled \/ ViewDies \/ ResetRevoke \/ BarrierUp
           \/ BarrierExpires \/ UNCHANGED allVars
  BY <1>2, <1>8 DEF FindPending, FindScheduled, ViewDies, ResetRevoke, Open, BarrierUp,
     BarrierExpires, allVars
<1>9. ASSUME NEW w \in Workers, SkipReset(w) PROVE IInv'
  BY <1>9, SkipResetStep
<1> QED BY <1>1, <1>5, <1>6, <1>7, <1>8, <1>9 DEF ViewNext, Views

\* The page that is being answered has a task when its next step needs one.
LEMMA ViewTypes ==
  ASSUME IInv, ViewTypeOK, [ViewNext]_allVars
  PROVE  ViewTypeOK'
<1> DEFINE FormType == [step : Steps, id : Tasks \cup {NoTask}, seen : RowType,
                        copy : Tasks \cup {NoTask}]
           Bare == {"none", "flush schedule", "flush queue", "flush all"}
<1>1. form \in FormType /\ (form.step \notin Bare => form.id \in Tasks)
      /\ barrier \in BOOLEAN /\ cancelled \subseteq Tasks /\ forgone \subseteq Tasks
  BY DEF ViewTypeOK
<1>2. NoForm \in FormType /\ NoForm.step = "none"
  BY DEF NoForm, Steps, NoRow, RowType
<1>3. ASSUME NEW step \in Steps, form' = [form EXCEPT !.step = step],
             step \in Bare \/ form.step \notin Bare
      PROVE  form' \in FormType /\ (form'.step \notin Bare => form'.id \in Tasks)
  BY <1>1, <1>3
<1>4. ASSUME NEW step \in Steps, NEW t \in Tasks \cup {NoTask}, Open(step, t),
             step \in Bare \/ t \in Tasks
      PROVE  form' \in FormType /\ (form'.step \notin Bare => form'.id \in Tasks)
  <2>1. PICK r \in RowType : form' = [NoForm EXCEPT !.step = step, !.id = t, !.seen = r]
    <3>1. t # NoTask => row[t] \in RowType
      BY DEF IInv, TypeOK
    <3>2. NoRow \in RowType
      BY DEF NoRow, RowType
    <3> QED BY <1>4, <3>1, <3>2 DEF Open
  <2> QED BY <1>2, <1>4, <2>1
<1>5. CASE QueueNext \/ UNCHANGED allVars \/ (\E w \in Workers : SkipReset(w))
  <2>1. UNCHANGED viewVars
    BY <1>5 DEF QueueNext, allVars, SkipReset
  <2> QED BY <1>1, <2>1 DEF viewVars, ViewTypeOK
<1>6. CASE ResetRevoke \/ \E t \in Tasks : OpenRevoke(t) \/ OpenSchedule(t)
  <2>1. PICK step \in Steps, t \in Tasks \cup {NoTask} :
          Open(step, t) /\ (step \in Bare \/ t \in Tasks)
    BY <1>6 DEF OpenRevoke, OpenSchedule, ResetRevoke, Steps
  <2> QED BY <1>1, <1>4, <2>1 DEF Open, ViewTypeOK
<1>7. CASE RevokeOnce \/ MarkRevoked \/ RevokeFound \/ MarkMoved
  <2>1. form.step \notin Bare
    BY <1>7 DEF RevokeOnce, MarkRevoked, RevokeFound, MarkMoved, At
  <2>2. \/ form' = NoForm
        \/ \E step \in {"mark", "clone"} : form' = [form EXCEPT !.step = step]
    BY <1>7 DEF RevokeOnce, MarkRevoked, RevokeFound, MarkMoved, Goto
  <2>3. form' \in FormType /\ (form'.step \notin Bare => form'.id \in Tasks)
    BY <1>2, <1>3, <2>1, <2>2 DEF Steps
  <2>4. barrier' = barrier /\ cancelled' \subseteq Tasks /\ forgone' \subseteq Tasks
    BY <1>1, <1>7, <2>1
    DEF RevokeOnce, MarkRevoked, RevokeFound, MarkMoved, WriteKey, SaveMarked
  <2> QED BY <1>1, <2>3, <2>4 DEF ViewTypeOK
<1>8. CASE FindPending \/ FindScheduled \/ FlushSchedule \/ FlushQueue \/ FlushAll
  <2>1. \/ form' = NoForm
        \/ \E step \in Steps : /\ form' = [form EXCEPT !.step = step]
                               /\ step \in Bare \/ form.step \notin Bare
    BY <1>8 DEF FindPending, FindScheduled, FlushSchedule, FlushQueue, FlushAll, At, Goto,
       Steps
  <2>2. form' \in FormType /\ (form'.step \notin Bare => form'.id \in Tasks)
    BY <1>2, <1>3, <2>1
  <2>3. barrier' \in BOOLEAN /\ cancelled' \subseteq Tasks /\ forgone' \subseteq Tasks
    BY <1>1, <1>8 DEF FindPending, FindScheduled, FlushSchedule, FlushQueue, FlushAll
  <2> QED BY <2>2, <2>3 DEF ViewTypeOK
<1>9. ASSUME NEW u \in Tasks, Clone(u) PROVE ViewTypeOK'
  <2>1. form' = [form EXCEPT !.step = "mark moved", !.copy = u] /\ form.id \in Tasks
    BY <1>1, <1>9 DEF Clone, At
  <2>2. form' \in FormType /\ (form'.step \notin Bare => form'.id \in Tasks)
    BY <1>1, <2>1 DEF Steps
  <2> QED BY <1>1, <1>9, <2>2 DEF Clone, ViewTypeOK
<1>10. CASE ViewDies \/ BarrierUp \/ BarrierExpires
  <2>1. form' \in {form, NoForm}
    BY <1>10 DEF ViewDies, BarrierUp, BarrierExpires
  <2>2. barrier' \in BOOLEAN /\ cancelled' = cancelled /\ forgone' \subseteq Tasks
    BY <1>1, <1>10 DEF ViewDies, BarrierUp, BarrierExpires
  <2> QED BY <1>1, <1>2, <2>1, <2>2 DEF ViewTypeOK
<1> QED BY <1>5, <1>6, <1>7, <1>8, <1>9, <1>10 DEF ViewNext, Views

----------------------------------------------------------------------------
(* A task that was revoked while it waited *)

\* What can happen to such a task in a step that no worker takes.
LEMMA KeyStays ==
  ASSUME IInv, NEW t \in Tasks, KeyMeets(t),
         UNCHANGED <<pc, held, handler>>,
         fate'[t] = "unused" => fate[t] = "unused",
         t \in submitting' => t \in submitting,
         t \in Waiting' => t \in Waiting \/ t \in submitting,
         t \in revoked => t \in revoked'
  PROVE  KeyMeets(t)'
BY DEF KeyMeets, Owns

\* ... and in a step of a worker that has another task, or none.
LEMMA KeyStaysBeside ==
  ASSUME IInv, NEW t \in Tasks, KeyMeets(t), NEW w \in Workers,
         \A v \in Workers \ {w} :
           pc'[v] = pc[v] /\ held'[v] = held[v] /\ handler'[v] = handler[v],
         ~(Owns(w)' /\ held'[w] = t),
         fate'[t] = "unused" => fate[t] = "unused",
         submitting' = submitting,
         t \in Waiting' => t \in Waiting,
         t \in revoked => t \in revoked'
  PROVE  KeyMeets(t)'
<1>1. ASSUME NEW v \in Workers \ {w}
      PROVE  Owns(v)' /\ held'[v] = t => \/ pc'[v] = "examine" /\ t \in revoked'
                                         \/ pc'[v] = "saving" /\ handler'[v].signal = "revoked"
  BY DEF KeyMeets, Owns
<1>2. fate'[t] # "unused" /\ t \notin submitting' /\ (t \in Waiting' => t \in revoked')
  BY DEF KeyMeets
<1> QED BY <1>1, <1>2 DEF KeyMeets

\* The steps of the queue that no worker takes.
LEMMA KeyInStorage ==
  ASSUME IInv, NEW t \in Tasks, KeyMeets(t),
         \/ Tick \/ ReadSchedule \/ SchedulerLost
         \/ \E u \in Tasks : MoveToQueue(u) \/ Submit(u)
  PROVE  KeyMeets(t)'
<1> USE DEF workerVars, queueVars, budgets
<1>0. fate[t] # "unused" /\ t \notin submitting
  BY DEF KeyMeets
<1>1. CASE Tick
  BY <1>1, KeyStays DEF Tick, Waiting
<1>2. CASE ReadSchedule
  <2>1. Waiting' = Waiting
    BY <1>2 DEF ReadSchedule, Waiting
  <2> QED BY <1>2, <2>1, KeyStays DEF ReadSchedule
<1>3. CASE SchedulerLost
  <2>1. fate'[t] = "unused" => fate[t] = "unused"
    BY <1>3 DEF SchedulerLost
  <2>2. Waiting' \subseteq Waiting
    BY <1>3 DEF SchedulerLost, Waiting
  <2> QED BY <1>3, <2>1, <2>2, KeyStays DEF SchedulerLost
<1>4. ASSUME NEW u \in Tasks, MoveToQueue(u) \/ SubmitTask(u) PROVE KeyMeets(t)'
  <2>1. ToSet(queue') = ToSet(queue) \cup {u}
    BY <1>4, EnqueueFacts DEF IInv, MoveToQueue, SubmitTask
  <2>2. t \in Waiting' => t \in Waiting \/ t \in submitting
    BY <1>4, <2>1 DEF Waiting, MoveToQueue, SubmitTask
  <2> QED BY <1>4, <2>2, KeyStays DEF MoveToQueue, SubmitTask
<1>5. ASSUME NEW u \in Tasks, SubmitLost(u) PROVE KeyMeets(t)'
  <2>1. fate'[t] = "unused" => fate[t] = "unused"
    BY <1>5 DEF SubmitLost, IInv, TypeOK
  <2> QED BY <1>5, <2>1, KeyStays DEF SubmitLost, Waiting
<1>6. ASSUME NEW u \in Tasks, NEW k \in Kinds, SubmitRow(u, k) PROVE KeyMeets(t)'
  <2>1. u # t /\ fate'[t] = fate[t]
    BY <1>0, <1>6 DEF SubmitRow, IInv, TypeOK
  <2> QED BY <1>6, <2>1, KeyStays DEF SubmitRow, Waiting
<1> QED BY <1>1, <1>2, <1>3, <1>4, <1>5, <1>6 DEF Submit

\* The steps of a worker that has another task, and of one that has given the
\* task back: the key stays, since only the worker that takes a task uses it.
LEMMA KeyBesideWorker ==
  ASSUME IInv, IInv', NEW t \in Tasks, KeyMeets(t), NEW w \in Workers, held[w] # t,
         \/ Work(w) /\ ~Dequeue(w)
         \/ Interrupt(w) \/ Kill(w) \/ SkipReset(w)
  PROVE  KeyMeets(t)'
<1> USE DEF workerVars, queueVars, budgets
<1>1. pc[w] # "idle" /\ held[w] \in Tasks
  BY DEF Work, Postpone, SkipRevoked, SkipExpired, Accept, ListPending, ListScheduled,
     RevokeListed, Start, Save, Complete, Fail, CancelRetry, Cancel, Retry, RequeueLater,
     RequeueNow, RecordInterrupted, Interrupt, Kill, SkipReset, IInv, Bookkeeping, WorkerState
<1>2. /\ held \in [Workers -> Tasks \cup {NoTask}] /\ pc \in [Workers -> PCs]
      /\ handler \in [Workers -> HandlerType]
      /\ fate \in [Tasks -> Ended \cup {"unused", "live"}]
  BY DEF IInv, TypeOK
<1>3. held'[w] # t /\ submitting' = submitting
  BY <1>2, NoTaskAssumption
  DEF Work, Postpone, SkipRevoked, SkipExpired, Accept, ListPending, ListScheduled,
     RevokeListed, Start, Save, Complete, Fail, CancelRetry, Cancel, Retry, RequeueLater,
     RequeueNow, RecordInterrupted, Interrupt, Kill, SkipReset, Release, viewVars
<1>4. \A v \in Workers \ {w} :
        pc'[v] = pc[v] /\ held'[v] = held[v] /\ handler'[v] = handler[v]
  BY <1>2
  DEF Work, Postpone, SkipRevoked, SkipExpired, Accept, ListPending, ListScheduled,
     RevokeListed, Start, Save, Complete, Fail, CancelRetry, Cancel, Retry, RequeueLater,
     RequeueNow, RecordInterrupted, Interrupt, Kill, SkipReset, Release, Handle
<1>5. fate'[t] = fate[t]
  BY <1>1, <1>2
  DEF Work, Postpone, SkipRevoked, SkipExpired, Accept, ListPending, ListScheduled,
     RevokeListed, Start, Save, Complete, Fail, CancelRetry, Cancel, Retry, RequeueLater,
     RequeueNow, RecordInterrupted, Interrupt, Kill, SkipReset
<1>6. t \in revoked => t \in revoked'
  BY DEF Work, Postpone, SkipRevoked, SkipExpired, Accept, ListPending, ListScheduled,
     RevokeListed, Start, Save, Complete, Fail, CancelRetry, Cancel, Retry, RequeueLater,
     RequeueNow, RecordInterrupted, Interrupt, Kill, SkipReset
<1>7. t \in Waiting' => t \in Waiting
  <2>1. CASE RequeueNow(w) \/ Interrupt(w)
    <3>1. ToSet(queue') = ToSet(queue) \cup {held[w]}
      BY <1>1, <2>1, EnqueueFacts DEF IInv, RequeueNow, Interrupt
    <3> QED BY <2>1, <3>1 DEF Waiting, RequeueNow, Interrupt
  <2>2. CASE ~(RequeueNow(w) \/ Interrupt(w))
    <3>1. queue' = queue /\ moving' = moving /\ schedule' \subseteq schedule \cup {held[w]}
      BY <2>2
      DEF Work, Postpone, SkipRevoked, SkipExpired, Accept, ListPending, ListScheduled,
         RevokeListed, Start, Save, Complete, Fail, CancelRetry, Cancel, Retry, RequeueLater,
         RecordInterrupted, Kill, SkipReset
    <3> QED BY <3>1 DEF Waiting
  <2> QED BY <2>1, <2>2
<1> QED BY <1>3, <1>4, <1>5, <1>6, <1>7, KeyStaysBeside

\* The worker that has the task itself: it finds the key and drops the task,
\* gives it back with its key, or has given it back already.
LEMMA KeyAtWorker ==
  ASSUME IInv, IInv', NEW t \in Tasks, KeyMeets(t), NEW w \in Workers, held[w] = t,
         \/ Work(w) /\ ~Dequeue(w)
         \/ Interrupt(w) \/ Kill(w) \/ SkipReset(w)
  PROVE  KeyMeets(t)'
<1> USE DEF workerVars, queueVars, budgets
<1>1. Owns(w) => \/ pc[w] = "examine" /\ t \in revoked
                 \/ pc[w] = "saving" /\ handler[w].signal = "revoked"
  BY DEF KeyMeets
<1>2. /\ held \in [Workers -> Tasks \cup {NoTask}] /\ pc \in [Workers -> PCs]
      /\ handler \in [Workers -> HandlerType]
      /\ fate \in [Tasks -> Ended \cup {"unused", "live"}]
      /\ fate[t] # "unused" /\ t \notin submitting
  BY DEF IInv, TypeOK, KeyMeets
<1>3. pc[w] \in {"examine", "saving", "interrupted", "idle"}
  BY <1>1, <1>2, OwnsFacts DEF PCs
<1>4. Owns(w) => /\ t \notin Waiting
                 /\ \A v \in Workers \ {w} : ~(Owns(v) /\ held[v] = t)
  BY DEF IInv, OneCopy
<1>5. CASE SkipRevoked(w) \/ SkipReset(w)
  <2>1. pc[w] = "examine" /\ Owns(w)
    BY <1>5, OwnsFacts DEF SkipRevoked, SkipReset
  <2>2. /\ Handle(w, "revoked")
        /\ UNCHANGED <<task, queue, schedule, moving, submitting, held>>
        /\ fate'[t] # "unused"
    BY <1>2, <1>5 DEF SkipRevoked, SkipReset
  <2>3. /\ pc'[w] = "saving" /\ handler'[w].signal = "revoked"
        /\ \A v \in Workers \ {w} : pc'[v] = pc[v] /\ handler'[v] = handler[v]
    BY <1>2, <2>2 DEF Handle
  <2>4. \A v \in Workers \ {w} : ~(Owns(v)' /\ held'[v] = t)
    BY <1>4, <2>1, <2>2, <2>3 DEF Owns
  <2>5. t \notin Waiting'
    BY <1>4, <2>1, <2>2 DEF Waiting
  <2> QED BY <1>2, <2>2, <2>3, <2>4, <2>5 DEF KeyMeets
<1>6. CASE Postpone(w)
  <2>1. Owns(w) /\ t \in revoked /\ pc[w] = "examine"
    BY <1>1, <1>6, OwnsFacts DEF Postpone
  <2>2. Handle(w, "scheduled") /\ UNCHANGED <<submitting, revoked, held, fate>>
    BY <1>6 DEF Postpone
  <2>3. /\ pc'[w] = "saving" /\ handler'[w].signal = "scheduled"
        /\ \A v \in Workers \ {w} : pc'[v] = pc[v] /\ handler'[v] = handler[v]
    BY <1>2, <2>2 DEF Handle
  <2>4. \A v \in Workers : ~(Owns(v)' /\ held'[v] = t)
    BY <1>4, <2>1, <2>2, <2>3 DEF Owns
  <2> QED BY <1>2, <2>1, <2>2, <2>4 DEF KeyMeets
<1>7. CASE Save(w)
  <2>1. pc[w] = "saving" /\ handler[w].signal \in {"revoked", "scheduled", "interrupted"}
    BY <1>1, <1>7 DEF Save, Owns
  <2>2. /\ pc'[w] = "idle"
        /\ \A v \in Workers \ {w} :
             pc'[v] = pc[v] /\ held'[v] = held[v] /\ handler'[v] = handler[v]
        /\ UNCHANGED <<queue, schedule, moving, submitting, revoked, fate>>
    BY <1>2, <1>7, <2>1 DEF Save
  <2> QED BY <1>2, <2>2, KeyStaysBeside DEF Owns, Waiting
<1>8. CASE RecordInterrupted(w)
  <2>1. Handle(w, "interrupted")
        /\ UNCHANGED <<queue, schedule, moving, submitting, held, revoked, fate>>
    BY <1>8 DEF RecordInterrupted
  <2>2. /\ pc'[w] = "saving" /\ handler'[w].signal = "interrupted"
        /\ \A v \in Workers \ {w} : pc'[v] = pc[v] /\ handler'[v] = handler[v]
    BY <1>2, <2>1 DEF Handle
  <2> QED BY <1>2, <2>1, <2>2, KeyStaysBeside DEF Owns, Waiting
<1>9. CASE Kill(w)
  <2>1. /\ pc'[w] = "idle"
        /\ \A v \in Workers \ {w} :
             pc'[v] = pc[v] /\ held'[v] = held[v] /\ handler'[v] = handler[v]
        /\ UNCHANGED <<queue, schedule, moving, submitting, revoked>>
    BY <1>2, <1>9 DEF Kill, Release
  <2>2. fate'[t] # "unused"
    BY <1>2, <1>9 DEF Kill
  <2> QED BY <1>2, <2>1, <2>2, KeyStaysBeside DEF Owns, Waiting
<1>10. ~(SkipExpired(w) \/ Accept(w))
  <2>1. pc[w] = "examine" => t \in revoked
    BY <1>1, OwnsFacts
  <2> QED BY <2>1 DEF SkipExpired, Accept
<1>11. ~(\/ ListPending(w) \/ ListScheduled(w) \/ RevokeListed(w) \/ Start(w)
         \/ Complete(w) \/ Fail(w) \/ CancelRetry(w) \/ Retry(w) \/ RequeueLater(w)
         \/ RequeueNow(w) \/ Interrupt(w)
         \/ \E keepRetries \in BOOLEAN : Cancel(w, keepRetries))
  BY <1>3 DEF ListPending, ListScheduled, RevokeListed, Start, Complete, Fail, CancelRetry,
     Retry, RequeueLater, RequeueNow, Interrupt, Cancel
<1> QED BY <1>5, <1>6, <1>7, <1>8, <1>9, <1>10, <1>11 DEF Work

\* A worker takes a task: if it is this one, with its key.
LEMMA KeyTaken ==
  ASSUME IInv, IInv', NEW t \in Tasks, KeyMeets(t), NEW w \in Workers, Dequeue(w)
  PROVE  KeyMeets(t)'
<1> USE DEF queueVars, budgets
<1>1. PICK i \in DOMAIN queue :
        /\ held' = [held EXCEPT ![w] = queue[i]]
        /\ queue' = RemoveAt(queue, i)
  BY DEF Dequeue
<1>2. queue[i] \in ToSet(queue) /\ ToSet(queue') \cup {queue[i]} = ToSet(queue)
  <2>1. queue \in Seq(Tasks)
    BY DEF IInv, TypeOK
  <2>2. ToSet(RemoveAt(queue, i)) \cup {queue[i]} = ToSet(queue)
    BY <2>1, RemoveAtFacts
  <2> QED BY <1>1, <2>2
<1>3. queue[i] = t => t \in Waiting /\ t \in revoked
  BY <1>2 DEF KeyMeets, Waiting
<1>4. /\ pc'[w] = "examine" /\ held'[w] = queue[i]
      /\ \A v \in Workers \ {w} :
           pc'[v] = pc[v] /\ held'[v] = held[v] /\ handler'[v] = handler[v]
      /\ UNCHANGED <<fate, submitting, revoked>>
  BY <1>1 DEF Dequeue, IInv, TypeOK
<1>5. t \in Waiting' => t \in Waiting
  BY <1>2 DEF Dequeue, Waiting
<1>6. CASE queue[i] # t
  BY <1>4, <1>5, <1>6, KeyStaysBeside
<1>7. CASE queue[i] = t
  BY <1>3, <1>4, <1>7 DEF KeyMeets, Owns
<1> QED BY <1>6, <1>7

\* The pages: a key is written for what waits, and taken away only when
\* everything that waits is.
LEMMA KeyUnderPages ==
  ASSUME IInv, IInv', ViewInv, Views,
         \A w \in Workers : ~SkipReset(w)
  PROVE  \A t \in cancelled' : KeyMeets(t)'
<1> USE DEF workerVars, queueVars, budgets
<1>1. \A t \in cancelled : t \in Tasks /\ KeyMeets(t)
  BY DEF ViewInv, ViewTypeOK
<1>2. ASSUME UNCHANGED <<vars, cancelled>> PROVE \A t \in cancelled' : KeyMeets(t)'
  BY <1>1, <1>2 DEF vars, KeyMeets, Owns, Waiting
<1>3. CASE \/ FindPending \/ FindScheduled \/ ViewDies \/ ResetRevoke \/ BarrierUp
           \/ BarrierExpires \/ \E t \in Tasks : OpenRevoke(t) \/ OpenSchedule(t)
  <2>1. UNCHANGED <<vars, cancelled>>
    BY <1>3 DEF FindPending, FindScheduled, ViewDies, ResetRevoke, BarrierUp, BarrierExpires,
       OpenRevoke, OpenSchedule, Open
  <2> QED BY <1>2, <2>1
<1>4. CASE RevokeOnce \/ RevokeFound
  <2>1. WriteKey
    BY <1>4 DEF RevokeOnce, RevokeFound
  <2>2. /\ UNCHANGED <<pc, held, handler, fate, submitting>>
        /\ Waiting' = Waiting
        /\ revoked' = revoked \cup {form.id}
        /\ cancelled' = cancelled \cup ({form.id} \cap Waiting)
    BY <2>1 DEF WriteKey, Waiting
  <2>3. ASSUME NEW t \in cancelled PROVE KeyMeets(t)'
    BY <1>1, <2>2, KeyStays
  <2>4. ASSUME NEW t \in {form.id} \cap Waiting PROVE KeyMeets(t)'
    <3>1. t \in Tasks
      BY ElementOfSeq, LenProperties DEF IInv, TypeOK, Waiting, ToSet
    <3>2. fate[t] # "unused" /\ t \notin submitting /\ \A w \in Workers : ~(Owns(w) /\ held[w] = t)
      BY <3>1 DEF IInv, OneCopy, Bookkeeping, UnusedNowhere
    <3> QED BY <2>2, <3>2 DEF KeyMeets, Owns
  <2> QED BY <2>2, <2>3, <2>4
<1>5. CASE MarkRevoked \/ MarkMoved
  <2>1. UNCHANGED <<cancelled, pc, held, handler, fate, queue, schedule, moving, submitting,
                    revoked>>
    BY <1>5 DEF MarkRevoked, MarkMoved, SaveMarked
  <2> QED BY <1>1, <2>1, KeyStays DEF Waiting
<1>6. CASE FlushSchedule \/ FlushQueue
  <2>1. ToSet(queue) \subseteq Tasks /\ schedule \subseteq Tasks
    BY ElementOfSeq, LenProperties DEF IInv, TypeOK, ToSet
  <2>2. Waiting' \subseteq Waiting
    <3>1. CASE FlushSchedule
      BY <2>1, <3>1, FlushStep DEF FlushSchedule, IInv, TypeOK
    <3>2. CASE FlushQueue
      BY <2>1, <3>2, FlushStep DEF FlushQueue, IInv, TypeOK
    <3> QED BY <1>6, <3>1, <3>2
  <2>3. /\ UNCHANGED <<cancelled, pc, held, handler, submitting, revoked>>
        /\ \A t \in Tasks : fate'[t] = "unused" => fate[t] = "unused"
    BY <1>6 DEF FlushSchedule, FlushQueue, Lost
  <2> QED BY <1>1, <2>2, <2>3, KeyStays
<1>7. CASE FlushAll
  BY <1>7 DEF FlushAll
<1>8. ASSUME NEW u \in Tasks, Clone(u) PROVE \A t \in cancelled' : KeyMeets(t)'
  <2>1. /\ fate[u] = "unused" /\ fate' = [fate EXCEPT ![u] = "live"]
        /\ submitting' = submitting \cup {u}
        /\ UNCHANGED <<cancelled, pc, held, handler, queue, schedule, moving, revoked>>
    BY <1>8 DEF Clone
  <2>2. \A t \in cancelled : t # u
    BY <1>1, <2>1 DEF KeyMeets
  <2>3. \A t \in cancelled : fate'[t] = fate[t] /\ (t \in submitting' => t \in submitting)
    BY <1>1, <2>1, <2>2 DEF IInv, TypeOK
  <2>4. Waiting' = Waiting
    BY <2>1 DEF Waiting
  <2> QED BY <1>1, <2>1, <2>3, <2>4, KeyStays
<1> QED BY <1>3, <1>4, <1>5, <1>6, <1>7, <1>8 DEF Views

----------------------------------------------------------------------------
(* The theorems *)

\* The pages start with nothing revoked.
LEMMA ViewStart == ViewInit => ViewInv
<1> SUFFICES ASSUME ViewInit PROVE ViewInv
  OBVIOUS
<1>1. IInv
  BY InitIInv DEF ViewInit
<1>2. ViewTypeOK
  BY DEF ViewInit, ViewTypeOK, NoForm, Steps, NoRow, RowType
<1> QED BY <1>1, <1>2 DEF ViewInv, ViewInit

\* Every step, of the queue or of a page, keeps the invariant.
LEMMA ViewStep == ViewInv /\ [ViewNext]_allVars => ViewInv'
<1> SUFFICES ASSUME ViewInv, [ViewNext]_allVars PROVE ViewInv'
  OBVIOUS
<1>1. IInv /\ ViewTypeOK /\ IInv' /\ ViewTypeOK'
  BY ViewIInv, ViewTypes DEF ViewInv
<1> SUFFICES \A t \in cancelled' : KeyMeets(t)'
  BY <1>1 DEF ViewInv
<1>2. \A t \in cancelled : t \in Tasks /\ KeyMeets(t)
  BY DEF ViewInv, ViewTypeOK
<1>3. ASSUME NEW w \in Workers, cancelled' = cancelled,
             Work(w) \/ Interrupt(w) \/ Kill(w) \/ SkipReset(w)
      PROVE  \A t \in cancelled' : KeyMeets(t)'
  <2> SUFFICES ASSUME NEW t \in cancelled PROVE KeyMeets(t)'
    BY <1>3
  <2>1. ASSUME Dequeue(w) PROVE KeyMeets(t)'
    BY <1>1, <1>2, <2>1, KeyTaken
  <2>2. CASE ~Dequeue(w) /\ held[w] = t
    BY <1>1, <1>2, <1>3, <2>2, KeyAtWorker
  <2>3. CASE ~Dequeue(w) /\ held[w] # t
    BY <1>1, <1>2, <1>3, <2>3, KeyBesideWorker
  <2> QED BY <2>1, <2>2, <2>3
<1>4. CASE QueueNext
  <2>1. Next /\ cancelled' = cancelled
    BY <1>4 DEF QueueNext, viewVars
  <2>2. CASE \/ Tick \/ ReadSchedule \/ SchedulerLost
             \/ \E u \in Tasks : MoveToQueue(u) \/ Submit(u)
    BY <1>1, <1>2, <2>1, <2>2, KeyInStorage
  <2> QED BY <1>3, <2>1, <2>2 DEF Next, Scheduler
<1>5. CASE Views
  <2>1. ASSUME NEW w \in Workers, SkipReset(w) PROVE \A t \in cancelled' : KeyMeets(t)'
    BY <1>3, <2>1 DEF SkipReset, viewVars
  <2>2. CASE \A w \in Workers : ~SkipReset(w)
    BY <1>1, <1>5, <2>2, KeyUnderPages
  <2> QED BY <2>1, <2>2
<1>6. CASE UNCHANGED allVars
  BY <1>2, <1>6 DEF allVars, viewVars, vars, queueVars, workerVars, KeyMeets, Owns, Waiting
<1> QED BY <1>4, <1>5, <1>6 DEF ViewNext

\* Under the pages too, no task has a second copy, and every key a page wrote
\* for a task that waited stays with it until the task is dropped.
THEOREM ViewInvariance == ViewSpec => []ViewInv
BY ViewStart, ViewStep, PTL DEF ViewSpec

\* What a page revoked while it waited never runs, whatever the scheduler,
\* the workers and the other pages do meanwhile.
THEOREM RevokedStaysAway == ViewSpec => []CancelledNeverRuns
<1>1. ViewInv => CancelledNeverRuns
  <2> SUFFICES ASSUME ViewInv, NEW w \in Workers, held[w] \in cancelled,
                      pc[w] \in {"list", "listed", "listedAll", "start", "running", "retry"}
               PROVE  FALSE
    BY DEF CancelledNeverRuns
  <2>1. Owns(w)
    BY OwnsFacts DEF ViewInv
  <2> QED BY <2>1 DEF ViewInv, KeyMeets
<1> QED BY <1>1, ViewInvariance, PTL
----------------------------------------------------------------------------
(* A call whose task is revoked is still known to somebody *)

\* Whoever knows a call now still does, or somebody else does instead; and a
\* key that is new is for a call that somebody knows.
Known(u) == Spared(u) \/ Answered(u)

HandedOn ==
  /\ \A u \in Tasks : fate[u] # "unused" => task'[u].kind = task[u].kind
  /\ \A u \in Tasks : fate[u] # "unused" /\ Known(u) =>
       \E v \in Tasks : task'[v].kind.call = task[u].kind.call /\ Known(v)'
  /\ \A t \in Tasks : t \in revoked' \/ fate'[t] = "revoked" =>
       t \in revoked \/ fate[t] = "revoked" \/ Remembered(t)'

\* A call that somebody knew is known after such a step too.
LEMMA RememberedStays ==
  ASSUME KeepsInv, HandedOn
  PROVE  \A t \in Tasks : t \in revoked' \/ fate'[t] = "revoked" => Remembered(t)'
<1> SUFFICES ASSUME NEW t \in Tasks, t \in revoked \/ fate[t] = "revoked"
             PROVE  Remembered(t)'
  BY DEF HandedOn
<1>1. fate[t] # "unused"
  BY DEF KeepsInv, Untouched
<1>2. PICK u \in Tasks : task[u].kind.call = task[t].kind.call /\ Known(u)
  BY DEF KeepsInv, Remembered, Known
<1>3. fate[u] # "unused"
  BY <1>2 DEF Known, KeepsInv, Untouched, Spared, Answered
<1>4. PICK v \in Tasks : task'[v].kind.call = task[u].kind.call /\ Known(v)'
  BY <1>2, <1>3 DEF HandedOn
<1>5. task'[t].kind = task[t].kind
  BY <1>1 DEF HandedOn
<1> QED BY <1>2, <1>4, <1>5 DEF Remembered, Known

\* A step that no worker takes: the clock, a scheduling call, the scheduler or
\* a page.  A task appears, goes on waiting or is lost.
Aside ==
  /\ UNCHANGED <<pc, held, found, handler>>
  /\ \A t \in Tasks : fate[t] = "unused" => fate'[t] \in {"unused", "live"}
  /\ \A t \in Tasks : fate[t] # "unused" =>
       /\ task'[t].kind = task[t].kind /\ task'[t].retries = task[t].retries
       /\ \/ fate'[t] = fate[t]
          \/ fate'[t] = "lost" /\ t \in Waiting \cup submitting
       /\ t \in Waiting => t \in Waiting' \/ fate'[t] = "lost"
       /\ t \in Waiting' \cup submitting' =>
            t \in Waiting \cup submitting /\ fate'[t] = fate[t]

\* Beside the worker only the keys and the calls' memory are at stake.
LEMMA AsideKeeps ==
  ASSUME IInv, IInv', KeepsInv, Aside, HandedOn,
         \A t \in Tasks : fate'[t] = "unused" => Untouched(t)',
         forgone \subseteq forgone',
         \A t \in Tasks : t \in revoked' => t \in revoked \cup forgone' \/ t \in Waiting
  PROVE  KeepsInv'
<1>1. ASSUME NEW t \in Waiting' \cup submitting' PROVE fate'[t] = "live"
  <2>1. t \in Tasks
    BY ElementOfSeq, LenProperties DEF IInv, TypeOK, Waiting, ToSet
  <2>2. fate'[t] # "unused"
    BY <2>1 DEF IInv, Bookkeeping, UnusedNowhere
  <2>3. CASE fate[t] = "unused"
    BY <2>1, <2>2, <2>3 DEF Aside
  <2>4. CASE fate[t] # "unused"
    BY <2>1, <2>4 DEF Aside, KeepsInv
  <2> QED BY <2>3, <2>4
<1>2. ASSUME NEW w \in Workers PROVE LiveAt(w)' /\ FoundAt(w)'
  <2>1. /\ LiveAt(w) /\ FoundAt(w) /\ found[w] \subseteq Tasks
        /\ UNCHANGED <<pc, held, found, handler>>
    BY DEF KeepsInv, IInv, TypeOK, Aside
  <2>2. pc[w] # "saving" => handler[w].signal = "none"
    BY DEF IInv, Bookkeeping, WorkerState
  <2>3. CASE pc[w] = "idle"
    BY <2>1, <2>2, <2>3 DEF LiveAt, FoundAt
  <2>4. CASE pc[w] # "idle"
    <3>1. held[w] \in Tasks /\ fate[held[w]] # "unused"
      BY <2>4 DEF IInv, Bookkeeping, UnusedNowhere, WorkerState
    <3>2. /\ task'[held[w]].kind = task[held[w]].kind
          /\ task'[held[w]].retries = task[held[w]].retries
          /\ Owns(w) => fate'[held[w]] = fate[held[w]]
      <4>1. Owns(w) => held[w] \notin Waiting \cup submitting
        BY DEF IInv, OneCopy
      <4> QED BY <3>1, <4>1 DEF Aside
    <3>3. LiveAt(w)'
      BY <2>1, <2>2, <2>4, <3>2 DEF LiveAt, Owns
    <3>4. ASSUME NEW a \in found[w]
          PROVE  /\ task'[a].kind = task[a].kind /\ fate'[a] # "unused"
                 /\ fate'[a] = "live" => a \in Waiting'
      <4>1. a \in Tasks /\ fate[a] # "unused" /\ (fate[a] = "live" => a \in Waiting)
        BY <2>1 DEF FoundAt
      <4> QED BY <4>1 DEF Aside
    <3> QED BY <2>1, <3>2, <3>3, <3>4 DEF FoundAt
  <2> QED BY <2>3, <2>4
<1>3. ASSUME NEW t \in Tasks PROVE KeyInPlace(t)'
  <2> SUFFICES ASSUME t \in revoked', fate'[t] = "live", t \notin forgone'
               PROVE  t \in Waiting' \/ \E w \in Workers : pc'[w] = "examine" /\ held'[w] = t
    BY DEF KeyInPlace
  <2>1. t \in revoked \/ t \in Waiting
    OBVIOUS
  <2>2. fate[t] # "unused"
    BY <2>1 DEF KeepsInv, Untouched, IInv, Bookkeeping, UnusedNowhere
  <2>3. fate[t] = "live" /\ (t \in Waiting => t \in Waiting')
    BY <2>2 DEF Aside
  <2>4. t \in Waiting \/ \E w \in Workers : pc[w] = "examine" /\ held[w] = t
    BY <2>1, <2>3 DEF KeepsInv, KeyInPlace
  <2> QED BY <2>3, <2>4 DEF Aside
<1> QED BY <1>1, <1>2, <1>3, RememberedStays DEF KeepsInv

\* The queue's own steps of that sort.
LEMMA QueueAside ==
  ASSUME IInv, KeepsInv, UNCHANGED viewVars,
         \/ Tick \/ ReadSchedule \/ SchedulerLost \/ UNCHANGED vars
         \/ \E t \in Tasks : MoveToQueue(t) \/ Submit(t)
  PROVE  /\ Aside /\ revoked' = revoked
         /\ \A t \in Tasks : fate'[t] = "unused" => fate[t] = "unused" /\ row'[t] = row[t]
<1> USE DEF queueVars, workerVars, budgets
<1>1. CASE Tick \/ UNCHANGED vars
  BY <1>1 DEF Aside, Tick, vars, Waiting
<1>2. CASE ReadSchedule
  <2>1. moving = {} /\ schedule' \cup moving' = schedule /\ queue' = queue
    BY <1>2 DEF ReadSchedule
  <2>2. Waiting' = Waiting
    BY <2>1 DEF Waiting
  <2> QED BY <1>2, <2>2 DEF Aside, ReadSchedule
<1>3. CASE SchedulerLost
  <2>1. \A t \in Tasks : fate'[t] = IF t \in moving THEN "lost" ELSE fate[t]
    BY <1>3 DEF SchedulerLost
  <2>2. Waiting' = ToSet(queue) \cup schedule /\ Waiting = Waiting' \cup moving
    BY <1>3 DEF SchedulerLost, Waiting
  <2>3. moving \cap (ToSet(queue) \cup schedule) = {} /\ moving \cap submitting = {}
    BY DEF IInv, OneCopy, Waiting
  <2>4. \A t \in moving : fate[t] = "live"
    BY <2>2 DEF KeepsInv
  <2> QED BY <1>3, <2>1, <2>2, <2>3, <2>4 DEF Aside, SchedulerLost
<1>4. ASSUME NEW t \in Tasks, MoveToQueue(t) \/ SubmitTask(t)
      PROVE  /\ Aside /\ revoked' = revoked
             /\ \A u \in Tasks : fate'[u] = "unused" => fate[u] = "unused" /\ row'[u] = row[u]
  <2>1. Enqueue(t) /\ t \in moving \cup submitting
    BY <1>4 DEF MoveToQueue, SubmitTask
  <2>2. fate[t] = "live"
    BY <2>1 DEF KeepsInv, Waiting
  <2>3. /\ \A u \in Tasks \ {t} : row'[u] = row[u]
        /\ \A u \in Tasks : /\ task'[u].kind = task[u].kind
                            /\ task'[u].retries = task[u].retries
    BY <2>1 DEF Enqueue, IInv, TypeOK, MessageType
  <2>4. ToSet(queue') = ToSet(queue) \cup {t}
    BY <2>1, EnqueueFacts DEF IInv
  <2>5. CASE MoveToQueue(t)
    <3>1. Waiting' = Waiting
      BY <2>4, <2>5 DEF MoveToQueue, Waiting
    <3> QED BY <2>2, <2>3, <2>5, <3>1 DEF Aside, MoveToQueue
  <2>6. CASE SubmitTask(t)
    <3>1. Waiting' = Waiting \cup {t}
      BY <2>4, <2>6 DEF SubmitTask, Waiting
    <3> QED BY <2>2, <2>3, <2>6, <3>1 DEF Aside, SubmitTask
  <2> QED BY <1>4, <2>5, <2>6
<1>5. ASSUME NEW t \in Tasks, SubmitLost(t)
      PROVE  /\ Aside /\ revoked' = revoked
             /\ \A u \in Tasks : fate'[u] = "unused" => fate[u] = "unused" /\ row'[u] = row[u]
  <2>1. Waiting' = Waiting /\ t \notin Waiting /\ t \in submitting
    BY <1>5 DEF SubmitLost, Waiting, IInv, OneCopy
  <2>2. fate[t] = "live" /\ fate' = [fate EXCEPT ![t] = "lost"]
    BY <1>5, <2>1 DEF KeepsInv, SubmitLost
  <2>3. \A u \in Tasks : fate'[u] = IF u = t THEN "lost" ELSE fate[u]
    BY <2>2 DEF IInv, TypeOK
  <2> QED BY <1>5, <2>1, <2>2, <2>3 DEF Aside, SubmitLost
<1>6. ASSUME NEW t \in Tasks, NEW k \in Kinds, SubmitRow(t, k)
      PROVE  /\ Aside /\ revoked' = revoked
             /\ \A u \in Tasks : fate'[u] = "unused" => fate[u] = "unused" /\ row'[u] = row[u]
  <2>1. /\ fate[t] = "unused"
        /\ \A u \in Tasks : fate'[u] = IF u = t THEN "live" ELSE fate[u]
        /\ \A u \in Tasks \ {t} : row'[u] = row[u] /\ task'[u] = task[u]
    BY <1>6 DEF SubmitRow, IInv, TypeOK
  <2>2. Waiting' = Waiting /\ submitting' = submitting \cup {t}
    BY <1>6 DEF SubmitRow, Waiting
  <2> QED BY <1>6, <2>1, <2>2 DEF Aside, SubmitRow
<1> QED BY <1>1, <1>2, <1>3, <1>4, <1>5, <1>6 DEF Submit

\* The clock, the scheduler and the scheduling calls keep what is known.
LEMMA QueueAsideKeeps ==
  ASSUME IInv, IInv', KeepsInv, UNCHANGED viewVars,
         \/ Tick \/ ReadSchedule \/ SchedulerLost \/ UNCHANGED vars
         \/ \E t \in Tasks : MoveToQueue(t) \/ Submit(t)
  PROVE  KeepsInv'
<1>1. /\ Aside /\ revoked' = revoked
      /\ \A t \in Tasks : fate'[t] = "unused" => fate[t] = "unused" /\ row'[t] = row[t]
  BY QueueAside
<1>2. forgone' = forgone /\ form' = form
  BY DEF viewVars
<1>3. \A t \in Tasks : fate'[t] = "unused" => Untouched(t)'
  BY <1>1, <1>2 DEF KeepsInv, Untouched
<1>4. ASSUME NEW u \in Tasks, fate[u] # "unused", Known(u) PROVE Known(u)'
  BY <1>1, <1>2, <1>4 DEF Aside, Known, Spared, Answered, At
<1>5. HandedOn
  <2>1. \A t \in Tasks : fate[t] = "unused" => fate'[t] # "revoked"
    BY <1>1 DEF Aside
  <2>2. \A t \in Tasks : fate'[t] = "revoked" => fate[t] = "revoked"
    BY <1>1, <2>1 DEF Aside
  <2> QED BY <1>1, <1>4, <2>2 DEF Aside, HandedOn
<1> QED BY <1>1, <1>2, <1>3, <1>5, AsideKeeps

\* The pages.  Whatever a page writes, the task it writes it for is one that it
\* answers for until the copy is there.
LEMMA PageAside ==
  ASSUME IInv, KeepsInv,
         UNCHANGED <<now, task, queue, schedule, moving, submitting, workerVars, fate>>
  PROVE  Aside
BY DEF Aside, workerVars, Waiting

\* A page that goes on answering, and writes keys only for what it answers
\* for, hands on.
LEMMA PageHandsOn ==
  ASSUME IInv, KeepsInv, Aside,
         \A t \in Tasks : Answered(t) => Answered(t)',
         \A t \in Tasks : t \in revoked' => t \in revoked \/ Answered(t)',
         \A t \in Tasks : fate[t] # "unused" /\ fate'[t] = "unused" => FALSE
  PROVE  HandedOn
<1>1. ASSUME NEW u \in Tasks, fate[u] # "unused", Known(u) PROVE Known(u)'
  <2>1. CASE Answered(u)
    BY <2>1 DEF Known
  <2>2. CASE Spared(u) /\ ~Answered(u)'
    <3>1. u \in revoked' => u \in revoked
      BY <2>2
    <3>2. fate'[u] \in {fate[u], "lost"}
      BY <1>1 DEF Aside
    <3> QED BY <2>2, <3>1, <3>2 DEF Known, Spared
  <2> QED BY <1>1, <2>1, <2>2 DEF Known
<1>2. ASSUME NEW t \in Tasks, t \in revoked' \/ fate'[t] = "revoked"
      PROVE  t \in revoked \/ fate[t] = "revoked" \/ Remembered(t)'
  <2>1. fate'[t] = "revoked" => fate[t] = "revoked"
    BY DEF Aside
  <2>2. Answered(t)' => Remembered(t)'
    BY DEF Remembered
  <2> QED BY <1>2, <2>1, <2>2
<1> QED BY <1>1, <1>2 DEF HandedOn, Aside

\* The next step of a page, and its end.
LEMMA GotoFacts ==
  ASSUME ViewTypeOK
  PROVE  /\ \A step : Goto(step) => form'.id = form.id /\ form'.step = step
         /\ NoForm.id = NoTask /\ NoForm.step = "none"
<1>1. DOMAIN form = {"step", "id", "seen", "copy"}
  BY DEF ViewTypeOK
<1>2. ASSUME NEW step, Goto(step) PROVE form'.id = form.id /\ form'.step = step
  <2>1. form' = [form EXCEPT !.step = step]
    BY <1>2 DEF Goto
  <2> QED BY <1>1, <2>1
<1> QED BY <1>2 DEF NoForm

\* The two pages that write a key.
LEMMA RevokePages ==
  ASSUME IInv, IInv', ViewTypeOK, KeepsInv, RevokeOnce \/ RevokeFound
  PROVE  KeepsInv'
<1>1. /\ form.id \in Tasks /\ fate[form.id] # "unused"
  BY DEF RevokeOnce, RevokeFound, At, ViewTypeOK, KeepsInv, Untouched
<1>0. PICK p \in Tasks : p = form.id
  BY <1>1
<1>2. /\ WriteKey /\ revoked' = revoked \cup {form.id} /\ UNCHANGED <<row, fate>>
      /\ UNCHANGED <<now, task, queue, schedule, moving, submitting, workerVars>>
  BY DEF RevokeOnce, RevokeFound, WriteKey
<1>3. /\ forgone \subseteq forgone' /\ forgone' \subseteq forgone \cup {form.id}
      /\ form.id \in forgone' \/ form.id \in Waiting
  BY DEF RevokeOnce, RevokeFound
<1>4. ~At("clone")
  BY DEF RevokeOnce, RevokeFound, At
<1>5. form'.id \in {form.id, NoTask} /\ Answered(p)'
  <2>1. CASE RevokeOnce
    <3>1. form.id \in forgone' /\ (form' = NoForm \/ Goto("mark"))
      BY <2>1 DEF RevokeOnce
    <3> QED BY <1>0, <3>1, GotoFacts DEF Answered
  <2>2. CASE RevokeFound
    BY <1>0, <2>2, GotoFacts DEF RevokeFound, Answered, At
  <2> QED BY <2>1, <2>2
<1>6. Aside
  BY <1>2, PageAside
<1>7. \A t \in Tasks : Answered(t) => Answered(t)'
  BY <1>3, <1>4 DEF Answered
<1>8. HandedOn
  BY <1>0, <1>2, <1>5, <1>6, <1>7, PageHandsOn
<1>9. \A t \in Tasks : fate'[t] = "unused" => Untouched(t)'
  BY <1>1, <1>2, <1>3, <1>5, NoTaskAssumption DEF KeepsInv, Untouched
<1> QED BY <1>2, <1>3, <1>6, <1>8, <1>9, AsideKeeps

\* The pages that only read, write rows or begin and end.
LEMMA QuietPages ==
  ASSUME IInv, IInv', ViewTypeOK, KeepsInv,
         \/ MarkRevoked \/ FindPending \/ FindScheduled \/ MarkMoved \/ ViewDies
         \/ ResetRevoke \/ BarrierUp \/ BarrierExpires
         \/ \E t \in Tasks : OpenRevoke(t) \/ OpenSchedule(t)
  PROVE  KeepsInv'
<1> USE DEF queueVars
<1>1. UNCHANGED <<now, task, queue, schedule, moving, submitting, revoked, workerVars, fate>>
  BY DEF MarkRevoked, FindPending, FindScheduled, MarkMoved, ViewDies, ResetRevoke, BarrierUp,
     BarrierExpires, OpenRevoke, OpenSchedule, Open, SaveMarked, vars
<1>2. \A t \in Tasks : fate[t] = "unused" => row'[t] = row[t] /\ t \notin forgone' /\ t # form'.id
  <2> SUFFICES ASSUME NEW t \in Tasks, fate[t] = "unused"
               PROVE  row'[t] = row[t] /\ t \notin forgone' /\ t # form'.id
    OBVIOUS
  <2>1. row[t].status = "absent" /\ t \notin forgone /\ t # form.id /\ t # NoTask
    BY NoTaskAssumption DEF KeepsInv, Untouched
  <2>2. CASE MarkRevoked \/ MarkMoved
    <3>1. row' = [row EXCEPT ![form.id] = [form.seen EXCEPT !.marked = TRUE]]
          /\ form' = NoForm /\ forgone' = forgone
      BY <2>2 DEF MarkRevoked, MarkMoved, SaveMarked
    <3> QED BY <2>1, <3>1 DEF NoForm, IInv, TypeOK
  <2>3. CASE FindPending \/ FindScheduled \/ BarrierUp \/ BarrierExpires
    <3>1. /\ row' = row /\ forgone' = forgone
          /\ form' = form \/ form' = NoForm \/ \E step \in Steps : Goto(step)
      BY <2>3 DEF FindPending, FindScheduled, BarrierUp, BarrierExpires, vars, Steps
    <3>2. form'.id \in {form.id, NoTask}
      BY <3>1, GotoFacts
    <3> QED BY <2>1, <3>1, <3>2
  <2>4. CASE ViewDies
    <3>1. row' = row /\ forgone' \subseteq forgone \cup {form.id} /\ form'.id = NoTask
      BY <2>4 DEF ViewDies, NoForm, vars
    <3> QED BY <2>1, <3>1
  <2>5. CASE ResetRevoke \/ \E u \in Tasks : OpenRevoke(u) \/ OpenSchedule(u)
    <3>1. PICK step \in Steps, u \in Tasks \cup {NoTask} :
            Open(step, u) /\ (u = NoTask \/ row[u].status # "absent")
      BY <2>5 DEF ResetRevoke, OpenRevoke, OpenSchedule, Steps
    <3>2. row' = row /\ forgone' = forgone /\ form'.id = u
      BY <3>1 DEF Open, NoForm, vars
    <3> QED BY <2>1, <3>1, <3>2
  <2> QED BY <2>2, <2>3, <2>4, <2>5
<1>3. forgone \subseteq forgone'
  BY DEF MarkRevoked, FindPending, FindScheduled, MarkMoved, ViewDies, ResetRevoke, BarrierUp,
     BarrierExpires, OpenRevoke, OpenSchedule, Open, SaveMarked
<1>4. \A t \in Tasks : Answered(t) => Answered(t)'
  <2>1. CASE ~At("clone")
    BY <1>3, <2>1 DEF Answered
  <2>2. CASE At("clone")
    <3>1. \/ UNCHANGED <<form, forgone>>
          \/ forgone' = forgone \cup ({form.id} \ {NoTask})
      BY <2>2 DEF MarkRevoked, FindPending, FindScheduled, MarkMoved, ViewDies, ResetRevoke,
         BarrierUp, BarrierExpires, OpenRevoke, OpenSchedule, Open, At
    <3> QED BY <3>1, NoTaskAssumption DEF Answered, At
  <2> QED BY <2>1, <2>2
<1>5. Aside
  BY <1>1, PageAside
<1>6. HandedOn
  BY <1>1, <1>4, <1>5, PageHandsOn
<1>7. \A t \in Tasks : fate'[t] = "unused" => Untouched(t)'
  BY <1>1, <1>2 DEF KeepsInv, Untouched
<1> QED BY <1>1, <1>3, <1>5, <1>6, <1>7, AsideKeeps

\* A flush drops tasks and empties the keys.
LEMMA FlushPages ==
  ASSUME IInv, IInv', ViewTypeOK, KeepsInv, FlushSchedule \/ FlushQueue \/ FlushAll
  PROVE  KeepsInv'
<1> USE DEF queueVars, workerVars, budgets
<1>0. ToSet(<<>>) = {}
  BY DEF ToSet
<1>1. PICK S \in SUBSET Waiting :
        /\ Lost(S) /\ Waiting' = Waiting \ S /\ submitting' = submitting
  <2>1. CASE FlushSchedule
    <3>1. Waiting' = Waiting \ schedule
      BY <2>1 DEF FlushSchedule, Waiting, IInv, OneCopy
    <3> QED BY <2>1, <3>1 DEF FlushSchedule, Waiting
  <2>2. CASE FlushQueue
    <3>1. Waiting' = Waiting \ ToSet(queue)
      BY <1>0, <2>2 DEF FlushQueue, Waiting, IInv, OneCopy
    <3> QED BY <2>2, <3>1 DEF FlushQueue, Waiting
  <2>3. CASE FlushAll
    <3>1. Waiting' = Waiting \ (ToSet(queue) \cup schedule)
      BY <1>0, <2>3 DEF FlushAll, Waiting, IInv, OneCopy
    <3> QED BY <2>3, <3>1 DEF FlushAll, Waiting
  <2> QED BY <2>1, <2>2, <2>3
<1>2. /\ revoked' \subseteq revoked /\ UNCHANGED <<task, row, pc, held, found, handler, forgone>>
      /\ form' = NoForm \/ \E step \in Steps : Goto(step)
      /\ ~At("clone")
  BY DEF FlushSchedule, FlushQueue, FlushAll, Steps, At
<1>3. \A t \in Tasks : fate'[t] = IF t \in S THEN "lost" ELSE fate[t]
  BY <1>1 DEF Lost
<1>4. \A t \in S : fate[t] = "live"
  BY <1>1 DEF KeepsInv
<1>5. Waiting \cap submitting = {}
  BY DEF IInv, OneCopy
<1>6. Aside
  BY <1>1, <1>2, <1>3, <1>4, <1>5 DEF Aside
<1>7. \A t \in Tasks : Answered(t) => Answered(t)'
  BY <1>2 DEF Answered
<1>8. HandedOn
  BY <1>2, <1>3, <1>6, <1>7, PageHandsOn
<1>9. \A t \in Tasks : fate'[t] = "unused" => Untouched(t)'
  <2>1. form'.id \in {form.id, NoTask}
    BY <1>2, GotoFacts
  <2> QED BY <1>2, <1>3, <2>1, NoTaskAssumption DEF KeepsInv, Untouched
<1> QED BY <1>2, <1>6, <1>8, <1>9, AsideKeeps

\* The copy takes over from the task that the page revoked.
LEMMA ClonePage ==
  ASSUME IInv, IInv', ViewTypeOK, KeepsInv, NEW c \in Tasks, Clone(c)
  PROVE  KeepsInv'
<1> USE DEF workerVars, budgets
<1>1. /\ form.id \in Tasks /\ fate[form.id] # "unused" /\ fate[c] = "unused" /\ c # form.id
      /\ c \notin revoked \cup forgone
  BY DEF Clone, At, ViewTypeOK, KeepsInv, Untouched
<1>2. /\ \A t \in Tasks \ {c} : task'[t] = task[t] /\ row'[t] = row[t] /\ fate'[t] = fate[t]
      /\ fate'[c] = "live"
      /\ submitting' = submitting \cup {c}
      /\ UNCHANGED <<queue, schedule, moving, revoked, pc, held, found, handler, forgone>>
  BY DEF Clone, IInv, TypeOK
<1>3. task'[c].kind = task[form.id].kind
  <2>1. PICK eta \in now .. MaxTime :
          task' = [task EXCEPT ![c] = [task[form.id] EXCEPT !.eta = eta]]
    BY DEF Clone
  <2>2. DOMAIN task[form.id] = {"kind", "retries", "eta", "deadline"}
    BY <1>1 DEF IInv, TypeOK, MessageType
  <2>3. task'[c] = [task[form.id] EXCEPT !.eta = eta]
    BY <2>1 DEF IInv, TypeOK
  <2> QED BY <2>2, <2>3
<1>4. form'.id = form.id /\ form'.step = "mark moved"
  BY DEF Clone, ViewTypeOK
<1>5. Waiting' = Waiting
  BY <1>2 DEF Waiting
<1>6. Aside
  BY <1>1, <1>2, <1>5 DEF Aside
<1>7. Known(c)'
  BY <1>1, <1>2 DEF Known, Spared
<1>8. ASSUME NEW u \in Tasks, fate[u] # "unused", Known(u)
      PROVE  \E v \in Tasks : task'[v].kind.call = task[u].kind.call /\ Known(v)'
  <2>1. CASE u = form.id
    BY <1>3, <1>7, <2>1
  <2>2. CASE u # form.id
    BY <1>1, <1>2, <1>8, <2>2 DEF Known, Spared, Answered
  <2> QED BY <2>1, <2>2
<1>9. HandedOn
  BY <1>1, <1>2, <1>6, <1>8 DEF HandedOn, Aside
<1>10. \A t \in Tasks : fate'[t] = "unused" => Untouched(t)'
  BY <1>2, <1>4 DEF KeepsInv, Untouched
<1> QED BY <1>2, <1>6, <1>9, <1>10, AsideKeeps

\* The worker.  What it knows of its task: a key that it carries is one that a
\* page answers for.
LEMMA HeldKept ==
  ASSUME OneWorker, IInv, KeepsInv, NEW w \in Workers, pc[w] # "idle"
  PROVE  /\ held[w] \in Tasks /\ fate[held[w]] # "unused"
         /\ LiveAt(w) /\ FoundAt(w) /\ found[w] \subseteq Tasks
         /\ Owns(w) => held[w] \notin Waiting \cup submitting
         /\ pc[w] # "saving" => handler[w].signal = "none"
         /\ pc[w] # "examine" /\ held[w] \in revoked /\ fate[held[w]] = "live" =>
              held[w] \in Waiting \cup forgone
<1>1. /\ held[w] \in Tasks /\ fate[held[w]] # "unused"
      /\ pc[w] # "saving" => handler[w].signal = "none"
  BY DEF IInv, Bookkeeping, UnusedNowhere, WorkerState
<1>2. /\ LiveAt(w) /\ FoundAt(w) /\ found[w] \subseteq Tasks
      /\ Owns(w) => held[w] \notin Waiting \cup submitting
  BY DEF KeepsInv, IInv, TypeOK, OneCopy
<1>3. KeyInPlace(held[w])
  BY <1>1 DEF KeepsInv
<1> QED BY <1>1, <1>2, <1>3 DEF KeyInPlace, OneWorker

\* A step of worker w with its task t.
LEMMA WorkKeeps ==
  ASSUME OneWorker, IInv, IInv', KeepsInv, UNCHANGED viewVars, HandedOn,
         NEW w \in Workers, NEW t \in Tasks, Busy(w, t), LiveAt(w)', FoundAt(w)',
         fate[t] # "unused", fate'[t] # "unused", KeyInPlace(t)',
         t \in Waiting' \cup submitting' => fate'[t] = "live",
         \A u \in Tasks \ {t} : u \in revoked' => u \in revoked \cup found[w]
  PROVE  KeepsInv'
<1>1. ASSUME NEW u \in Waiting' \cup submitting' PROVE fate'[u] = "live"
  <2>1. u \in Tasks
    BY ElementOfSeq, LenProperties DEF IInv, TypeOK, Waiting, ToSet
  <2> QED BY <2>1 DEF Busy, KeepsInv
<1>2. \A v \in Workers : v = w
  BY DEF OneWorker
<1>3. forgone' = forgone /\ form' = form
  BY DEF viewVars
<1>4. \A a \in found[w] : fate[a] # "unused" /\ (fate[a] = "live" => a \in Waiting)
  BY DEF KeepsInv, FoundAt
<1>5. ASSUME NEW u \in Tasks, fate'[u] = "unused" PROVE Untouched(u)'
  BY <1>3, <1>4, <1>5 DEF Busy, KeepsInv, Untouched
<1>6. ASSUME NEW u \in Tasks, u # t PROVE KeyInPlace(u)'
  <2> SUFFICES ASSUME u \in revoked', fate'[u] = "live", u \notin forgone
               PROVE  u \in Waiting'
    BY <1>3 DEF KeyInPlace
  <2>1. fate[u] = "live" /\ (u \in Waiting => u \in Waiting')
    BY <1>6 DEF Busy
  <2>2. CASE u \in found[w]
    BY <1>4, <2>1, <2>2
  <2>3. CASE u \in revoked
    <3>1. ~(pc[w] = "examine" /\ held[w] = u)
      BY <1>6 DEF Busy
    <3> QED BY <1>2, <2>1, <2>3, <3>1 DEF KeepsInv, KeyInPlace
  <2> QED BY <1>6, <2>2, <2>3
<1>7. \A u \in Tasks : KeyInPlace(u)'
  BY <1>6
<1>8. \A v \in Workers : LiveAt(v)' /\ FoundAt(v)'
  BY <1>2
<1>9. \A u \in Tasks : u \in revoked' \/ fate'[u] = "revoked" => Remembered(u)'
  BY RememberedStays
<1> QED BY <1>1, <1>5, <1>7, <1>8, <1>9 DEF KeepsInv

\* One that writes no key and uses none up, and does not end the task as
\* revoked.
LEMMA QuietWorkKeeps ==
  ASSUME OneWorker, IInv, IInv', KeepsInv, UNCHANGED viewVars,
         NEW w \in Workers, NEW t \in Tasks, Busy(w, t), LiveAt(w)', FoundAt(w)',
         fate[t] # "unused", fate'[t] # "unused", KeyInPlace(t)', revoked' = revoked,
         fate'[t] \in {"live", "revoked"} => fate[t] = fate'[t],
         t \in Waiting' \cup submitting' => fate'[t] = "live"
  PROVE  KeepsInv'
<1>1. form' = form /\ forgone' = forgone
  BY DEF viewVars
<1>2. ASSUME NEW u \in Tasks, Known(u) PROVE Known(u)'
  <2>1. Answered(u)' <=> Answered(u)
    BY <1>1 DEF Answered, At
  <2>2. CASE u = t
    BY <1>2, <2>1, <2>2 DEF Known, Spared
  <2>3. CASE u # t
    BY <1>2, <2>1, <2>3 DEF Known, Spared, Busy
  <2> QED BY <2>2, <2>3
<1>3. HandedOn
  BY <1>2 DEF HandedOn, Busy
<1> QED BY <1>3, WorkKeeps

\* A worker opens historical_task for a signal that stores nothing.
LEMMA SignalKept ==
  ASSUME OneWorker, IInv, IInv', KeepsInv, UNCHANGED viewVars, NEW w \in Workers, NEW signal,
         pc[w] # "idle", Handle(w, signal),
         UNCHANGED <<queue, schedule, moving, submitting, revoked, held, found>>,
         \A u \in Tasks \ {held[w]} : fate'[u] = fate[u],
         \A u \in Tasks : task'[u].kind = task[u].kind,
         \/ signal = "executing" /\ pc[w] = "start" /\ fate' = fate
         \/ signal = "expired" /\ pc[w] = "examine" /\ fate'[held[w]] = signal
         \/ signal = "complete" /\ pc[w] = "running" /\ fate'[held[w]] = signal
         \/ /\ signal \in {"error", "canceled", "locked"} /\ pc[w] = "running"
            /\ task'[held[w]].retries > 0 => fate'[held[w]] = fate[held[w]]
            /\ fate'[held[w]] \notin {"unused", "revoked"}
         \/ signal = "retrying" /\ pc[w] = "retry" /\ fate' = fate
         \/ signal = "interrupted" /\ pc[w] = "interrupted" /\ fate' = fate
  PROVE  KeepsInv'
<1>0. PICK t \in Tasks : t = held[w]
  BY HeldKept
<1>1. /\ fate[t] # "unused" /\ LiveAt(w) /\ FoundAt(w)
      /\ Owns(w) => t \notin Waiting \cup submitting
      /\ pc[w] # "saving" => handler[w].signal = "none"
      /\ pc[w] # "examine" /\ t \in revoked /\ fate[t] = "live" => t \in Waiting \cup forgone
  BY <1>0, HeldKept
<1>2. /\ signal \in {"executing", "expired", "complete", "error", "canceled", "locked",
                     "retrying", "interrupted"}
      /\ pc[w] \in {"start", "examine", "running", "retry", "interrupted"}
  OBVIOUS
<1>3. /\ \A u \in Tasks \ {t} : row'[u] = row[u]
      /\ handler'[w].signal = signal /\ pc'[w] = "saving"
  BY <1>0 DEF Handle, IInv, TypeOK
<1>4. Waiting' = Waiting /\ held'[w] = t
  BY <1>0 DEF Waiting
<1>5. Busy(w, t)
  BY <1>0, <1>3, <1>4 DEF Busy
<1>6. LiveAt(w)'
  BY <1>0, <1>1, <1>2, <1>3, <1>4 DEF LiveAt
<1>7. found[w] = {} /\ FoundAt(w)'
  BY <1>1, <1>2 DEF FoundAt
<1>8. /\ fate'[t] # "unused"
      /\ fate'[t] \in {"live", "revoked"} => fate[t] = fate'[t]
      /\ fate'[t] = "live" => pc[w] # "examine"
  BY <1>0, <1>1, <1>2 DEF LiveAt
<1>9. KeyInPlace(t)'
  BY <1>1, <1>4, <1>8 DEF KeyInPlace, viewVars
<1>10. ASSUME t \in Waiting' \cup submitting' PROVE fate'[t] = "live"
  <2>1. ~Owns(w) /\ fate[t] = "live"
    BY <1>1, <1>4, <1>10 DEF KeepsInv
  <2>2. signal = "interrupted"
    BY <1>1, <1>2, <2>1 DEF Owns
  <2> QED BY <2>1, <2>2
<1> QED BY <1>1, <1>5, <1>6, <1>7, <1>8, <1>9, <1>10, QuietWorkKeeps

\* The steps that only open a handler: an expired task, the start of a body and
\* its ends, and the signals of a retry or an interruption.
LEMMA SignalStepsKept ==
  ASSUME OneWorker, IInv, IInv', KeepsInv, UNCHANGED viewVars, NEW w \in Workers,
         \/ SkipExpired(w) \/ Start(w) \/ Complete(w) \/ Fail(w) \/ CancelRetry(w)
         \/ \E keepRetries \in BOOLEAN : Cancel(w, keepRetries)
         \/ Retry(w) \/ RecordInterrupted(w)
  PROVE  KeepsInv'
<1> USE DEF queueVars, workerVars, budgets
<1>0. pc[w] # "idle"
  BY DEF SkipExpired, Start, Complete, Fail, CancelRetry, Cancel, Retry, RecordInterrupted
<1>1. /\ held[w] \in Tasks /\ LiveAt(w)
      /\ pc[w] # "saving" => handler[w].signal = "none"
  BY <1>0, HeldKept
<1>2. /\ fate \in [Tasks -> Ended \cup {"unused", "live"}]
      /\ task \in [Tasks -> MessageType]
  BY DEF IInv, TypeOK
<1>3. \A u \in Tasks : task[u].kind \in Kinds /\ task[u].retries \in Nat
  BY <1>2 DEF MessageType
<1>4. UNCHANGED <<queue, schedule, moving, submitting, revoked, held, found>>
  BY DEF SkipExpired, Start, Complete, Fail, CancelRetry, Cancel, Retry, RecordInterrupted
<1>5. /\ \A u \in Tasks \ {held[w]} : fate'[u] = fate[u]
      /\ \A u \in Tasks : task'[u].kind = task[u].kind
  <2>1. \A u \in Tasks \ {held[w]} : fate'[u] = fate[u]
    BY <1>1, <1>2
    DEF SkipExpired, Start, Complete, Fail, CancelRetry, Cancel, Retry, RecordInterrupted
  <2>2. task' = task \/ \E n : task' = [task EXCEPT ![held[w]].retries = n]
    BY DEF SkipExpired, Start, Complete, Fail, CancelRetry, Cancel, Retry, RecordInterrupted
  <2> QED BY <1>1, <2>1, <2>2, KindStays DEF IInv
<1>6. CASE SkipExpired(w)
  <2>1. Handle(w, "expired") /\ pc[w] = "examine" /\ fate'[held[w]] = "expired"
    BY <1>1, <1>2, <1>6 DEF SkipExpired
  <2> QED BY <1>0, <1>4, <1>5, <2>1, SignalKept
<1>7. CASE Start(w)
  <2>1. Handle(w, "executing") /\ pc[w] = "start" /\ fate' = fate
    BY <1>7 DEF Start
  <2> QED BY <1>0, <1>4, <1>5, <2>1, SignalKept
<1>8. CASE Complete(w)
  <2>1. Handle(w, "complete") /\ pc[w] = "running" /\ fate'[held[w]] = "complete"
    BY <1>1, <1>2, <1>8 DEF Complete
  <2> QED BY <1>0, <1>4, <1>5, <2>1, SignalKept
<1>9. CASE Fail(w)
  <2>1. PICK signal \in {"error", "locked"} : Handle(w, signal)
    BY <1>9 DEF Fail
  <2>2. pc[w] = "running" /\ fate[held[w]] = "live"
    BY <1>1, <1>9 DEF Fail, LiveAt
  <2>3. /\ task'[held[w]].retries > 0 => fate'[held[w]] = fate[held[w]]
        /\ fate'[held[w]] \notin {"unused", "revoked"}
    BY <1>1, <1>2, <1>9, <2>2 DEF Fail
  <2> QED BY <1>0, <1>4, <1>5, <2>1, <2>2, <2>3, SignalKept
<1>10. CASE CancelRetry(w)
  <2>1. Handle(w, "canceled") /\ pc[w] = "running" /\ fate' = fate /\ fate[held[w]] = "live"
    BY <1>1, <1>10 DEF CancelRetry, LiveAt
  <2> QED BY <1>0, <1>4, <1>5, <2>1, SignalKept
<1>11. ASSUME NEW keep \in BOOLEAN, Cancel(w, keep) PROVE KeepsInv'
  <2>1. Handle(w, "canceled") /\ pc[w] = "running" /\ fate[held[w]] = "live"
    BY <1>1, <1>11 DEF Cancel, LiveAt
  <2>2. /\ task'[held[w]].retries > 0 => fate'[held[w]] = fate[held[w]]
        /\ fate'[held[w]] \notin {"unused", "revoked"}
    <3> DEFINE left == IF keep THEN task[held[w]].retries ELSE 0
    <3>1. task' = [task EXCEPT ![held[w]].retries = left]
          /\ fate' = [fate EXCEPT ![held[w]] = IF left > 0 THEN @ ELSE "canceled"]
      BY <1>11 DEF Cancel
    <3> HIDE DEF left
    <3>2. task'[held[w]].retries = left
      BY <1>1, <1>2, <3>1 DEF MessageType
    <3> QED BY <1>1, <1>2, <2>1, <3>1, <3>2
  <2> QED BY <1>0, <1>4, <1>5, <2>1, <2>2, SignalKept
<1>12. CASE Retry(w)
  <2>1. Handle(w, "retrying") /\ pc[w] = "retry" /\ fate' = fate
    BY <1>12 DEF Retry
  <2> QED BY <1>0, <1>4, <1>5, <2>1, SignalKept
<1>13. CASE RecordInterrupted(w)
  <2>1. Handle(w, "interrupted") /\ pc[w] = "interrupted" /\ fate' = fate
    BY <1>13 DEF RecordInterrupted
  <2> QED BY <1>0, <1>4, <1>5, <2>1, SignalKept
<1> QED BY <1>6, <1>7, <1>8, <1>9, <1>10, <1>11, <1>12, <1>13

\* A task that meets its key, or the barrier, uses the key up; whoever knew its
\* call was not this task, or is a page.
LEMMA SkipsKept ==
  ASSUME OneWorker, IInv, IInv', KeepsInv, UNCHANGED viewVars, NEW w \in Workers,
         SkipRevoked(w) \/ SkipReset(w)
  PROVE  KeepsInv'
<1> USE DEF queueVars, workerVars, budgets
<1>1. PICK t \in Tasks : t = held[w]
  BY HeldKept DEF SkipRevoked, SkipReset
<1>2. /\ pc[w] = "examine" /\ revoked' = revoked \ {t}
      /\ Handle(w, "revoked") /\ task' = task
      /\ UNCHANGED <<queue, schedule, moving, submitting, held, found>>
      /\ fate'[t] = "lost" \/ (fate'[t] = "revoked" /\ t \in revoked)
      /\ \A u \in Tasks \ {t} : fate'[u] = fate[u]
  BY <1>1 DEF SkipRevoked, SkipReset, IInv, TypeOK
<1>3. fate[t] = "live" /\ FoundAt(w) /\ Owns(w) /\ t \notin Waiting \cup submitting
  BY <1>1, <1>2, HeldKept, OwnsFacts DEF LiveAt
<1>4. /\ \A u \in Tasks \ {t} : row'[u] = row[u]
      /\ handler'[w].signal = "revoked" /\ pc'[w] = "saving"
  BY <1>1, <1>2 DEF Handle, IInv, TypeOK
<1>5. Waiting' = Waiting /\ form' = form /\ forgone' = forgone
  BY <1>2 DEF Waiting, viewVars
<1>6. Busy(w, t)
  BY <1>1, <1>2, <1>4, <1>5 DEF Busy
<1>7. LiveAt(w)' /\ FoundAt(w)'
  <2>1. found'[w] = {}
    BY <1>2, <1>3 DEF FoundAt
  <2> QED BY <1>4, <2>1 DEF LiveAt, FoundAt
<1>8. KeyInPlace(t)'
  BY <1>2 DEF KeyInPlace
<1>9. ASSUME NEW u \in Tasks, Known(u) PROVE Known(u)'
  <2>1. Answered(u)' <=> Answered(u)
    BY <1>5 DEF Answered, At
  <2>2. CASE u = t
    BY <1>2, <1>3, <1>9, <2>1, <2>2 DEF Known, Spared
  <2>3. CASE u # t
    BY <1>2, <1>9, <2>1, <2>3 DEF Known, Spared
  <2> QED BY <2>2, <2>3
<1>10. HandedOn
  <2>1. \A u \in Tasks : u \in revoked' \/ fate'[u] = "revoked" =>
          u \in revoked \/ fate[u] = "revoked"
    BY <1>2
  <2> QED BY <1>2, <1>9, <2>1 DEF HandedOn
<1>11. fate[t] # "unused" /\ fate'[t] # "unused" /\ t \notin Waiting' \cup submitting'
  BY <1>2, <1>3, <1>5
<1> QED BY <1>2, <1>6, <1>7, <1>8, <1>10, <1>11, WorkKeeps

\* The worker takes a task; its key, if any, is looked at next.
LEMMA DequeueKept ==
  ASSUME OneWorker, IInv, IInv', KeepsInv, UNCHANGED viewVars, NEW w \in Workers, Dequeue(w)
  PROVE  KeepsInv'
<1> USE DEF queueVars, workerVars, budgets
<1>1. PICK i \in DOMAIN queue :
        /\ held' = [held EXCEPT ![w] = queue[i]]
        /\ queue' = RemoveAt(queue, i)
  BY DEF Dequeue
<1>2. queue[i] \in Tasks /\ queue[i] \in ToSet(queue)
  BY <1>1, RemoveAtFacts DEF IInv, TypeOK, ToSet
<1>3. PICK t \in Tasks : t = queue[i]
  BY <1>2
<1>4. ToSet(queue') = ToSet(queue) \ {t} /\ t \in ToSet(queue)
  <2>1. Distinct(queue)
    BY DEF IInv, OneCopy, Distinct
  <2> QED BY <1>1, <1>2, <1>3, <2>1, RemoveAtFacts DEF IInv, TypeOK
<1>5. t \notin schedule \cup moving \cup submitting
  BY <1>4 DEF IInv, OneCopy, Waiting
<1>6. Waiting' = Waiting \ {t} /\ t \in Waiting
  BY <1>4, <1>5 DEF Waiting, Dequeue
<1>7. /\ pc[w] = "idle" /\ pc'[w] = "examine" /\ held'[w] = t
      /\ handler'[w].signal = "none"
      /\ UNCHANGED <<task, submitting, revoked, found, row, fate>>
  BY <1>1, <1>3 DEF Dequeue, IInv, TypeOK, Bookkeeping, WorkerState
<1>8. fate[t] = "live"
  BY <1>6 DEF KeepsInv
<1>9. Busy(w, t)
  BY <1>6, <1>7 DEF Busy
<1>10. LiveAt(w)'
  BY <1>7, <1>8 DEF LiveAt
<1>11. FoundAt(w)'
  <2>1. found'[w] = {}
    BY <1>7 DEF KeepsInv, FoundAt
  <2> QED BY <2>1 DEF FoundAt
<1>12. KeyInPlace(t)'
  BY <1>7 DEF KeyInPlace
<1> QED BY <1>7, <1>8, <1>9, <1>10, <1>11, <1>12, QuietWorkKeeps

\* The worker puts its task back.
LEMMA GiveBackKept ==
  ASSUME OneWorker, IInv, IInv', KeepsInv, UNCHANGED viewVars, NEW w \in Workers,
         Postpone(w) \/ RequeueLater(w) \/ RequeueNow(w) \/ Interrupt(w)
  PROVE  KeepsInv'
<1> USE DEF queueVars, workerVars, budgets
<1>0. pc[w] \in {"examine", "requeue", "running"}
  BY DEF Postpone, RequeueLater, RequeueNow, Interrupt
<1>1. PICK t \in Tasks : t = held[w]
  BY <1>0, HeldKept
<1>2. fate[t] = "live" /\ FoundAt(w) /\ handler[w].signal = "none"
  BY <1>0, <1>1, HeldKept DEF LiveAt
<1>3. /\ UNCHANGED <<submitting, revoked, fate>>
      /\ \A u \in Tasks \ {t} : row'[u] = row[u]
      /\ \A u \in Tasks : task'[u].kind = task[u].kind
      /\ Waiting' = Waiting \cup {t}
      /\ found'[w] = {}
      /\ \/ pc'[w] = "idle" /\ handler'[w].signal = "none"
         \/ pc'[w] = "interrupted" /\ handler'[w].signal = "none"
         \/ pc'[w] = "saving" /\ handler'[w].signal = "scheduled"
  <2>1. CASE Postpone(w) \/ RequeueLater(w)
    <3>1. /\ Handle(w, "scheduled") /\ schedule' = schedule \cup {t}
          /\ UNCHANGED <<queue, moving, submitting, revoked, held, found, fate>>
      BY <1>1, <2>1 DEF Postpone, RequeueLater
    <3>2. /\ \A u \in Tasks \ {t} : row'[u] = row[u]
          /\ handler'[w].signal = "scheduled" /\ pc'[w] = "saving"
      BY <1>1, <3>1 DEF Handle, IInv, TypeOK
    <3>3. \A u \in Tasks : task'[u].kind = task[u].kind
      <4>1. \/ task' = task
            \/ task' = [task EXCEPT ![t].eta = Later(task[t].kind.retryDelay)]
        BY <1>1, <2>1 DEF Postpone, RequeueLater
      <4> QED BY <4>1, KindStays DEF IInv
    <3>4. found'[w] = {}
      BY <1>0, <1>2, <3>1 DEF FoundAt
    <3>5. Waiting' = Waiting \cup {t}
      BY <3>1 DEF Waiting
    <3> QED BY <3>1, <3>2, <3>3, <3>4, <3>5
  <2>2. CASE RequeueNow(w) \/ Interrupt(w)
    <3>1. Enqueue(t) /\ UNCHANGED <<schedule, moving, submitting, revoked, fate>>
      BY <1>1, <2>2 DEF RequeueNow, Interrupt
    <3>2. /\ \A u \in Tasks \ {t} : row'[u] = row[u]
          /\ \A u \in Tasks : task'[u].kind = task[u].kind
      BY <3>1 DEF Enqueue, IInv, TypeOK, MessageType
    <3>3. /\ handler'[w].signal = "none" /\ found'[w] = {}
          /\ pc'[w] \in {"idle", "interrupted"}
      <4>1. CASE RequeueNow(w)
        BY <4>1 DEF RequeueNow, Release, NoHandler, IInv, TypeOK
      <4>2. CASE Interrupt(w)
        BY <1>0, <1>2, <4>2 DEF Interrupt, FoundAt, IInv, TypeOK
      <4> QED BY <2>2, <4>1, <4>2
    <3>4. Waiting' = Waiting \cup {t}
      <4>1. ToSet(queue') = ToSet(queue) \cup {t}
        BY <3>1, EnqueueFacts DEF IInv
      <4> QED BY <3>1, <4>1 DEF Waiting
    <3> QED BY <3>1, <3>2, <3>3, <3>4
  <2> QED BY <2>1, <2>2
<1>4. Busy(w, t)
  BY <1>1, <1>3 DEF Busy
<1>5. LiveAt(w)' /\ FoundAt(w)'
  BY <1>3 DEF LiveAt, FoundAt
<1>6. KeyInPlace(t)'
  BY <1>3 DEF KeyInPlace
<1>7. fate[t] # "unused" /\ fate'[t] = "live"
  BY <1>2, <1>3
<1> QED BY <1>2, <1>3, <1>4, <1>5, <1>6, <1>7, QuietWorkKeeps

\* A handler saves: the worker is free, or the task is requeued.
LEMMA SaveKept ==
  ASSUME OneWorker, IInv, IInv', KeepsInv, UNCHANGED viewVars, NEW w \in Workers, Save(w)
  PROVE  KeepsInv'
<1> DEFINE signal == handler[w].signal
           mayRetry == signal \in {"error", "canceled", "locked"} /\ task[held[w]].retries > 0
           next == CASE signal = "executing" -> "running"
                     [] signal = "retrying"  -> "requeue"
                     [] mayRetry             -> "retry"
                     [] OTHER                -> "idle"
<1>1. PICK t \in Tasks : t = held[w]
  BY HeldKept DEF Save
<1>2. /\ pc[w] = "saving"
      /\ row' = [row EXCEPT ![t] = handler[w].row]
      /\ pc' = [pc EXCEPT ![w] = next]
      /\ held' = [held EXCEPT ![w] = IF next = "idle" THEN NoTask ELSE t]
      /\ handler' = [handler EXCEPT ![w] = NoHandler]
      /\ UNCHANGED <<task, queue, schedule, moving, submitting, revoked, found, fate>>
  BY <1>1 DEF Save, queueVars
<1>3. /\ LiveAt(w) /\ FoundAt(w) /\ fate[t] # "unused"
      /\ t \in revoked /\ fate[t] = "live" => t \in Waiting \cup forgone
  BY <1>1, <1>2, HeldKept
<1>4. /\ next \in {"running", "requeue", "retry", "idle"}
      /\ next = "idle" \/ signal \in {"executing", "retrying"} \/ mayRetry
  OBVIOUS
<1>5. next # "idle" => fate[t] = "live"
  BY <1>1, <1>3, <1>4 DEF LiveAt
<1> HIDE DEF next, mayRetry
<1>6. /\ pc'[w] = next /\ handler'[w].signal = "none"
      /\ held'[w] = IF next = "idle" THEN NoTask ELSE t
      /\ \A u \in Tasks \ {t} : row'[u] = row[u]
      /\ found'[w] = {}
  BY <1>2, <1>3 DEF IInv, TypeOK, NoHandler, FoundAt
<1>7. Waiting' = Waiting
  BY <1>2 DEF Waiting
<1>8. Busy(w, t)
  BY <1>1, <1>2, <1>6, <1>7 DEF Busy
<1>9. LiveAt(w)' /\ FoundAt(w)'
  BY <1>2, <1>4, <1>5, <1>6 DEF LiveAt, FoundAt
<1>10. KeyInPlace(t)'
  BY <1>2, <1>3, <1>7 DEF KeyInPlace, viewVars
<1>11. t \in Waiting' \cup submitting' => fate'[t] = "live"
  BY <1>2, <1>7 DEF KeepsInv
<1> QED BY <1>2, <1>3, <1>8, <1>9, <1>10, <1>11, QuietWorkKeeps

\* The worker is killed; its task is lost, which counts as spared.
LEMMA KillKept ==
  ASSUME OneWorker, IInv, IInv', KeepsInv, UNCHANGED viewVars, NEW w \in Workers, Kill(w)
  PROVE  KeepsInv'
<1> USE DEF queueVars, budgets
<1>1. PICK t \in Tasks : t = held[w]
  BY HeldKept DEF Kill
<1>2. /\ pc[w] # "idle" /\ Release(w)
      /\ fate' = [fate EXCEPT ![t] = IF Owns(w) THEN "lost" ELSE @]
      /\ UNCHANGED <<task, queue, schedule, moving, submitting, revoked, row>>
  BY <1>1 DEF Kill
<1>3. /\ fate[t] # "unused" /\ (Owns(w) => t \notin Waiting \cup submitting)
      /\ pc[w] # "examine" /\ t \in revoked /\ fate[t] = "live" => t \in Waiting \cup forgone
      /\ pc[w] = "examine" => Owns(w)
  BY <1>1, <1>2, HeldKept, OwnsFacts
<1>4. /\ pc'[w] = "idle" /\ found'[w] = {} /\ handler'[w].signal = "none"
      /\ \A u \in Tasks : fate'[u] = IF u = t /\ Owns(w) THEN "lost" ELSE fate[u]
  BY <1>2 DEF Release, NoHandler, IInv, TypeOK
<1>5. Waiting' = Waiting
  BY <1>2 DEF Waiting
<1>6. Busy(w, t)
  BY <1>1, <1>2, <1>4, <1>5 DEF Busy
<1>7. LiveAt(w)' /\ FoundAt(w)'
  BY <1>4 DEF LiveAt, FoundAt
<1>8. KeyInPlace(t)'
  BY <1>2, <1>3, <1>4, <1>5 DEF KeyInPlace, viewVars
<1>9. t \in Waiting' \cup submitting' => fate'[t] = "live"
  BY <1>2, <1>3, <1>4, <1>5 DEF KeepsInv
<1>10. fate'[t] # "unused" /\ (fate'[t] \in {"live", "revoked"} => fate[t] = fate'[t])
  BY <1>3, <1>4
<1>11. revoked' = revoked
  BY <1>2
<1> QED BY <1>3, <1>6, <1>7, <1>8, <1>9, <1>10, <1>11, QuietWorkKeeps

\* The executing task lists its duplicates and revokes them.  It knows its call
\* itself: it has no key, or only one that a page answers for.
LEMMA ListKept ==
  ASSUME OneWorker, IInv, IInv', KeepsInv, UNCHANGED viewVars, NEW w \in Workers,
         Accept(w) \/ ListPending(w) \/ ListScheduled(w) \/ RevokeListed(w)
  PROVE  KeepsInv'
<1> USE DEF queueVars, budgets
<1>0. /\ pc[w] \in {"examine", "list", "listed", "listedAll"}
      /\ UNCHANGED <<task, queue, schedule, moving, submitting, held, handler, row, fate>>
  BY DEF Accept, ListPending, ListScheduled, RevokeListed
<1>1. PICK t \in Tasks : t = held[w]
  BY <1>0, HeldKept
<1>2. /\ Owns(w) /\ t \notin Waiting \cup submitting /\ fate[t] = "live"
      /\ FoundAt(w) /\ handler[w].signal = "none"
      /\ pc[w] # "examine" /\ t \in revoked => t \in forgone
  BY <1>0, <1>1, HeldKept, OwnsFacts DEF LiveAt
<1>3. t \in revoked => t \in forgone
  BY <1>1, <1>2 DEF Accept, ListPending, ListScheduled, RevokeListed
<1>4. /\ pc'[w] \in {"list", "listed", "listedAll", "start"}
      /\ pc[w] \in {"list", "listed"} => pc'[w] \in {"listed", "listedAll"}
      /\ pc[w] \in {"examine", "listedAll"} => pc'[w] \in {"list", "start"}
  BY DEF Accept, ListPending, ListScheduled, RevokeListed, IInv, TypeOK
<1>5. Waiting' = Waiting /\ held'[w] = t /\ form' = form /\ forgone' = forgone
  BY <1>0, <1>1 DEF Waiting, viewVars
<1>6. Busy(w, t)
  BY <1>0, <1>1, <1>5 DEF Busy
<1>7. LiveAt(w)'
  BY <1>0, <1>2, <1>4, <1>5 DEF LiveAt
<1>8. /\ found[w] \subseteq Tasks
      /\ revoked' \subseteq revoked \cup found[w] /\ revoked \subseteq revoked'
      /\ found'[w] \subseteq Duplicates(t, ToSet(queue) \cup schedule)
      /\ pc'[w] \in {"list", "start"} => found'[w] = {}
  BY <1>0, <1>1, <1>2
  DEF Accept, ListPending, ListScheduled, RevokeListed, IInv, TypeOK, FoundAt, Duplicates
<1>9. \A a \in found[w] :
        /\ a # t /\ task[a].kind.call = task[t].kind.call
        /\ fate[a] # "unused" /\ (fate[a] = "live" => a \in Waiting)
  BY <1>1, <1>2 DEF FoundAt
<1>10. FoundAt(w)'
  <2>1. ASSUME NEW a \in found'[w]
        PROVE  /\ a # t /\ task[a].kind.call = task[t].kind.call
               /\ a \in Waiting
    BY <1>8 DEF Duplicates, Waiting
  <2> QED BY <1>0, <1>1, <1>4, <1>5, <1>8, <2>1 DEF FoundAt, KeepsInv
<1>11. (t \in revoked' => t \in forgone) /\ Known(t)'
  <2>1. t \in revoked' => t \in forgone
    BY <1>3, <1>8, <1>9
  <2> QED BY <1>0, <1>2, <1>5, <2>1 DEF Known, Spared, Answered
<1>12. KeyInPlace(t)'
  BY <1>5, <1>11 DEF KeyInPlace
<1>13. ASSUME NEW u \in Tasks, Known(u)
       PROVE  \E v \in Tasks : task'[v].kind.call = task[u].kind.call /\ Known(v)'
  <2>1. CASE u \in found[w]
    BY <1>0, <1>9, <1>11, <2>1
  <2>2. CASE u \notin found[w]
    <3>1. u \in revoked' => u \in revoked
      BY <1>8, <2>2
    <3>2. Known(u)'
      BY <1>0, <1>5, <1>13, <3>1 DEF Known, Spared, Answered, At
    <3> QED BY <1>0, <3>2
  <2> QED BY <2>1, <2>2
<1>14. HandedOn
  <2>1. \A u \in found[w] : Remembered(u)'
    BY <1>0, <1>8, <1>9, <1>11 DEF Remembered, Known
  <2> QED BY <1>0, <1>8, <1>13, <2>1 DEF HandedOn
<1>15. fate[t] # "unused" /\ fate'[t] # "unused" /\ t \notin Waiting' \cup submitting'
  BY <1>0, <1>2, <1>5
<1> QED BY <1>6, <1>7, <1>8, <1>10, <1>12, <1>14, <1>15, WorkKeeps

----------------------------------------------------------------------------
\* A queue without pages has nothing to remember.
LEMMA KeepsInit ==
  ASSUME ViewInit PROVE KeepsInv
<1>1. queue = <<>> /\ ToSet(queue) = {}
  BY DEF ViewInit, Init, ToSet
<1>2. Waiting = {} /\ submitting = {} /\ revoked = {} /\ forgone = {}
  BY <1>1 DEF ViewInit, Init, Waiting
<1>3. /\ \A w \in Workers : pc[w] = "idle" /\ found[w] = {} /\ handler[w].signal = "none"
      /\ \A t \in Tasks : row[t].status = "absent" /\ fate[t] = "unused" /\ t # form.id
  BY NoTaskAssumption DEF ViewInit, Init, NoHandler, NoRow, NoForm
<1> QED BY <1>2, <1>3 DEF KeepsInv, LiveAt, FoundAt, Untouched, KeyInPlace

\* Every step keeps it, one case for each group above.
LEMMA KeepsStep ==
  ASSUME OneWorker, ViewInv, ViewInv', KeepsInv, [ViewNext]_allVars
  PROVE  KeepsInv'
<1>1. IInv /\ IInv' /\ ViewTypeOK
  BY DEF ViewInv
<1>2. ASSUME Next \/ UNCHANGED vars, UNCHANGED viewVars PROVE KeepsInv'
  <2>1. CASE \/ Tick \/ ReadSchedule \/ SchedulerLost \/ UNCHANGED vars
             \/ \E t \in Tasks : MoveToQueue(t) \/ Submit(t)
    BY <1>1, <1>2, <2>1, QueueAsideKeeps
  <2>2. ASSUME NEW w \in Workers, Work(w) PROVE KeepsInv'
    BY <1>1, <1>2, <2>2, SignalStepsKept, SkipsKept, DequeueKept, GiveBackKept, SaveKept,
       ListKept DEF Work
  <2>3. ASSUME NEW w \in Workers, Interrupt(w) \/ Kill(w) PROVE KeepsInv'
    BY <1>1, <1>2, <2>3, GiveBackKept, KillKept
  <2> QED BY <1>2, <2>1, <2>2, <2>3 DEF Next, Scheduler
<1>3. CASE QueueNext \/ UNCHANGED allVars
  BY <1>2, <1>3 DEF QueueNext, allVars
<1>4. ASSUME NEW w \in Workers, SkipReset(w) PROVE KeepsInv'
  BY <1>1, <1>4, SkipsKept DEF SkipReset
<1>5. ASSUME NEW c \in Tasks, Clone(c) PROVE KeepsInv'
  BY <1>1, <1>5, ClonePage
<1>6. CASE RevokeOnce \/ RevokeFound
  BY <1>1, <1>6, RevokePages
<1>7. CASE FlushSchedule \/ FlushQueue \/ FlushAll
  BY <1>1, <1>7, FlushPages
<1>8. CASE \/ MarkRevoked \/ FindPending \/ FindScheduled \/ MarkMoved \/ ViewDies
           \/ ResetRevoke \/ BarrierUp \/ BarrierExpires
           \/ \E t \in Tasks : OpenRevoke(t) \/ OpenSchedule(t)
  BY <1>1, <1>8, QuietPages
<1> QED BY <1>3, <1>4, <1>5, <1>6, <1>7, <1>8 DEF ViewNext, Views

\* In a queue with one worker no call is forgotten, however often its tasks
\* are deduplicated, retried, interrupted, revoked and rescheduled: a call
\* whose task ended as revoked has another task that did not, unless a page
\* answers for it.
THEOREM NoCallForgotten ==
  ASSUME OneWorker PROVE ViewSpec => []RescheduleKeeps
<1>1. ViewInit => KeepsInv
  BY KeepsInit
<1>2. ViewInv /\ ViewInv' /\ KeepsInv /\ [ViewNext]_allVars => KeepsInv'
  BY KeepsStep
<1>3. KeepsInv => RescheduleKeeps
  <2> SUFFICES ASSUME KeepsInv, NEW t \in Tasks, fate[t] = "revoked",
                      t \notin forgone \cup {form.id}
               PROVE  \E u \in Tasks \ {t} :
                        /\ task[u].kind.call = task[t].kind.call
                        /\ fate[u] \notin {"unused", "revoked"} \/ u \in forgone \cup {form.id}
    BY DEF RescheduleKeeps
  <2>1. PICK u \in Tasks : task[u].kind.call = task[t].kind.call /\ (Spared(u) \/ Answered(u))
    BY DEF KeepsInv, Remembered
  <2> QED BY <2>1 DEF Spared, Answered
<1> QED BY <1>1, <1>2, <1>3, ViewInvariance, PTL DEF ViewSpec
=============================================================================
