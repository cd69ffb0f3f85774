-------------------------- MODULE TaskQueueProofs --------------------------
(***************************************************************************)
(* Proofs about TaskQueue, for any number of tasks and kinds and any       *)
(* bounds.  First, for any number of workers: the type invariant, that a   *)
(* task has one copy, and the inductive invariant IInv from which both     *)
(* follow.  Then with one worker, as the limited queue has it: what the    *)
(* rows say is so, a revocation key is never left behind, and duplicates   *)
(* are never all revoked.                                                  *)
(***************************************************************************)
EXTENDS TaskQueue, SequenceTheorems, TLAPS

----------------------------------------------------------------------------
(* The pending queue as a sequence without repetitions *)

Distinct(s) == \A i, j \in DOMAIN s : s[i] = s[j] => i = j

\* Storing a task that is not in the queue keeps it free of repetitions.
LEMMA AppendFacts ==
  ASSUME NEW s \in Seq(Tasks), NEW t \in Tasks
  PROVE  /\ Append(s, t) \in Seq(Tasks)
         /\ ToSet(Append(s, t)) = ToSet(s) \cup {t}
         /\ Distinct(s) /\ t \notin ToSet(s) => Distinct(Append(s, t))
<1>1. /\ Append(s, t) \in Seq(Tasks)
      /\ Len(Append(s, t)) = Len(s) + 1
      /\ DOMAIN s = 1..Len(s)
      /\ DOMAIN Append(s, t) = 1..(Len(s) + 1)
      /\ Len(s) \in Nat
  BY AppendProperties, LenProperties
<1>2. /\ \A i \in 1..Len(s) : Append(s, t)[i] = s[i]
      /\ Append(s, t)[Len(s) + 1] = t
  BY AppendProperties
<1>3. ToSet(Append(s, t)) = ToSet(s) \cup {t}
  <2>1. \A x \in ToSet(Append(s, t)) : x \in ToSet(s) \cup {t}
    BY <1>1, <1>2 DEF ToSet
  <2>2. \A x \in ToSet(s) : x \in ToSet(Append(s, t))
    BY <1>1, <1>2 DEF ToSet
  <2>3. t \in ToSet(Append(s, t))
    BY <1>1, <1>2 DEF ToSet
  <2> QED BY <2>1, <2>2, <2>3
<1>4. ASSUME Distinct(s), t \notin ToSet(s) PROVE Distinct(Append(s, t))
  <2>1. \A i \in 1..Len(s) : s[i] # t
    BY <1>1, <1>4 DEF ToSet
  <2> QED BY <1>1, <1>2, <1>4, <2>1 DEF Distinct
<1> QED BY <1>1, <1>3, <1>4

\* Taking one task out of such a queue leaves exactly the others.
LEMMA RemoveAtFacts ==
  ASSUME NEW s \in Seq(Tasks), NEW i \in DOMAIN s
  PROVE  /\ RemoveAt(s, i) \in Seq(Tasks)
         /\ s[i] \in Tasks
         /\ ToSet(RemoveAt(s, i)) \cup {s[i]} = ToSet(s)
         /\ Distinct(s) => /\ Distinct(RemoveAt(s, i))
                           /\ s[i] \notin ToSet(RemoveAt(s, i))
<1> DEFINE a == SubSeq(s, 1, i - 1)
           b == SubSeq(s, i + 1, Len(s))
           r == RemoveAt(s, i)
<1>1. /\ DOMAIN s = 1..Len(s)
      /\ Len(s) \in Nat
      /\ i \in 1..Len(s)
      /\ \A j \in 1..Len(s) : s[j] \in Tasks
  BY LenProperties, ElementOfSeq
<1>2. /\ a \in Seq(Tasks)
      /\ Len(a) = i - 1
      /\ \A j \in 1..(i - 1) : a[j] = s[j]
  BY <1>1, SubSeqProperties
<1>3. /\ b \in Seq(Tasks)
      /\ Len(b) = Len(s) - i
      /\ \A j \in 1..(Len(s) - i) : b[j] = s[i + j]
  BY <1>1, SubSeqProperties
<1> HIDE DEF a, b
<1>4. /\ r \in Seq(Tasks)
      /\ Len(r) = Len(a) + Len(b)
      /\ \A j \in 1..(Len(a) + Len(b)) :
           r[j] = IF j <= Len(a) THEN a[j] ELSE b[j - Len(a)]
  <2>1. r = a \o b
    BY DEF RemoveAt, a, b
  <2> QED BY <1>2, <1>3, <2>1, ConcatProperties
<1>5. /\ DOMAIN r = 1..(Len(s) - 1)
      /\ \A j \in 1..(Len(s) - 1) : r[j] = IF j < i THEN s[j] ELSE s[j + 1]
  <2>1. DOMAIN r = 1..Len(r)
    BY <1>4, LenProperties
  <2>2. Len(r) = Len(s) - 1
    BY <1>1, <1>2, <1>3, <1>4
  <2>3. ASSUME NEW j \in 1..(Len(s) - 1)
        PROVE  r[j] = IF j < i THEN s[j] ELSE s[j + 1]
    <3>1. CASE j < i
      BY <1>1, <1>2, <1>3, <1>4, <3>1
    <3>2. CASE ~(j < i)
      <4>1. j - (i - 1) \in 1..(Len(s) - i) /\ i + (j - (i - 1)) = j + 1
        BY <1>1, <3>2
      <4>2. r[j] = b[j - (i - 1)]
        BY <1>1, <1>2, <1>3, <1>4, <3>2
      <4> QED BY <1>3, <3>2, <4>1, <4>2
    <3> QED BY <3>1, <3>2
  <2> HIDE DEF r
  <2> QED BY <2>1, <2>2, <2>3
<1>6. ToSet(r) \subseteq ToSet(s)
  <2> SUFFICES ASSUME NEW j \in 1..(Len(s) - 1) PROVE r[j] \in ToSet(s)
    BY <1>5 DEF ToSet
  <2> HIDE DEF r
  <2> QED BY <1>1, <1>5 DEF ToSet
<1>7. ToSet(s) \subseteq ToSet(r) \cup {s[i]} /\ s[i] \in ToSet(s)
  <2> SUFFICES ASSUME NEW j \in 1..Len(s), j # i PROVE s[j] \in ToSet(r)
    BY <1>1 DEF ToSet
  <2> HIDE DEF r
  <2>1. CASE j < i
    BY <1>1, <1>5, <2>1 DEF ToSet
  <2>2. CASE j > i
    <3>1. j - 1 \in 1..(Len(s) - 1) /\ ~(j - 1 < i) /\ (j - 1) + 1 = j
      BY <1>1, <2>2
    <3>2. r[j - 1] = s[j]
      BY <1>5, <3>1
    <3> QED BY <1>5, <3>1, <3>2 DEF ToSet
  <2> QED BY <1>1, <2>1, <2>2
<1>8. ASSUME Distinct(s) PROVE Distinct(r) /\ s[i] \notin ToSet(r)
  <2> HIDE DEF r
  <2>1. \A j, k \in 1..(Len(s) - 1) : r[j] = r[k] => j = k
    BY <1>1, <1>5, <1>8 DEF Distinct
  <2>2. \A j \in 1..(Len(s) - 1) : r[j] # s[i]
    BY <1>1, <1>5, <1>8 DEF Distinct
  <2> QED BY <1>5, <2>1, <2>2 DEF Distinct, ToSet
<1> QED BY <1>1, <1>4, <1>6, <1>7, <1>8

----------------------------------------------------------------------------
(* Types of the helpers *)

\* The options of a scheduling call are numbers and flags.
LEMMA KindFacts ==
  ASSUME NEW k \in Kinds
  PROVE  /\ k.priority \in Nat /\ k.retries \in Nat /\ k.retryDelay \in Nat
         /\ k.delay \in Nat /\ k.expires \in Nat /\ k.dedup \in BOOLEAN
BY KindsAssumption DEF KindType

\* An eta is a reading of the clock.
LEMMA LaterFacts ==
  ASSUME now \in Nat, NEW d \in Nat
  PROVE  Later(d) \in Nat
BY BoundsAssumption DEF Later

\* The row of a new task is a row.
LEMMA NewRowFacts ==
  ASSUME now \in Nat, NEW eta \in Nat, NEW dedup \in BOOLEAN
  PROVE  NewRow(eta, dedup) \in RowType
BY DEF NewRow, NoRow, RowType

\* Every row the signal handlers make is a row.
LEMMA RowFacts ==
  ASSUME now \in Nat, NEW r \in RowType, NEW signal \in Signals,
         NEW eta \in Nat, NEW dedup \in BOOLEAN
  PROVE  /\ NewRow(eta, dedup) \in RowType
         /\ NoRow \in RowType
         /\ Opened(r) \in RowType
         /\ Recorded(r, signal, eta) \in RowType
<1>1. ASSUME NEW e \in Nat, NEW b \in BOOLEAN
      PROVE  NewRow(e, b) \in RowType
  BY NewRowFacts
<1>2. Opened(r) \in RowType
  BY <1>1 DEF Opened
<1>3. Recorded(r, signal, eta) \in RowType
  <2> DEFINE status == IF signal = "executing" THEN "running"
                       ELSE IF r.status = "new" THEN "new" ELSE "moved"
             attempts == IF signal = "executing" THEN r.attempts + 1 ELSE r.attempts
             failed == r.failed \/ signal = "error"
             at == IF signal \in {"enqueued", "scheduled"} THEN eta ELSE r.scheduledAt
  <2>1. status \in {"absent", "new", "running", "moved"}
    OBVIOUS
  <2>2. attempts \in Nat /\ at \in Nat
    BY DEF RowType
  <2>3. failed \in BOOLEAN
    BY Zenon
  <2>4. Recorded(r, signal, eta) =
          [r EXCEPT !.status = status, !.attempts = attempts, !.failed = failed,
                    !.scheduledAt = at, !.endAt = now]
    BY DEF Recorded
  <2> HIDE DEF status, attempts, failed, at
  <2> QED BY <2>1, <2>2, <2>3, <2>4 DEF RowType
<1> QED BY <1>1, <1>2, <1>3 DEF NoRow, RowType

\* A worker whose handler is closed is well typed.
LEMMA NoHandlerType == NoHandler \in HandlerType
BY DEF NoHandler, HandlerType, Signals, NoRow, RowType

\* What Handle does when it is well typed.
LEMMA HandleFacts ==
  ASSUME TypeOK, NEW w \in Workers, held[w] \in Tasks, NEW signal \in Signals,
         task' \in [Tasks -> MessageType], Handle(w, signal)
  PROVE  /\ row' \in [Tasks -> RowType]
         /\ handler' \in [Workers -> HandlerType]
         /\ pc' \in [Workers -> PCs]
         /\ pc'[w] = "saving" /\ handler'[w].signal = signal
         /\ \A v \in Workers \ {w} : pc'[v] = pc[v] /\ handler'[v] = handler[v]
<1> DEFINE t == held[w]
           r == Opened(row[t])
           h == [signal |-> signal, row |-> Recorded(r, signal, task'[t].eta)]
<1>1. /\ row' = [row EXCEPT ![t] = r]
      /\ handler' = [handler EXCEPT ![w] = h]
      /\ pc' = [pc EXCEPT ![w] = "saving"]
  BY DEF Handle
<1>2. /\ now \in Nat /\ row \in [Tasks -> RowType]
      /\ handler \in [Workers -> HandlerType] /\ pc \in [Workers -> PCs]
  BY DEF TypeOK
<1>3. task'[t].eta \in Nat
  BY DEF MessageType
<1>4. r \in RowType
  <2>1. row[t] \in RowType
    BY <1>2
  <2> QED BY <1>2, <2>1, RowFacts
<1>5. Recorded(r, signal, task'[t].eta) \in RowType
  <2> HIDE DEF r
  <2> QED BY <1>2, <1>3, <1>4, RowFacts
<1>6. h \in HandlerType /\ h.signal = signal
  <2> HIDE DEF r
  <2> QED BY <1>5 DEF HandlerType
<1>7. "saving" \in PCs
  BY DEF PCs
<1> HIDE DEF t, r, h
<1> QED BY <1>1, <1>2, <1>4, <1>6, <1>7 DEF t

\* What Enqueue does when it is well typed.
LEMMA EnqueueFacts ==
  ASSUME TypeOK, NEW t \in Tasks, Enqueue(t)
  PROVE  /\ task' \in [Tasks -> MessageType]
         /\ \A u \in Tasks : task'[u].retries = task[u].retries
         /\ row' \in [Tasks -> RowType]
         /\ queue' \in Seq(Tasks)
         /\ ToSet(queue') = ToSet(queue) \cup {t}
         /\ Distinct(queue) /\ t \notin ToSet(queue) => Distinct(queue')
<1>1. /\ now \in Nat /\ row \in [Tasks -> RowType]
      /\ task \in [Tasks -> MessageType] /\ queue \in Seq(Tasks)
  BY DEF TypeOK
<1>2. task[t].kind \in Kinds /\ task[t].eta \in Nat
  BY <1>1 DEF MessageType
<1>3. Later(task[t].kind.expires) \in Nat
  BY <1>1, <1>2, KindFacts, LaterFacts
<1>4. /\ task' \in [Tasks -> MessageType]
      /\ \A u \in Tasks : task'[u].retries = task[u].retries
  BY <1>1, <1>3 DEF Enqueue, MessageType
<1>5. Recorded(Opened(row[t]), "enqueued", task[t].eta) \in RowType
  <2>1. "enqueued" \in Signals /\ row[t] \in RowType
    BY <1>1 DEF Signals
  <2>2. Opened(row[t]) \in RowType
    BY <1>1, <2>1, RowFacts
  <2> QED BY <1>1, <1>2, <2>1, <2>2, RowFacts
<1>6. row' \in [Tasks -> RowType]
  BY <1>1, <1>5 DEF Enqueue
<1>7. queue' = Append(queue, t)
  BY DEF Enqueue
<1> QED BY <1>1, <1>4, <1>6, <1>7, AppendFacts

\* What Release does when it is well typed.
LEMMA ReleaseFacts ==
  ASSUME TypeOK, NEW w \in Workers, Release(w)
  PROVE  /\ pc' \in [Workers -> PCs]
         /\ held' \in [Workers -> Tasks \cup {NoTask}]
         /\ found' \in [Workers -> SUBSET Tasks]
         /\ handler' \in [Workers -> HandlerType]
         /\ pc'[w] = "idle" /\ held'[w] = NoTask /\ handler'[w].signal = "none"
         /\ \A v \in Workers \ {w} :
              pc'[v] = pc[v] /\ held'[v] = held[v] /\ handler'[v] = handler[v]
<1>1. "idle" \in PCs /\ NoHandler.signal = "none"
  BY DEF PCs, NoHandler
<1> QED BY <1>1, NoHandlerType DEF TypeOK, Release

----------------------------------------------------------------------------
(* What most steps have in common *)

\* A step that stores no task anywhere, gives no worker a task and uses up no
\* id: what is in the places and with the workers can only become less.
Quiet ==
  /\ queue' = queue /\ schedule' = schedule
  /\ moving' \subseteq moving /\ submitting' \subseteq submitting
  /\ \A t \in Tasks : fate'[t] = "unused" => fate[t] = "unused"
  /\ \A w \in Workers : held'[w] \in {held[w], NoTask}
  /\ \A w \in Workers : Owns(w)' => Owns(w) /\ held'[w] = held[w]

\* A quiet step keeps OneCopy.
LEMMA QuietStep ==
  ASSUME OneCopy, UnusedNowhere, Quiet
  PROVE  OneCopy' /\ UnusedNowhere'
<1>1. Waiting' \subseteq Waiting
  BY DEF Quiet, Waiting
<1>2. OneCopy'
  <2>1. /\ \A i, j \in DOMAIN queue' : queue'[i] = queue'[j] => i = j
        /\ ToSet(queue') \cap schedule' = {}
        /\ (ToSet(queue') \cup schedule') \cap moving' = {}
        /\ Waiting' \cap submitting' = {}
    BY <1>1 DEF OneCopy, Quiet
  <2>2. ASSUME NEW w \in Workers, Owns(w)'
        PROVE  held'[w] \notin Waiting' \cup submitting'
    BY <1>1, <2>2 DEF OneCopy, Quiet
  <2>3. ASSUME NEW v \in Workers, NEW w \in Workers,
               Owns(v)', Owns(w)', held'[v] = held'[w]
        PROVE  v = w
    <3>1. Owns(v) /\ Owns(w) /\ held[v] = held[w]
      BY <2>3 DEF Quiet
    <3> QED BY <3>1 DEF OneCopy
  <2> QED BY <2>1, <2>2, <2>3 DEF OneCopy
<1>3. UnusedNowhere'
  <2> SUFFICES ASSUME NEW t \in Tasks, fate'[t] = "unused"
               PROVE  /\ t \notin Waiting' \cup submitting'
                      /\ \A w \in Workers : held'[w] # t
    BY DEF UnusedNowhere
  <2>1. fate[t] = "unused"
    BY DEF Quiet
  <2>2. t \notin Waiting' \cup submitting'
    BY <1>1, <2>1 DEF Quiet, UnusedNowhere
  <2>3. ASSUME NEW w \in Workers PROVE held'[w] # t
    BY <2>1, NoTaskAssumption DEF Quiet, UnusedNowhere
  <2> QED BY <2>2, <2>3
<1> QED BY <1>2, <1>3

\* The workers that a step of worker w leaves alone stay consistent.
LEMMA OtherWorkers ==
  ASSUME \A v \in Workers : WorkerState(v), NEW w \in Workers, WorkerState(w)',
         \A v \in Workers \ {w} :
           /\ pc'[v] = pc[v] /\ held'[v] = held[v] /\ handler'[v] = handler[v]
           /\ pc[v] = "retry" => task'[held[v]].retries = task[held[v]].retries
  PROVE  \A v \in Workers : WorkerState(v)'
<1> SUFFICES ASSUME NEW v \in Workers, v # w PROVE WorkerState(v)'
  OBVIOUS
<1> QED BY DEF WorkerState

\* Worker w, which has the only copy of its task or has given it back
\* already, enters historical_task; nothing is stored anywhere.
QuietHandle(w, signal) ==
  /\ pc[w] # "idle"
  /\ Owns(w) \/ signal = "interrupted"
  /\ signal \in Signals
  /\ Handle(w, signal)
  /\ UNCHANGED <<now, queue, schedule, moving, submitting, held, found>>
  /\ task' \in [Tasks -> MessageType]
  /\ \A t \in Tasks \ {held[w]} : task'[t] = task[t]
  /\ fate' \in [Tasks -> Ended \cup {"unused", "live"}]
  /\ \A t \in Tasks : fate'[t] = "unused" => fate[t] = "unused"
  /\ revoked' \subseteq Tasks
  /\ interrupts' \in Nat /\ forced' \in Nat

\* A worker that opens historical_task while nothing is stored keeps IInv.
LEMMA QuietHandleStep ==
  ASSUME IInv, NEW w \in Workers, NEW signal,
         \/ task' = task
         \/ Owns(w),
         QuietHandle(w, signal)
  PROVE  IInv'
<1>1. held[w] \in Tasks
  BY DEF IInv, Bookkeeping, WorkerState, QuietHandle
<1>2. /\ row' \in [Tasks -> RowType]
      /\ handler' \in [Workers -> HandlerType]
      /\ pc' \in [Workers -> PCs]
      /\ pc'[w] = "saving" /\ handler'[w].signal = signal
      /\ \A v \in Workers \ {w} : pc'[v] = pc[v] /\ handler'[v] = handler[v]
  BY <1>1, HandleFacts DEF IInv, QuietHandle
<1>3. TypeOK'
  BY <1>2 DEF IInv, TypeOK, QuietHandle
<1>4. Quiet
  <2>1. Owns(w)' => Owns(w)
    BY <1>2 DEF Owns, QuietHandle
  <2>2. \A v \in Workers \ {w} : Owns(v)' => Owns(v)
    BY <1>2 DEF Owns
  <2> QED BY <2>1, <2>2 DEF Quiet, QuietHandle
<1>5. OneCopy' /\ UnusedNowhere'
  BY <1>4, QuietStep DEF IInv, Bookkeeping
<1>6. \A v \in Workers : WorkerState(v)'
  <2>1. WorkerState(w)'
    BY <1>1, <1>2 DEF WorkerState, QuietHandle
  <2>2. ASSUME NEW v \in Workers \ {w}, pc[v] = "retry"
        PROVE  task'[held[v]].retries = task[held[v]].retries
    <3>1. CASE task' = task
      BY <3>1
    <3>2. CASE Owns(w)
      <4>1. Owns(v) /\ held[v] \in Tasks
        BY <2>2 DEF IInv, Bookkeeping, WorkerState, Owns
      <4>2. held[v] # held[w]
        BY <3>2, <4>1 DEF IInv, OneCopy
      <4> QED BY <4>1, <4>2 DEF QuietHandle
    <3> QED BY <3>1, <3>2
  <2> QED BY <1>2, <2>1, <2>2, OtherWorkers DEF IInv, Bookkeeping, QuietHandle
<1> QED BY <1>3, <1>5, <1>6 DEF IInv, Bookkeeping

----------------------------------------------------------------------------
(* The invariant is inductive *)

\* The queue starts empty, its workers idle and its ids unused.
LEMMA InitIInv == Init => IInv
<1> SUFFICES ASSUME Init PROVE IInv
  OBVIOUS
<1>1. (CHOOSE k \in Kinds : TRUE) \in Kinds
  BY KindsAssumption
<1>2. task \in [Tasks -> MessageType]
  <2> DEFINE k == CHOOSE k \in Kinds : TRUE
  <2>1. k \in Kinds
    BY <1>1
  <2>2. task = [t \in Tasks |-> [kind |-> k, retries |-> 0, eta |-> 0, deadline |-> 0]]
    BY DEF Init
  <2> HIDE DEF k
  <2> QED BY <2>1, <2>2 DEF MessageType
<1>3. NoRow \in RowType
  BY DEF NoRow, RowType
<1>4. queue \in Seq(Tasks) /\ DOMAIN queue = {} /\ ToSet(queue) = {}
  BY DEF Init, ToSet
<1>5. TypeOK
  BY <1>2, <1>3, <1>4, NoHandlerType DEF Init, TypeOK, PCs
<1>6. \A w \in Workers : ~Owns(w)
  BY DEF Init, Owns
<1>7. OneCopy
  BY <1>4, <1>6 DEF Init, OneCopy, Waiting
<1>8. Bookkeeping
  BY <1>4, NoTaskAssumption
  DEF Init, Bookkeeping, UnusedNowhere, WorkerState, Waiting, NoHandler
<1> QED BY <1>5, <1>7, <1>8 DEF IInv

\* Steps that only shrink what waits, or change nothing the workers see.
LEMMA StorageSteps ==
  ASSUME IInv,
         \/ Tick \/ SchedulerLost \/ ReadSchedule
         \/ \E t \in Tasks : SubmitLost(t) \/ \E k \in Kinds : SubmitRow(t, k)
  PROVE  IInv'
<1>1. CASE Tick
  <2>1. Quiet
    BY <1>1 DEF Tick, Quiet, Owns, queueVars, workerVars
  <2>2. TypeOK'
    BY <1>1 DEF IInv, TypeOK, Tick, queueVars, workerVars, budgets
  <2>3. \A w \in Workers : WorkerState(w)'
    BY <1>1 DEF IInv, Bookkeeping, WorkerState, Tick, workerVars
  <2> QED BY <2>1, <2>2, <2>3, QuietStep DEF IInv, Bookkeeping
<1>2. CASE SchedulerLost
  <2>1. \A t \in Tasks : fate'[t] = "unused" => fate[t] = "unused"
    BY <1>2 DEF SchedulerLost
  <2>2. Quiet
    BY <1>2, <2>1 DEF SchedulerLost, Quiet, Owns, workerVars
  <2>3. TypeOK'
    BY <1>2 DEF IInv, TypeOK, SchedulerLost, workerVars, budgets, Ended
  <2>4. \A w \in Workers : WorkerState(w)'
    BY <1>2 DEF IInv, Bookkeeping, WorkerState, SchedulerLost, workerVars
  <2> QED BY <2>2, <2>3, <2>4, QuietStep DEF IInv, Bookkeeping
<1>3. CASE ReadSchedule
  <2>1. TypeOK'
    BY <1>3 DEF IInv, TypeOK, ReadSchedule, workerVars, budgets
  <2>2. /\ Waiting' = Waiting
        /\ schedule' \cap moving' = {}
        /\ moving' \subseteq schedule /\ schedule' \subseteq schedule
    BY <1>3 DEF ReadSchedule, Waiting
  <2>3. \A w \in Workers : Owns(w)' = Owns(w)
    BY <1>3 DEF ReadSchedule, Owns, workerVars
  <2>4. OneCopy'
    BY <1>3, <2>2, <2>3 DEF IInv, OneCopy, ReadSchedule, workerVars
  <2>5. Bookkeeping'
    BY <1>3, <2>2
    DEF IInv, Bookkeeping, UnusedNowhere, WorkerState, ReadSchedule, workerVars
  <2> QED BY <2>1, <2>4, <2>5 DEF IInv
<1>4. ASSUME NEW t \in Tasks, SubmitLost(t) PROVE IInv'
  <2>1. \A u \in Tasks : fate'[u] = "unused" => fate[u] = "unused"
    BY <1>4 DEF SubmitLost, IInv, TypeOK
  <2>2. Quiet
    BY <1>4, <2>1 DEF SubmitLost, Quiet, Owns, workerVars
  <2>3. TypeOK'
    BY <1>4 DEF IInv, TypeOK, SubmitLost, workerVars, budgets, Ended
  <2>4. \A w \in Workers : WorkerState(w)'
    BY <1>4 DEF IInv, Bookkeeping, WorkerState, SubmitLost, workerVars
  <2> QED BY <2>2, <2>3, <2>4, QuietStep DEF IInv, Bookkeeping
<1>5. ASSUME NEW t \in Tasks, NEW k \in Kinds, SubmitRow(t, k) PROVE IInv'
  <2>1. /\ Later(k.delay) \in Nat /\ k.retries \in Nat
        /\ NewRow(Later(k.delay), k.dedup) \in RowType
    <3>1. Later(k.delay) \in Nat /\ k.retries \in Nat /\ k.dedup \in BOOLEAN
      BY KindFacts, LaterFacts DEF IInv, TypeOK
    <3>2. now \in Nat
      BY DEF IInv, TypeOK
    <3> QED BY <3>1, <3>2, NewRowFacts
  <2>2. /\ task' \in [Tasks -> MessageType]
        /\ \A u \in Tasks \ {t} : task'[u] = task[u]
    BY <1>5, <2>1 DEF IInv, TypeOK, SubmitRow, MessageType
  <2>3. TypeOK'
    BY <1>5, <2>1, <2>2 DEF IInv, TypeOK, SubmitRow, workerVars, budgets
  <2>4. t \notin Waiting \cup submitting /\ \A w \in Workers : held[w] # t
    BY <1>5 DEF IInv, Bookkeeping, UnusedNowhere, SubmitRow
  <2>5. /\ Waiting' = Waiting /\ submitting' = submitting \cup {t}
        /\ \A w \in Workers : Owns(w)' = Owns(w)
    BY <1>5 DEF SubmitRow, Waiting, Owns, workerVars
  <2>6. OneCopy'
    BY <1>5, <2>4, <2>5 DEF IInv, OneCopy, SubmitRow, workerVars
  <2>7. UnusedNowhere'
    BY <1>5, <2>5 DEF IInv, TypeOK, Bookkeeping, UnusedNowhere, SubmitRow, workerVars
  <2>8. \A w \in Workers : WorkerState(w)'
    BY <1>5, <2>2, <2>4 DEF IInv, Bookkeeping, WorkerState, SubmitRow, workerVars
  <2> QED BY <2>3, <2>6, <2>7, <2>8 DEF IInv, Bookkeeping
<1> QED BY <1>1, <1>2, <1>3, <1>4, <1>5

\* A step that stores the task t, which is then nowhere else.
Stored(t) ==
  /\ \/ /\ queue' \in Seq(Tasks) /\ Distinct(queue')
        /\ ToSet(queue') = ToSet(queue) \cup {t}
        /\ schedule' = schedule /\ t \notin schedule
     \/ /\ queue' = queue /\ t \notin ToSet(queue)
        /\ schedule' = schedule \cup {t}
  /\ moving' \subseteq moving /\ submitting' \subseteq submitting
  /\ t \notin moving' \cup submitting'
  /\ fate' = fate /\ fate[t] # "unused"
  /\ \A w \in Workers : held'[w] \in {held[w], NoTask}
  /\ \A w \in Workers : Owns(w)' => Owns(w) /\ held'[w] = held[w] /\ held[w] # t

\* Storing a task that nobody else has keeps OneCopy.
LEMMA StoredStep ==
  ASSUME OneCopy, UnusedNowhere, NEW t \in Tasks, Stored(t)
  PROVE  OneCopy' /\ UnusedNowhere'
<1>1. Waiting' \subseteq Waiting \cup {t}
  BY DEF Stored, Waiting
<1>2. /\ \A i, j \in DOMAIN queue' : queue'[i] = queue'[j] => i = j
      /\ ToSet(queue') \cap schedule' = {}
  BY DEF Stored, OneCopy, Distinct
<1>3. /\ (ToSet(queue') \cup schedule') \cap moving' = {}
      /\ Waiting' \cap submitting' = {}
  <2>1. ToSet(queue') \cup schedule' \subseteq ToSet(queue) \cup schedule \cup {t}
    BY DEF Stored
  <2> QED BY <1>1, <2>1 DEF Stored, OneCopy
<1>4. ASSUME NEW w \in Workers, Owns(w)'
      PROVE  held'[w] \notin Waiting' \cup submitting'
  BY <1>1, <1>4 DEF OneCopy, Stored
<1>5. ASSUME NEW v \in Workers, NEW w \in Workers,
             Owns(v)', Owns(w)', held'[v] = held'[w]
      PROVE  v = w
  BY <1>5 DEF OneCopy, Stored
<1>6. OneCopy'
  BY <1>2, <1>3, <1>4, <1>5 DEF OneCopy
<1>7. UnusedNowhere'
  BY <1>1, NoTaskAssumption DEF Stored, UnusedNowhere
<1> QED BY <1>6, <1>7

\* Steps of the scheduling calls and of the scheduler that store a task.
LEMMA StoringSteps ==
  ASSUME IInv, NEW t \in Tasks, SubmitTask(t) \/ MoveToQueue(t)
  PROVE  IInv'
<1>1. t \in submitting \cup moving /\ Enqueue(t)
  BY DEF SubmitTask, MoveToQueue
<1>2. /\ task' \in [Tasks -> MessageType]
      /\ \A u \in Tasks : task'[u].retries = task[u].retries
      /\ row' \in [Tasks -> RowType]
      /\ queue' \in Seq(Tasks)
      /\ ToSet(queue') = ToSet(queue) \cup {t}
      /\ Distinct(queue) /\ t \notin ToSet(queue) => Distinct(queue')
  BY <1>1, EnqueueFacts DEF IInv
<1>3. TypeOK'
  BY <1>2 DEF IInv, TypeOK, SubmitTask, MoveToQueue, workerVars, budgets
<1>4. Distinct(queue) /\ t \notin ToSet(queue) \cup schedule
  BY <1>1 DEF IInv, OneCopy, Distinct, Waiting
<1>5. t \notin moving' \cup submitting'
  BY DEF IInv, OneCopy, Waiting, SubmitTask, MoveToQueue
<1>6. ASSUME NEW w \in Workers, Owns(w)'
      PROVE  Owns(w) /\ held'[w] = held[w] /\ held[w] # t
  <2>1. Owns(w) /\ held'[w] = held[w]
    BY <1>6 DEF Owns, SubmitTask, MoveToQueue, workerVars
  <2>2. held[w] \notin submitting \cup moving
    BY <2>1 DEF IInv, OneCopy, Waiting
  <2> QED BY <1>1, <2>1, <2>2
<1>7. fate[t] # "unused"
  BY <1>1 DEF IInv, Bookkeeping, UnusedNowhere, Waiting
<1>8. Stored(t)
  BY <1>2, <1>4, <1>5, <1>6, <1>7 DEF Stored, SubmitTask, MoveToQueue, workerVars
<1>9. \A w \in Workers : WorkerState(w)'
  BY <1>2 DEF IInv, Bookkeeping, WorkerState, SubmitTask, MoveToQueue, workerVars
<1> QED BY <1>3, <1>8, <1>9, StoredStep DEF IInv, Bookkeeping

\* What is known of a worker that has the only copy of its task.
LEMMA OwnerFacts ==
  ASSUME IInv, NEW w \in Workers, Owns(w)
  PROVE  /\ held[w] \in Tasks
         /\ held[w] \notin ToSet(queue) \cup schedule \cup moving \cup submitting
         /\ fate[held[w]] # "unused"
         /\ \A v \in Workers \ {w} : Owns(v) => held[v] # held[w]
         /\ \A v \in Workers \ {w} :
              pc[v] = "retry" => held[v] \in Tasks /\ held[v] # held[w]
<1>1. held[w] \in Tasks
  BY DEF IInv, Bookkeeping, WorkerState, Owns
<1>2. /\ held[w] \notin ToSet(queue) \cup schedule \cup moving \cup submitting
      /\ \A v \in Workers \ {w} : Owns(v) => held[v] # held[w]
  BY DEF IInv, OneCopy, Waiting
<1>3. fate[held[w]] # "unused"
  BY <1>1 DEF IInv, Bookkeeping, UnusedNowhere
<1>4. \A v \in Workers \ {w} : pc[v] = "retry" => held[v] \in Tasks /\ Owns(v)
  BY DEF IInv, Bookkeeping, WorkerState, Owns
<1> QED BY <1>1, <1>2, <1>3, <1>4

\* In a state of its own making a worker with no open handler owns its task.
LEMMA OwnsFacts ==
  ASSUME IInv, NEW w \in Workers,
         pc[w] \in {"examine", "list", "listed", "listedAll", "start", "running",
                    "retry", "requeue"}
  PROVE  Owns(w)
BY DEF IInv, Bookkeeping, WorkerState, Owns

\* Steps in which worker w opens historical_task and stores nothing.
LEMMA SignalSteps ==
  ASSUME IInv, NEW w \in Workers,
         \/ SkipRevoked(w) \/ SkipExpired(w) \/ Start(w)
         \/ Complete(w) \/ Fail(w) \/ CancelRetry(w) \/ Retry(w)
         \/ \E keepRetries \in BOOLEAN : Cancel(w, keepRetries)
         \/ RecordInterrupted(w)
  PROVE  IInv'
<1> DEFINE t == held[w]
<1>1. /\ now \in Nat /\ interrupts \in Nat /\ forced \in Nat
      /\ revoked \subseteq Tasks
      /\ task \in [Tasks -> MessageType]
      /\ fate \in [Tasks -> Ended \cup {"unused", "live"}]
  BY DEF IInv, TypeOK
<1>2. /\ {"revoked", "expired", "executing", "complete", "error", "locked",
          "canceled", "retrying", "interrupted"} \subseteq Signals
      /\ {"revoked", "expired", "complete", "failed", "canceled"} \subseteq Ended
      /\ "unused" \notin {"revoked", "expired", "complete", "failed", "canceled"}
  BY DEF Signals, Ended
<1>3. CASE SkipRevoked(w)
  <2>1. Owns(w)
    BY <1>3, OwnsFacts DEF SkipRevoked
  <2>2. QuietHandle(w, "revoked")
    BY <1>1, <1>2, <1>3, <2>1 DEF SkipRevoked, QuietHandle, budgets
  <2> QED BY <1>3, <2>1, <2>2, QuietHandleStep
<1>4. CASE SkipExpired(w)
  <2>1. Owns(w)
    BY <1>4, OwnsFacts DEF SkipExpired
  <2>2. QuietHandle(w, "expired")
    BY <1>1, <1>2, <1>4, <2>1 DEF SkipExpired, QuietHandle, budgets, queueVars
  <2> QED BY <1>4, <2>1, <2>2, QuietHandleStep
<1>5. CASE Start(w)
  <2>1. Owns(w)
    BY <1>5, OwnsFacts DEF Start
  <2>2. QuietHandle(w, "executing")
    BY <1>1, <1>2, <1>5, <2>1 DEF Start, QuietHandle, budgets, queueVars
  <2> QED BY <1>5, <2>1, <2>2, QuietHandleStep
<1>6. CASE Complete(w)
  <2>1. Owns(w)
    BY <1>6, OwnsFacts DEF Complete
  <2>2. QuietHandle(w, "complete")
    BY <1>1, <1>2, <1>6, <2>1 DEF Complete, QuietHandle, budgets, queueVars
  <2> QED BY <1>6, <2>1, <2>2, QuietHandleStep
<1>7. CASE Fail(w)
  <2>1. Owns(w)
    BY <1>7, OwnsFacts DEF Fail
  <2>2. PICK signal \in {"error", "locked"} : Handle(w, signal)
    BY <1>7 DEF Fail
  <2>3. QuietHandle(w, signal)
    BY <1>1, <1>2, <1>7, <2>1, <2>2 DEF Fail, QuietHandle, budgets, queueVars
  <2> QED BY <1>7, <2>1, <2>3, QuietHandleStep
<1>8. CASE CancelRetry(w)
  <2>1. Owns(w)
    BY <1>8, OwnsFacts DEF CancelRetry
  <2>2. /\ task' \in [Tasks -> MessageType]
        /\ \A u \in Tasks \ {held[w]} : task'[u] = task[u]
    BY <1>1, <1>8 DEF CancelRetry, MessageType
  <2>3. QuietHandle(w, "canceled")
    BY <1>1, <1>2, <1>8, <2>1, <2>2 DEF CancelRetry, QuietHandle, queueVars
  <2> QED BY <2>1, <2>3, QuietHandleStep
<1>9. CASE Retry(w)
  <2>1. Owns(w) /\ task[held[w]].retries > 0 /\ held[w] \in Tasks
    BY <1>9, OwnsFacts DEF Retry, IInv, Bookkeeping, WorkerState
  <2>2. /\ task' \in [Tasks -> MessageType]
        /\ \A u \in Tasks \ {held[w]} : task'[u] = task[u]
    BY <1>1, <1>9, <2>1 DEF Retry, MessageType
  <2>3. QuietHandle(w, "retrying")
    BY <1>1, <1>2, <1>9, <2>1, <2>2 DEF Retry, QuietHandle, budgets, queueVars
  <2> QED BY <2>1, <2>3, QuietHandleStep
<1>10. ASSUME NEW keep \in BOOLEAN, Cancel(w, keep) PROVE IInv'
  <2>1. Owns(w) /\ held[w] \in Tasks
    BY <1>10, OwnsFacts, OwnerFacts DEF Cancel
  <2>2. (IF keep THEN task[held[w]].retries ELSE 0) \in Nat
    BY <1>1, <2>1 DEF MessageType
  <2>3. /\ task' \in [Tasks -> MessageType]
        /\ \A u \in Tasks \ {held[w]} : task'[u] = task[u]
    BY <1>1, <1>10, <2>2 DEF Cancel, MessageType
  <2>4. QuietHandle(w, "canceled")
    BY <1>1, <1>2, <1>10, <2>1, <2>3 DEF Cancel, QuietHandle, budgets, queueVars
  <2> QED BY <2>1, <2>4, QuietHandleStep
<1>11. CASE RecordInterrupted(w)
  <2>1. QuietHandle(w, "interrupted")
    BY <1>1, <1>2, <1>11 DEF RecordInterrupted, QuietHandle, budgets, queueVars
  <2> QED BY <1>11, <2>1, QuietHandleStep DEF RecordInterrupted
<1> QED BY <1>3, <1>4, <1>5, <1>6, <1>7, <1>8, <1>9, <1>10, <1>11

\* Steps of worker w that touch no row and store nothing but keys.
LEMMA KeySteps ==
  ASSUME IInv, NEW w \in Workers,
         Accept(w) \/ ListPending(w) \/ ListScheduled(w) \/ RevokeListed(w)
  PROVE  IInv'
<1>1. Owns(w) /\ held[w] \in Tasks
  BY OwnsFacts, OwnerFacts DEF Accept, ListPending, ListScheduled, RevokeListed
<1>2. PICK next \in {"list", "start", "listed", "listedAll"} :
        pc' = [pc EXCEPT ![w] = next]
  BY DEF Accept, ListPending, ListScheduled, RevokeListed
<1>3. /\ UNCHANGED <<now, task, queue, schedule, moving, submitting, held, handler,
                     row, interrupts, forced, fate>>
  BY DEF Accept, ListPending, ListScheduled, RevokeListed, queueVars, budgets
<1>4. revoked' \subseteq Tasks /\ found' \in [Workers -> SUBSET Tasks]
  <2>1. \A b, S : Duplicates(b, S) \subseteq S
    BY DEF Duplicates
  <2>2. ToSet(queue) \subseteq Tasks /\ schedule \subseteq Tasks
    BY ElementOfSeq, LenProperties DEF IInv, TypeOK, ToSet
  <2>3. /\ Duplicates(held[w], ToSet(queue)) \subseteq Tasks
        /\ Duplicates(held[w], schedule) \subseteq Tasks
    BY <2>1, <2>2
  <2> QED BY <2>3 DEF IInv, TypeOK, Accept, ListPending, ListScheduled, RevokeListed,
                  queueVars
<1>5. TypeOK'
  BY <1>2, <1>3, <1>4 DEF IInv, TypeOK, PCs
<1>6. Quiet
  <2>1. \A v \in Workers : Owns(v)' => Owns(v)
    BY <1>1, <1>2, <1>3 DEF Owns, IInv, TypeOK
  <2> QED BY <1>3, <2>1 DEF Quiet
<1>7. \A v \in Workers : WorkerState(v)'
  <2>1. WorkerState(w)'
    BY <1>1, <1>2, <1>3 DEF IInv, TypeOK, Bookkeeping, WorkerState, Accept,
       ListPending, ListScheduled, RevokeListed
  <2> QED BY <1>2, <1>3, <2>1, OtherWorkers DEF IInv, TypeOK, Bookkeeping
<1> QED BY <1>5, <1>6, <1>7, QuietStep DEF IInv, Bookkeeping

\* A worker takes a task off the queue.
LEMMA DequeueStep ==
  ASSUME IInv, NEW w \in Workers, Dequeue(w)
  PROVE  IInv'
<1>1. PICK i \in DOMAIN queue :
        /\ held' = [held EXCEPT ![w] = queue[i]]
        /\ queue' = RemoveAt(queue, i)
  BY DEF Dequeue
<1> DEFINE t == queue[i]
<1>2. /\ queue' \in Seq(Tasks) /\ t \in Tasks
      /\ ToSet(queue') \subseteq ToSet(queue)
      /\ Distinct(queue) => Distinct(queue') /\ t \notin ToSet(queue')
  BY <1>1, RemoveAtFacts DEF IInv, TypeOK
<1>3. Distinct(queue) /\ t \in ToSet(queue)
  BY <1>1 DEF IInv, OneCopy, Distinct, ToSet
<1>4. t \notin schedule \cup moving \cup submitting
  BY <1>3 DEF IInv, OneCopy, Waiting
<1> HIDE DEF t
<1>5. TypeOK'
  BY <1>1, <1>2 DEF IInv, TypeOK, Dequeue, PCs, budgets, t
<1>6. /\ held'[w] = t /\ pc'[w] = "examine"
      /\ \A v \in Workers \ {w} : held'[v] = held[v] /\ pc'[v] = pc[v]
      /\ handler' = handler
  BY <1>1 DEF IInv, TypeOK, Dequeue, t
<1>7. \A v \in Workers \ {w} : Owns(v)' => Owns(v) /\ held[v] # t
  BY <1>3, <1>6 DEF IInv, OneCopy, Waiting, Owns
<1>8. OneCopy'
  <2>1. Waiting' \subseteq Waiting /\ t \notin Waiting' \cup submitting'
    BY <1>2, <1>3, <1>4 DEF Waiting, Dequeue
  <2>2. /\ \A j, k \in DOMAIN queue' : queue'[j] = queue'[k] => j = k
        /\ ToSet(queue') \cap schedule' = {}
        /\ (ToSet(queue') \cup schedule') \cap moving' = {}
        /\ Waiting' \cap submitting' = {}
    BY <1>2, <1>3, <2>1 DEF IInv, OneCopy, Distinct, Dequeue
  <2>3. ASSUME NEW v \in Workers, Owns(v)'
        PROVE  held'[v] \notin Waiting' \cup submitting'
    <3>1. CASE v = w
      BY <1>6, <2>1, <3>1
    <3>2. CASE v # w
      BY <1>6, <1>7, <2>1, <2>3, <3>2 DEF IInv, OneCopy, Dequeue
    <3> QED BY <3>1, <3>2
  <2>4. ASSUME NEW u \in Workers, NEW v \in Workers,
               Owns(u)', Owns(v)', held'[u] = held'[v]
        PROVE  u = v
    <3>1. CASE u # w /\ v # w
      BY <1>6, <1>7, <2>4, <3>1 DEF IInv, OneCopy
    <3>2. CASE u = w \/ v = w
      BY <1>6, <1>7, <2>4, <3>2
    <3> QED BY <3>1, <3>2
  <2> QED BY <2>2, <2>3, <2>4 DEF OneCopy
<1>9. UnusedNowhere'
  <2>1. fate[t] # "unused"
    BY <1>2, <1>3 DEF IInv, Bookkeeping, UnusedNowhere, Waiting
  <2> QED BY <1>2, <1>6, <2>1
      DEF IInv, Bookkeeping, UnusedNowhere, Waiting, Dequeue
<1>10. \A v \in Workers : WorkerState(v)'
  <2>1. WorkerState(w)'
    BY <1>2, <1>6 DEF IInv, Bookkeeping, WorkerState, Dequeue
  <2> QED BY <1>6, <2>1, OtherWorkers DEF IInv, Bookkeeping, Dequeue
<1> QED BY <1>5, <1>8, <1>9, <1>10 DEF IInv, Bookkeeping

\* A worker gives its task back to the schedule.
LEMMA ScheduleSteps ==
  ASSUME IInv, NEW w \in Workers, Postpone(w) \/ RequeueLater(w)
  PROVE  IInv'
<1> DEFINE t == held[w]
<1>1. Owns(w)
  BY OwnsFacts DEF Postpone, RequeueLater
<1>2. /\ t \in Tasks /\ fate[t] # "unused"
      /\ t \notin ToSet(queue) \cup schedule \cup moving \cup submitting
      /\ \A v \in Workers \ {w} : Owns(v) => held[v] # t
      /\ \A v \in Workers \ {w} : pc[v] = "retry" => held[v] \in Tasks /\ held[v] # t
  BY <1>1, OwnerFacts
<1>3. /\ task' \in [Tasks -> MessageType]
      /\ \A u \in Tasks \ {t} : task'[u] = task[u]
  <2>1. CASE Postpone(w)
    BY <2>1 DEF Postpone, IInv, TypeOK
  <2>2. CASE RequeueLater(w)
    <3>1. Later(task[t].kind.retryDelay) \in Nat
      BY <1>2, KindFacts, LaterFacts DEF IInv, TypeOK, MessageType
    <3>2. task \in [Tasks -> MessageType] /\ t \in Tasks
      BY <1>2 DEF IInv, TypeOK
    <3>3. task' = [task EXCEPT ![t].eta = Later(task[t].kind.retryDelay)]
      BY <2>2 DEF RequeueLater
    <3>4. [task[t] EXCEPT !.eta = Later(task[t].kind.retryDelay)] \in MessageType
      BY <3>1, <3>2 DEF MessageType
    <3> HIDE DEF t
    <3> QED BY <3>2, <3>3, <3>4
  <2> QED BY <2>1, <2>2
<1>4. Handle(w, "scheduled") /\ "scheduled" \in Signals
  BY DEF Postpone, RequeueLater, Signals
<1>5. /\ row' \in [Tasks -> RowType]
      /\ handler' \in [Workers -> HandlerType]
      /\ pc' \in [Workers -> PCs]
      /\ pc'[w] = "saving" /\ handler'[w].signal = "scheduled"
      /\ \A v \in Workers \ {w} : pc'[v] = pc[v] /\ handler'[v] = handler[v]
  BY <1>2, <1>3, <1>4, HandleFacts DEF IInv
<1>6. TypeOK'
  BY <1>2, <1>3, <1>5 DEF IInv, TypeOK, Postpone, RequeueLater, budgets
<1>7. Stored(t)
  <2>1. \A v \in Workers : Owns(v)' => Owns(v) /\ v # w
    BY <1>5 DEF Owns
  <2> QED BY <1>2, <2>1 DEF Stored, Postpone, RequeueLater
<1>8. \A v \in Workers : WorkerState(v)'
  <2>1. WorkerState(w)'
    BY <1>2, <1>5 DEF WorkerState, Postpone, RequeueLater
  <2> QED BY <1>2, <1>3, <1>5, <2>1, OtherWorkers
      DEF IInv, Bookkeeping, Postpone, RequeueLater
<1> HIDE DEF t
<1> QED BY <1>2, <1>6, <1>7, <1>8, StoredStep DEF IInv, Bookkeeping

\* A worker gives its task back to the queue.
LEMMA RequeueSteps ==
  ASSUME IInv, NEW w \in Workers, RequeueNow(w) \/ Interrupt(w)
  PROVE  IInv'
<1> DEFINE t == held[w]
<1>1. Owns(w) /\ Enqueue(t)
  BY OwnsFacts DEF RequeueNow, Interrupt
<1>2. /\ t \in Tasks /\ fate[t] # "unused"
      /\ t \notin ToSet(queue) \cup schedule \cup moving \cup submitting
      /\ \A v \in Workers \ {w} : Owns(v) => held[v] # t
      /\ \A v \in Workers \ {w} : pc[v] = "retry" => held[v] \in Tasks /\ held[v] # t
  BY <1>1, OwnerFacts
<1>3. /\ task' \in [Tasks -> MessageType]
      /\ \A u \in Tasks : task'[u].retries = task[u].retries
      /\ row' \in [Tasks -> RowType]
      /\ queue' \in Seq(Tasks)
      /\ ToSet(queue') = ToSet(queue) \cup {t}
      /\ Distinct(queue) /\ t \notin ToSet(queue) => Distinct(queue')
  BY <1>1, <1>2, EnqueueFacts DEF IInv
<1>4. Distinct(queue)
  BY DEF IInv, OneCopy, Distinct
<1>5. /\ pc' \in [Workers -> PCs] /\ pc'[w] \in {"idle", "interrupted"}
      /\ held' \in [Workers -> Tasks \cup {NoTask}]
      /\ found' \in [Workers -> SUBSET Tasks]
      /\ handler' \in [Workers -> HandlerType] /\ handler'[w].signal = "none"
      /\ held'[w] \in {held[w], NoTask}
      /\ pc'[w] = "interrupted" => held'[w] = held[w]
      /\ \A v \in Workers \ {w} :
           pc'[v] = pc[v] /\ held'[v] = held[v] /\ handler'[v] = handler[v]
  <2>1. CASE RequeueNow(w)
    BY <2>1, ReleaseFacts DEF RequeueNow, IInv
  <2>2. CASE Interrupt(w)
    BY <2>2 DEF Interrupt, IInv, TypeOK, Bookkeeping, WorkerState, PCs
  <2> QED BY <2>1, <2>2
<1>6. TypeOK'
  BY <1>3, <1>5 DEF IInv, TypeOK, RequeueNow, Interrupt, budgets
<1>7. Stored(t)
  <2>1. \A v \in Workers : Owns(v)' => Owns(v) /\ v # w
    BY <1>5 DEF Owns
  <2> QED BY <1>2, <1>3, <1>4, <1>5, <2>1 DEF Stored, RequeueNow, Interrupt
<1>8. \A v \in Workers : WorkerState(v)'
  <2>1. WorkerState(w)'
    BY <1>2, <1>5 DEF WorkerState
  <2> QED BY <1>2, <1>3, <1>5, <2>1, OtherWorkers DEF IInv, Bookkeeping
<1> HIDE DEF t
<1> QED BY <1>2, <1>6, <1>7, <1>8, StoredStep DEF IInv, Bookkeeping

\* A handler saves its row, and the worker goes on with its task or lets go.
LEMMA SaveStep ==
  ASSUME IInv, NEW w \in Workers, Save(w)
  PROVE  IInv'
<1> DEFINE t == held[w]
           signal == handler[w].signal
           mayRetry == signal \in {"error", "canceled", "locked"} /\ task[t].retries > 0
           next == CASE signal = "executing" -> "running"
                     [] signal = "retrying"  -> "requeue"
                     [] mayRetry             -> "retry"
                     [] OTHER                -> "idle"
<1>1. /\ pc[w] = "saving" /\ t \in Tasks
      /\ row' = [row EXCEPT ![t] = handler[w].row]
      /\ pc' = [pc EXCEPT ![w] = next]
      /\ held' = [held EXCEPT ![w] = IF next = "idle" THEN NoTask ELSE t]
      /\ handler' = [handler EXCEPT ![w] = NoHandler]
      /\ UNCHANGED <<now, task, queue, schedule, moving, submitting, revoked,
                     found, interrupts, forced, fate>>
  BY DEF Save, IInv, Bookkeeping, WorkerState, queueVars, budgets
<1>2. /\ next \in {"running", "requeue", "retry", "idle"}
      /\ next # "idle" => signal \notin {"scheduled", "interrupted"}
      /\ next = "retry" => task[t].retries > 0
  OBVIOUS
<1>3. handler[w].row \in RowType /\ NoHandler.signal = "none"
  BY DEF IInv, TypeOK, HandlerType, NoHandler
<1>4. Owns(w) \/ signal \in {"scheduled", "interrupted"}
  BY <1>1 DEF Owns
<1> HIDE DEF next, mayRetry
<1>5. TypeOK'
  BY <1>1, <1>2, <1>3, NoHandlerType DEF IInv, TypeOK, PCs
<1>6. Quiet
  <2>1. \A v \in Workers : held'[v] \in {held[v], NoTask}
    BY <1>1 DEF IInv, TypeOK
  <2>2. Owns(w)' => Owns(w) /\ held'[w] = held[w]
    BY <1>1, <1>2, <1>4 DEF IInv, TypeOK, Owns
  <2>3. \A v \in Workers \ {w} : Owns(v)' => Owns(v) /\ held'[v] = held[v]
    BY <1>1 DEF IInv, TypeOK, Owns
  <2> QED BY <1>1, <2>1, <2>2, <2>3 DEF Quiet
<1>7. \A v \in Workers : WorkerState(v)'
  <2>1. WorkerState(w)'
    BY <1>1, <1>2, <1>3 DEF IInv, TypeOK, WorkerState
  <2> QED BY <1>1, <2>1, OtherWorkers DEF IInv, TypeOK, Bookkeeping
<1> QED BY <1>5, <1>6, <1>7, QuietStep DEF IInv, Bookkeeping

\* A killed worker forgets its task.
LEMMA KillStep ==
  ASSUME IInv, NEW w \in Workers, Kill(w)
  PROVE  IInv'
<1>1. /\ pc' \in [Workers -> PCs]
      /\ held' \in [Workers -> Tasks \cup {NoTask}]
      /\ found' \in [Workers -> SUBSET Tasks]
      /\ handler' \in [Workers -> HandlerType]
      /\ pc'[w] = "idle" /\ held'[w] = NoTask /\ handler'[w].signal = "none"
      /\ \A v \in Workers \ {w} :
           pc'[v] = pc[v] /\ held'[v] = held[v] /\ handler'[v] = handler[v]
  BY ReleaseFacts DEF Kill, IInv
<1>2. TypeOK'
  BY <1>1 DEF IInv, TypeOK, Kill, queueVars, budgets, Ended
<1>3. Quiet
  <2>1. \A t \in Tasks : fate'[t] = "unused" => fate[t] = "unused"
    BY DEF Kill, IInv, TypeOK
  <2>2. \A v \in Workers : Owns(v)' => Owns(v) /\ held'[v] = held[v]
    BY <1>1 DEF Owns
  <2> QED BY <1>1, <2>1, <2>2 DEF Quiet, Kill, queueVars
<1>4. \A v \in Workers : WorkerState(v)'
  <2>1. WorkerState(w)'
    BY <1>1 DEF WorkerState
  <2> QED BY <1>1, <2>1, OtherWorkers DEF IInv, Bookkeeping, Kill
<1> QED BY <1>2, <1>3, <1>4, QuietStep DEF IInv, Bookkeeping

\* Every step of the queue keeps the invariant.
LEMMA NextIInv == IInv /\ [Next]_vars => IInv'
<1> SUFFICES ASSUME IInv, [Next]_vars PROVE IInv'
  OBVIOUS
<1>1. CASE Tick \/ SchedulerLost \/ ReadSchedule
  BY <1>1, StorageSteps
<1>2. ASSUME NEW t \in Tasks, MoveToQueue(t) PROVE IInv'
  BY <1>2, StoringSteps
<1>3. ASSUME NEW t \in Tasks, Submit(t) PROVE IInv'
  BY <1>3, StorageSteps, StoringSteps DEF Submit
<1>4. ASSUME NEW w \in Workers, Work(w) PROVE IInv'
  BY <1>4, DequeueStep, ScheduleSteps, SignalSteps, KeySteps, SaveStep, RequeueSteps
  DEF Work
<1>5. ASSUME NEW w \in Workers, Interrupt(w) \/ Kill(w) PROVE IInv'
  BY <1>5, RequeueSteps, KillStep
<1>6. CASE UNCHANGED vars
  <2>1. /\ UNCHANGED <<now, task, queue, schedule, moving, submitting, revoked>>
        /\ UNCHANGED <<pc, held, found, handler, row, interrupts, forced, fate>>
    BY <1>6 DEF vars, queueVars, workerVars, budgets
  <2>2. TypeOK'
    BY <2>1 DEF IInv, TypeOK
  <2>3. Quiet
    BY <2>1 DEF Quiet, Owns
  <2>4. \A w \in Workers : WorkerState(w)'
    BY <2>1 DEF IInv, Bookkeeping, WorkerState
  <2> QED BY <2>2, <2>3, <2>4, QuietStep DEF IInv, Bookkeeping
<1> QED BY <1>1, <1>2, <1>3, <1>4, <1>5, <1>6 DEF Next, Scheduler

----------------------------------------------------------------------------
(* The theorems *)

\* The inductive invariant holds in every reachable state.
THEOREM Invariance == Spec => []IInv
BY InitIInv, NextIInv, PTL DEF Spec

\* Every variable keeps its type: above all, no row, key or retry counter ever
\* leaves its range.  This needs OneCopy: a task's retries are only counted
\* down by the one worker that has it.
THEOREM TypeCorrect == Spec => []TypeOK
<1>1. IInv => TypeOK
  BY DEF IInv
<1> QED BY <1>1, Invariance, PTL

\* No interleaving of the scheduler, the workers, retries, interruptions and
\* crashes ever makes a second copy of a task.
THEOREM NoSecondCopy == Spec => []OneCopy
<1>1. IInv => OneCopy
  BY DEF IInv
<1> QED BY <1>1, Invariance, PTL

----------------------------------------------------------------------------
(* One worker *)

\* workers = 1, as sqlite_tasks sets it for the limited queue.
OneWorker == \A v, w \in Workers : v = w

----------------------------------------------------------------------------
(* The rows the handlers make *)

\* The status column of the row that historical_task reads and computes.
LEMMA StatusFacts ==
  ASSUME NEW r \in RowType, NEW signal, NEW eta
  PROVE  /\ Opened(r).status = IF r.status = "absent" THEN "new" ELSE r.status
         /\ Recorded(r, signal, eta).status =
              IF signal = "executing" THEN "running"
              ELSE IF r.status = "new" THEN "new" ELSE "moved"
<1>1. NewRow(now, FALSE).status = "new"
  BY DEF NewRow, NoRow
<1>2. Opened(r).status = IF r.status = "absent" THEN "new" ELSE r.status
  BY <1>1 DEF Opened
<1>3. "status" \in DOMAIN r
  BY DEF RowType
<1>4. Recorded(r, signal, eta).status =
        IF signal = "executing" THEN "running"
        ELSE IF r.status = "new" THEN "new" ELSE "moved"
  <2> DEFINE status == IF signal = "executing" THEN "running"
                       ELSE IF r.status = "new" THEN "new" ELSE "moved"
             attempts == IF signal = "executing" THEN r.attempts + 1 ELSE r.attempts
             failed == r.failed \/ signal = "error"
             at == IF signal \in {"enqueued", "scheduled"} THEN eta ELSE r.scheduledAt
  <2>1. Recorded(r, signal, eta) =
          [r EXCEPT !.status = status, !.attempts = attempts, !.failed = failed,
                    !.scheduledAt = at, !.endAt = now]
    BY DEF Recorded
  <2> HIDE DEF attempts, failed, at
  <2> QED BY <1>3, <2>1
<1> QED BY <1>2, <1>4

\* A handler leaves a row that has a status as it is until it saves.
LEMMA HandledStatus ==
  ASSUME TypeOK, NEW w \in Workers, held[w] \in Tasks, NEW signal \in Signals,
         task' \in [Tasks -> MessageType], Handle(w, signal),
         row[held[w]].status \in {"new", "moved", "running"}
  PROVE  /\ row'[held[w]].status = row[held[w]].status
         /\ \A u \in Tasks \ {held[w]} : row'[u] = row[u]
         /\ handler'[w].signal = signal /\ pc'[w] = "saving"
         /\ handler'[w].row.status =
              IF signal = "executing" THEN "running"
              ELSE IF row[held[w]].status = "new" THEN "new" ELSE "moved"
<1> DEFINE t == held[w]
           r == Opened(row[t])
<1>1. row[t] \in RowType /\ row \in [Tasks -> RowType] /\ now \in Nat
  BY DEF TypeOK
<1>2. r.status = row[t].status
  BY <1>1, StatusFacts
<1>3. r \in RowType
  BY <1>1, RowFacts
<1>4. row' = [row EXCEPT ![t] = r]
  BY DEF Handle
<1>5. handler'[w] = [signal |-> signal,
                     row |-> Recorded(r, signal, task'[t].eta)]
      /\ pc'[w] = "saving"
  BY DEF Handle, TypeOK
<1> HIDE DEF r
<1>6. Recorded(r, signal, task'[t].eta).status =
        IF signal = "executing" THEN "running"
        ELSE IF row[t].status = "new" THEN "new" ELSE "moved"
  BY <1>2, <1>3, StatusFacts
<1> QED BY <1>1, <1>2, <1>4, <1>5, <1>6

\* Storing a task keeps what its row says of a run that is over.
LEMMA EnqueuedStatus ==
  ASSUME TypeOK, NEW t \in Tasks, Enqueue(t),
         row[t].status \in {"new", "moved", "running"}
  PROVE  /\ row'[t].status = IF row[t].status = "new" THEN "new" ELSE "moved"
         /\ \A u \in Tasks \ {t} : row'[u] = row[u]
         /\ \A u \in Tasks : /\ task'[u].kind = task[u].kind
                             /\ task'[u].retries = task[u].retries
<1> DEFINE r == Opened(row[t])
<1>1. row[t] \in RowType /\ row \in [Tasks -> RowType] /\ now \in Nat
  BY DEF TypeOK
<1>2. r.status = row[t].status
  BY <1>1, StatusFacts
<1>3. r \in RowType
  <2>1. "enqueued" \in Signals
    BY DEF Signals
  <2> QED BY <1>1, <2>1, RowFacts
<1>4. row' = [row EXCEPT ![t] = Recorded(r, "enqueued", task[t].eta)]
  BY DEF Enqueue
<1> HIDE DEF r
<1>5. Recorded(r, "enqueued", task[t].eta).status =
        IF row[t].status = "new" THEN "new" ELSE "moved"
  BY <1>2, <1>3, StatusFacts
<1>6. \A u \in Tasks : /\ task'[u].kind = task[u].kind
                       /\ task'[u].retries = task[u].retries
  BY DEF Enqueue, TypeOK, MessageType
<1> QED BY <1>1, <1>4, <1>5, <1>6

\* A task keeps its kind when it is given other retries or another eta.
LEMMA KindStays ==
  ASSUME TypeOK, NEW t \in Tasks,
         \/ task' = task
         \/ \E n : task' = [task EXCEPT ![t].retries = n]
         \/ \E n : task' = [task EXCEPT ![t].eta = n]
  PROVE  \A u \in Tasks : task'[u].kind = task[u].kind
<1>1. /\ task \in [Tasks -> MessageType]
      /\ DOMAIN task[t] = {"kind", "retries", "eta", "deadline"}
  BY DEF TypeOK, MessageType
<1>2. ASSUME NEW n, task' = [task EXCEPT ![t].retries = n]
      PROVE  \A u \in Tasks : task'[u].kind = task[u].kind
  BY <1>1, <1>2
<1>3. ASSUME NEW n, task' = [task EXCEPT ![t].eta = n]
      PROVE  \A u \in Tasks : task'[u].kind = task[u].kind
  BY <1>1, <1>3
<1> QED BY <1>2, <1>3

----------------------------------------------------------------------------
(* The steps that no worker takes *)

\* The clock, scheduling calls and the scheduler thread: a task appears, goes
\* on waiting or is lost, and what rows, keys and workers say stays.
Background ==
  /\ UNCHANGED <<workerVars, revoked>>
  /\ \A t \in Tasks : fate[t] = "unused" /\ fate'[t] # "unused" =>
       fate'[t] = "live" /\ t \in submitting' /\ row'[t].status = "new"
  /\ \A t \in Tasks : fate'[t] = "unused" => row'[t] = row[t]
  /\ \A t \in Tasks : fate[t] # "unused" =>
       /\ row'[t].status = row[t].status
       /\ task'[t].kind = task[t].kind /\ task'[t].retries = task[t].retries
       /\ \/ fate'[t] = fate[t]
          \/ fate'[t] = "lost" /\ t \in Waiting \cup submitting
       /\ t \in Waiting => t \in Waiting' \/ fate'[t] = "lost"
       /\ t \in submitting => t \in Waiting' \cup submitting' \/ fate'[t] = "lost"
       /\ t \in Waiting' \cup submitting' =>
            t \in Waiting \cup submitting /\ fate'[t] = fate[t]

\* The background steps are background steps.
LEMMA BackgroundSteps ==
  ASSUME IInv, Living, RowsFollow,
         \/ Tick \/ ReadSchedule \/ SchedulerLost \/ UNCHANGED vars
         \/ \E t \in Tasks : MoveToQueue(t) \/ Submit(t)
  PROVE  Background
<1> USE DEF queueVars, workerVars, budgets
<1>1. CASE Tick \/ UNCHANGED vars
  BY <1>1 DEF Background, Tick, vars, Waiting, IInv, Bookkeeping, UnusedNowhere
<1>2. CASE ReadSchedule
  <2>1. moving = {} /\ schedule' \cup moving' = schedule /\ queue' = queue
    BY <1>2 DEF ReadSchedule
  <2>2. Waiting' = Waiting
    BY <2>1 DEF Waiting
  <2> QED BY <1>2, <2>2
      DEF Background, ReadSchedule, IInv, Bookkeeping, UnusedNowhere
<1>3. CASE SchedulerLost
  <2>1. \A t \in Tasks : fate'[t] = IF t \in moving THEN "lost" ELSE fate[t]
    BY <1>3 DEF SchedulerLost
  <2>2. Waiting' = ToSet(queue) \cup schedule /\ Waiting = Waiting' \cup moving
    BY <1>3 DEF SchedulerLost, Waiting
  <2>3. moving \cap (ToSet(queue) \cup schedule) = {} /\ moving \cap submitting = {}
    BY DEF IInv, OneCopy, Waiting
  <2>4. \A t \in moving : fate[t] = "live"
    BY <2>2 DEF Living
  <2> QED BY <1>3, <2>1, <2>2, <2>3, <2>4 DEF Background, SchedulerLost
<1>4. ASSUME NEW t \in Tasks, MoveToQueue(t) \/ SubmitTask(t) PROVE Background
  <2>1. Enqueue(t) /\ t \in moving \cup submitting
    BY <1>4 DEF MoveToQueue, SubmitTask
  <2>2. row[t].status \in {"new", "moved"} /\ fate[t] = "live"
    BY <2>1 DEF Living, RowsFollow, Halted, Waiting
  <2>3. /\ row'[t].status = row[t].status
        /\ \A u \in Tasks \ {t} : row'[u] = row[u]
        /\ \A u \in Tasks : /\ task'[u].kind = task[u].kind
                            /\ task'[u].retries = task[u].retries
    BY <2>1, <2>2, EnqueuedStatus DEF IInv
  <2>4. ToSet(queue') = ToSet(queue) \cup {t}
    BY <2>1, EnqueueFacts DEF IInv
  <2>5. CASE MoveToQueue(t)
    <3>1. Waiting' = Waiting
      BY <2>4, <2>5 DEF MoveToQueue, Waiting
    <3> QED BY <2>2, <2>3, <2>5, <3>1 DEF Background, MoveToQueue
  <2>6. CASE SubmitTask(t)
    <3>1. Waiting' = Waiting \cup {t}
      BY <2>4, <2>6 DEF SubmitTask, Waiting
    <3> QED BY <2>2, <2>3, <2>6, <3>1 DEF Background, SubmitTask
  <2> QED BY <1>4, <2>5, <2>6
<1>5. ASSUME NEW t \in Tasks, SubmitLost(t) PROVE Background
  <2>1. Waiting' = Waiting /\ t \notin Waiting /\ t \in submitting
    BY <1>5 DEF SubmitLost, Waiting, IInv, OneCopy
  <2>2. fate[t] = "live" /\ fate' = [fate EXCEPT ![t] = "lost"]
    BY <1>5, <2>1 DEF Living, SubmitLost
  <2>3. \A u \in Tasks : fate'[u] = IF u = t THEN "lost" ELSE fate[u]
    BY <2>2 DEF IInv, TypeOK
  <2> QED BY <1>5, <2>1, <2>2, <2>3 DEF Background, SubmitLost
<1>6. ASSUME NEW t \in Tasks, NEW k \in Kinds, SubmitRow(t, k) PROVE Background
  <2>1. /\ fate[t] = "unused" /\ t \in submitting'
        /\ \A u \in Tasks : fate'[u] = IF u = t THEN "live" ELSE fate[u]
        /\ \A u \in Tasks \ {t} : row'[u] = row[u] /\ task'[u] = task[u]
        /\ row'[t] = NewRow(Later(k.delay), k.dedup)
    BY <1>6 DEF SubmitRow, IInv, TypeOK
  <2>2. row'[t].status = "new"
    BY <2>1 DEF NewRow, NoRow
  <2>3. Waiting' = Waiting /\ submitting' = submitting \cup {t}
    BY <1>6 DEF SubmitRow, Waiting
  <2> QED BY <1>6, <2>1, <2>2, <2>3 DEF Background, SubmitRow
<1> QED BY <1>1, <1>2, <1>3, <1>4, <1>5, <1>6 DEF Submit

\* They keep the invariant.
LEMMA BackgroundKeeps ==
  ASSUME IInv, IInv', OneWorkerInv, Background
  PROVE  OneWorkerInv'
<1>1. /\ pc' = pc /\ held' = held /\ found' = found /\ handler' = handler
      /\ revoked' = revoked
      /\ \A w \in Workers : Owns(w)' <=> Owns(w)
  BY DEF Background, workerVars, Owns
<1>2. \A w \in Workers : pc[w] # "idle" =>
        held[w] \in Tasks /\ fate[held[w]] # "unused"
  BY DEF IInv, Bookkeeping, UnusedNowhere, WorkerState
<1>3. \A w \in Workers :
        /\ Owns(w) => held[w] \notin Waiting \cup submitting
        /\ pc[w] # "saving" => handler[w].signal = "none"
  BY DEF IInv, OneCopy, Bookkeeping, WorkerState
<1>4. ASSUME NEW t \in Tasks, fate[t] # "unused"
      PROVE  /\ row'[t].status = row[t].status
             /\ task'[t].kind = task[t].kind /\ task'[t].retries = task[t].retries
             /\ t \notin Waiting \cup submitting => fate'[t] = fate[t]
             /\ fate'[t] \in {fate[t], "lost"}
             /\ t \in Waiting => t \in Waiting' \/ fate'[t] = "lost"
             /\ t \in submitting => t \in Waiting' \cup submitting' \/ fate'[t] = "lost"
  BY <1>4 DEF Background
<1>5. ASSUME NEW t \in Tasks, t \in Waiting' \cup submitting'
      PROVE  fate'[t] = "live" /\ row'[t].status \in Halted
  <2>1. fate'[t] # "unused"
    BY <1>5 DEF IInv, Bookkeeping, UnusedNowhere
  <2>2. CASE fate[t] = "unused"
    BY <2>1, <2>2 DEF Background, Halted
  <2>3. CASE fate[t] # "unused"
    BY <1>5, <2>3 DEF Background, OneWorkerInv, Living, RowsFollow
  <2> QED BY <2>2, <2>3
<1>6. Waiting' \cup submitting' \subseteq Tasks
  BY ElementOfSeq, LenProperties DEF IInv, TypeOK, Waiting, ToSet
<1>7. ASSUME NEW w \in Workers PROVE LivingAt(w)' /\ RowsAt(w)'
  <2>1. LivingAt(w) /\ RowsAt(w)
    BY DEF OneWorkerInv, Living, RowsFollow
  <2>2. CASE pc[w] = "idle"
    BY <1>1, <1>3, <2>2 DEF LivingAt, LiveAt, RowsAt
  <2>3. CASE pc[w] # "idle"
    <3>1. held[w] \in Tasks /\ fate[held[w]] # "unused"
      BY <1>2, <2>3
    <3>2. LivingAt(w)'
      BY <1>1, <1>3, <1>4, <2>1, <2>3, <3>1 DEF LivingAt, LiveAt, Owns
    <3>3. RowsAt(w)'
      BY <1>1, <1>4, <2>1, <3>1 DEF RowsAt
    <3> QED BY <3>2, <3>3
  <2> QED BY <2>2, <2>3
<1>8. ASSUME NEW t \in Tasks PROVE RowTrue(t)'
  <2>1. RowTrue(t)
    BY DEF OneWorkerInv, RowTruth
  <2>2. CASE fate[t] = "unused" /\ fate'[t] = "unused"
    <3>1. row'[t] = row[t] /\ t \notin Waiting \cup submitting
      BY <2>2 DEF Background, IInv, Bookkeeping, UnusedNowhere
    <3> QED BY <1>1, <2>1, <2>2, <3>1 DEF RowTrue
  <2>3. CASE fate[t] = "unused" /\ fate'[t] # "unused"
    BY <2>3 DEF Background, RowTrue
  <2>4. CASE fate[t] # "unused"
    <3>1. \A w \in Workers : Owns(w) /\ held[w] = t => t \notin Waiting \cup submitting
      BY <1>3
    <3> QED BY <1>1, <1>4, <2>1, <2>4, <3>1 DEF RowTrue
  <2> QED BY <2>2, <2>3, <2>4
<1>9. ASSUME NEW w \in Workers PROVE FoundAt(w)'
  <2>1. FoundAt(w) /\ found[w] \subseteq Tasks
    BY DEF OneWorkerInv, KeysFollow, IInv, TypeOK
  <2>2. CASE found[w] = {}
    BY <1>1, <2>2 DEF FoundAt
  <2>3. ASSUME NEW a \in found[w]
        PROVE  /\ a # held[w] /\ task'[a].kind.call = task'[held[w]].kind.call
               /\ fate'[a] # "unused"
               /\ fate'[a] = "live" => a \in Waiting'
    <3>1. pc[w] # "idle" /\ a \in Tasks /\ fate[a] # "unused"
      BY <2>1 DEF FoundAt
    <3>2. held[w] \in Tasks /\ fate[held[w]] # "unused"
      BY <1>2, <3>1
    <3>3. fate'[a] # "unused" /\ (fate'[a] = "live" => fate[a] = "live")
      BY <1>4, <3>1
    <3> QED BY <1>4, <2>1, <3>1, <3>2, <3>3 DEF FoundAt
  <2> QED BY <1>1, <2>1, <2>3 DEF FoundAt
<1>10. ASSUME NEW t \in Tasks
       PROVE  /\ t \in revoked' => fate'[t] # "unused"
              /\ t \in revoked' \/ fate'[t] = "revoked" =>
                   \E u \in Tasks : Spared(u)' /\ task'[u].kind.call = task'[t].kind.call
  <2>1. /\ t \in revoked => fate[t] # "unused"
        /\ t \in revoked \/ fate[t] = "revoked" =>
             \E u \in Tasks : Spared(u) /\ task[u].kind.call = task[t].kind.call
    BY DEF OneWorkerInv, KeysFollow
  <2>2. t \in revoked' => fate'[t] # "unused"
    BY <1>1, <1>4, <2>1
  <2>3. ASSUME t \in revoked' \/ fate'[t] = "revoked"
        PROVE  \E u \in Tasks : Spared(u)' /\ task'[u].kind.call = task'[t].kind.call
    <3>1. fate[t] # "unused" /\ (t \in revoked \/ fate[t] = "revoked")
      BY <1>1, <1>4, <2>1, <2>3 DEF Background
    <3>2. PICK u \in Tasks : Spared(u) /\ task[u].kind.call = task[t].kind.call
      BY <2>1, <3>1
    <3>3. fate[u] # "unused" /\ Spared(u)'
      BY <1>1, <1>4, <3>2 DEF Spared
    <3> QED BY <1>4, <3>1, <3>2, <3>3
  <2> QED BY <2>2, <2>3
<1>11. NoStaleKey'
  <2> SUFFICES ASSUME NEW t \in revoked', fate'[t] = "live"
               PROVE  t \in Waiting' \/ \E w \in Workers : pc'[w] = "examine" /\ held'[w] = t
    BY DEF NoStaleKey
  <2>1. t \in Tasks /\ t \in revoked /\ fate[t] # "unused"
    BY <1>1 DEF IInv, TypeOK, OneWorkerInv, KeysFollow
  <2>2. fate[t] = "live"
    BY <1>4, <2>1
  <2> QED BY <1>1, <1>4, <2>1, <2>2 DEF OneWorkerInv, NoStaleKey
<1>12. Living' /\ RowsFollow'
  BY <1>5, <1>6, <1>7 DEF Living, RowsFollow
<1>13. RowTruth' /\ KeysFollow'
  BY <1>8, <1>9, <1>10 DEF RowTruth, KeysFollow
<1> QED BY <1>11, <1>12, <1>13 DEF OneWorkerInv

----------------------------------------------------------------------------
(* The steps of the worker *)

\* A step of worker w with task t, the only one it has: other tasks are left
\* where they are, and no task changes its kind.
Busy(w, t) ==
  /\ held[w] = t \/ pc[w] = "idle"
  /\ submitting' = submitting
  /\ \A u \in Tasks \ {t} :
       fate'[u] = fate[u] /\ row'[u] = row[u] /\ (u \in Waiting' <=> u \in Waiting)
  /\ \A u \in Tasks : task'[u].kind = task[u].kind

\* What such a step has to show about its own task only.
LEMMA RowsKept ==
  ASSUME OneWorker, IInv, IInv', OneWorkerInv, NEW w \in Workers, NEW t \in Tasks,
         Busy(w, t), LivingAt(w)', RowsAt(w)', RowTrue(t)',
         t \in Waiting' \cup submitting' =>
           fate'[t] = "live" /\ row'[t].status \in Halted
  PROVE  Living' /\ RowsFollow' /\ RowTruth'
<1>1. Waiting' \cup submitting' \subseteq Tasks
  BY ElementOfSeq, LenProperties DEF IInv, TypeOK, Waiting, ToSet
<1>2. ASSUME NEW u \in Waiting' \cup submitting'
      PROVE  fate'[u] = "live" /\ row'[u].status \in Halted
  <2>1. CASE u = t
    BY <2>1
  <2>2. CASE u # t
    BY <1>1, <2>2 DEF Busy, OneWorkerInv, Living, RowsFollow
  <2> QED BY <2>1, <2>2
<1>3. \A v \in Workers : v = w
  BY DEF OneWorker
<1>4. ASSUME NEW u \in Tasks PROVE RowTrue(u)'
  <2>1. CASE u = t
    BY <2>1
  <2>2. CASE u # t
    <3>1. \A v \in Workers : ~(Owns(v) /\ held[v] = u)
      BY <1>3, <2>2 DEF Busy, Owns
    <3> QED BY <2>2, <3>1 DEF RowTrue, Busy, OneWorkerInv, RowTruth
  <2> QED BY <2>1, <2>2
<1> QED BY <1>2, <1>3, <1>4 DEF Living, RowsFollow, RowTruth

\* A step that writes no key and uses none up.
LEMMA KeysKept ==
  ASSUME OneWorker, IInv, IInv', OneWorkerInv, NEW w \in Workers, NEW t \in Tasks,
         Busy(w, t), revoked' = revoked, found'[w] = {},
         fate[t] # "unused", fate'[t] # "unused",
         fate'[t] \in {"live", "revoked"} => fate[t] = fate'[t],
         t \in revoked /\ fate'[t] = "live" =>
           t \in Waiting' \/ (pc'[w] = "examine" /\ held'[w] = t)
  PROVE  KeysFollow' /\ NoStaleKey'
<1>1. \A v \in Workers : v = w
  BY DEF OneWorker
<1>2. \A u \in Tasks : Spared(u) => Spared(u)'
  <2>1. ASSUME Spared(t) PROVE Spared(t)'
    BY <2>1 DEF Spared
  <2>2. ASSUME NEW u \in Tasks \ {t}, Spared(u) PROVE Spared(u)'
    BY <2>2 DEF Spared, Busy
  <2> QED BY <2>1, <2>2
<1>3. ASSUME NEW u \in Tasks
      PROVE  /\ u \in revoked' => fate'[u] # "unused"
             /\ u \in revoked' \/ fate'[u] = "revoked" =>
                  \E x \in Tasks : Spared(x)' /\ task'[x].kind.call = task'[u].kind.call
  <2>1. /\ u \in revoked => fate[u] # "unused"
        /\ u \in revoked \/ fate[u] = "revoked" =>
             \E x \in Tasks : Spared(x) /\ task[x].kind.call = task[u].kind.call
    BY DEF OneWorkerInv, KeysFollow
  <2>2. /\ u \in revoked' => fate'[u] # "unused"
        /\ u \in revoked' \/ fate'[u] = "revoked" => u \in revoked \/ fate[u] = "revoked"
    BY <2>1 DEF Busy
  <2> QED BY <1>2, <2>1, <2>2 DEF Busy
<1>4. NoStaleKey'
  <2> SUFFICES ASSUME NEW u \in revoked', fate'[u] = "live"
               PROVE  u \in Waiting' \/ \E v \in Workers : pc'[v] = "examine" /\ held'[v] = u
    BY DEF NoStaleKey
  <2>1. u \in Tasks
    BY DEF IInv, TypeOK
  <2>2. CASE u = t
    BY <2>2
  <2>3. CASE u # t
    <3>1. \A v \in Workers : ~(pc[v] = "examine" /\ held[v] = u)
      BY <1>1, <2>3 DEF Busy
    <3>2. u \in Waiting
      BY <2>1, <2>3, <3>1 DEF Busy, OneWorkerInv, NoStaleKey
    <3> QED BY <2>1, <2>3, <3>2 DEF Busy
  <2> QED BY <2>2, <2>3
<1> QED BY <1>1, <1>3, <1>4 DEF KeysFollow, FoundAt

\* What a worker that is not idle knows of its task.
LEMMA HeldFacts ==
  ASSUME OneWorker, IInv, OneWorkerInv, NEW w \in Workers, pc[w] # "idle"
  PROVE  /\ held[w] \in Tasks /\ fate[held[w]] # "unused"
         /\ LivingAt(w) /\ RowsAt(w) /\ FoundAt(w)
         /\ Owns(w) => held[w] \notin Waiting
         /\ pc[w] # "saving" => handler[w].signal = "none"
         /\ held[w] \notin submitting
         /\ pc[w] # "examine" /\ Owns(w) /\ fate[held[w]] = "live" =>
              held[w] \notin revoked
<1>1. /\ held[w] \in Tasks /\ fate[held[w]] # "unused"
      /\ pc[w] # "saving" => handler[w].signal = "none"
  BY DEF IInv, Bookkeeping, UnusedNowhere, WorkerState
<1>2. LivingAt(w) /\ RowsAt(w) /\ FoundAt(w)
  BY DEF OneWorkerInv, Living, RowsFollow, KeysFollow
<1>3. /\ Owns(w) => held[w] \notin Waiting \cup submitting
      /\ Waiting \cap submitting = {}
  BY DEF IInv, OneCopy
<1>4. held[w] \notin submitting
  <2>1. CASE Owns(w)
    BY <1>3, <2>1
  <2>2. CASE ~Owns(w)
    <3>1. held[w] \in Waiting \/ fate[held[w]] = "lost"
      BY <1>2, <2>2 DEF Owns, LivingAt, LiveAt
    <3> QED BY <1>3, <3>1 DEF OneWorkerInv, Living
  <2> QED BY <2>1, <2>2
<1>5. ASSUME pc[w] # "examine", Owns(w), fate[held[w]] = "live"
      PROVE  held[w] \notin revoked
  BY <1>3, <1>5 DEF OneWorker, OneWorkerInv, NoStaleKey
<1> QED BY <1>1, <1>2, <1>3, <1>4, <1>5

\* A worker opens historical_task for a signal that stores nothing.
LEMMA SignalKeeps ==
  ASSUME OneWorker, IInv, IInv', OneWorkerInv, NEW w \in Workers, NEW signal,
         pc[w] # "idle", Handle(w, signal),
         UNCHANGED <<queue, schedule, moving, submitting, held, found>>,
         \A u \in Tasks \ {held[w]} : fate'[u] = fate[u],
         \A u \in Tasks : task'[u].kind = task[u].kind,
         \/ signal = "executing" /\ pc[w] = "start" /\ fate' = fate
         \/ signal \in {"revoked", "expired"} /\ pc[w] = "examine" /\ fate'[held[w]] = signal
         \/ signal = "complete" /\ pc[w] = "running" /\ fate'[held[w]] = signal
         \/ /\ signal \in {"error", "canceled", "locked"} /\ pc[w] = "running"
            /\ task'[held[w]].retries > 0 => fate'[held[w]] = fate[held[w]]
            /\ fate'[held[w]] \notin {"unused", "revoked"}
         \/ signal = "retrying" /\ pc[w] = "retry" /\ fate' = fate
         \/ signal = "interrupted" /\ pc[w] = "interrupted" /\ fate' = fate
  PROVE  /\ Living' /\ RowsFollow' /\ RowTruth'
         /\ signal # "revoked" /\ revoked' = revoked => KeysFollow' /\ NoStaleKey'
<1>0. PICK t \in Tasks : t = held[w]
  BY HeldFacts
<1>1. /\ fate[t] # "unused" /\ t \notin submitting
      /\ LivingAt(w) /\ RowsAt(w) /\ FoundAt(w)
      /\ Owns(w) => t \notin Waiting
      /\ pc[w] # "saving" => handler[w].signal = "none"
      /\ pc[w] # "examine" /\ Owns(w) /\ fate[t] = "live" => t \notin revoked
  BY <1>0, HeldFacts
<1>2. /\ signal \in Signals \ {"none", "enqueued", "scheduled"}
      /\ pc[w] \in {"start", "examine", "running", "retry", "interrupted"}
  BY DEF Signals
<1>3. row[t].status \in {"new", "moved", "running"}
  BY <1>0, <1>1, <1>2 DEF RowsAt, Halted
<1>4. /\ row'[t].status = row[t].status
      /\ \A u \in Tasks \ {t} : row'[u] = row[u]
      /\ handler'[w].signal = signal /\ pc'[w] = "saving"
      /\ handler'[w].row.status =
           IF signal = "executing" THEN "running"
           ELSE IF row[t].status = "new" THEN "new" ELSE "moved"
  BY <1>0, <1>1, <1>2, <1>3, HandledStatus DEF IInv, TypeOK
<1>5. Waiting' = Waiting
  BY DEF Waiting
<1>6. held'[w] = t
  BY <1>0
<1>7. Busy(w, t)
  BY <1>0, <1>4, <1>5 DEF Busy
<1>8. signal # "interrupted" => Owns(w) /\ Owns(w)'
  BY <1>1, <1>2, <1>4 DEF Owns
<1>9. LivingAt(w)'
  BY <1>0, <1>1, <1>2, <1>4, <1>5, <1>6 DEF LivingAt, LiveAt
<1>10. RowsAt(w)'
  BY <1>0, <1>1, <1>2, <1>4, <1>6 DEF RowsAt, Halted
<1>11. signal = "interrupted" =>
         row'[t].status = "moved" /\ fate' = fate
  BY <1>0, <1>1, <1>4 DEF RowsAt
<1>12. RowTrue(t)'
  BY <1>6, <1>8, <1>11 DEF RowTrue
<1>13. t \in Waiting' \cup submitting' =>
         fate'[t] = "live" /\ row'[t].status \in Halted
  <2>1. t \in Waiting' \cup submitting' => signal = "interrupted" /\ t \in Waiting
    BY <1>0, <1>1, <1>5, <1>8
  <2> QED BY <1>11, <2>1 DEF OneWorkerInv, Living, Halted
<1>14. ASSUME signal # "revoked", revoked' = revoked PROVE KeysFollow' /\ NoStaleKey'
  <2>1. found'[w] = {}
    BY <1>1, <1>2 DEF FoundAt
  <2>2. fate'[t] # "unused" /\ (fate'[t] \in {"live", "revoked"} => fate[t] = fate'[t])
    BY <1>0, <1>1, <1>2, <1>14 DEF LivingAt, LiveAt
  <2>3. t \in revoked /\ fate'[t] = "live" =>
         t \in Waiting' \/ (pc'[w] = "examine" /\ held'[w] = t)
    BY <1>0, <1>1, <1>2, <1>5, <2>2 DEF Owns, LivingAt, LiveAt
  <2>4. revoked' = revoked /\ fate[t] # "unused" /\ fate'[t] # "unused"
    BY <1>1, <1>14, <2>2
  <2>5. fate'[t] \in {"live", "revoked"} => fate[t] = fate'[t]
    BY <2>2
  <2> QED BY <1>7, <2>1, <2>3, <2>4, <2>5, KeysKept
<1> QED BY <1>1, <1>7, <1>9, <1>10, <1>12, <1>13, <1>14, RowsKept

\* The ends of a body, a retry and the skipped runs, but for the key that a
\* skipped run uses up.
LEMMA SignalStepsKeep ==
  ASSUME OneWorker, IInv, IInv', OneWorkerInv, NEW w \in Workers,
         \/ SkipExpired(w) \/ Start(w) \/ Complete(w) \/ Fail(w) \/ CancelRetry(w)
         \/ \E keepRetries \in BOOLEAN : Cancel(w, keepRetries)
         \/ Retry(w) \/ RecordInterrupted(w)
  PROVE  OneWorkerInv'
<1> USE DEF queueVars, workerVars, budgets
<1>0. pc[w] # "idle"
  BY DEF SkipExpired, Start, Complete, Fail, CancelRetry, Cancel, Retry, RecordInterrupted
<1>1. /\ held[w] \in Tasks /\ LivingAt(w)
      /\ pc[w] # "saving" => handler[w].signal = "none"
  BY <1>0, HeldFacts
<1>2. /\ fate \in [Tasks -> Ended \cup {"unused", "live"}]
      /\ task \in [Tasks -> MessageType]
  BY DEF IInv, TypeOK
<1>3. \A u \in Tasks : task[u].kind \in Kinds /\ task[u].retries \in Nat
  BY <1>2 DEF MessageType
<1>4. revoked' = revoked /\ UNCHANGED <<queue, schedule, moving, submitting, held, found>>
  BY DEF SkipExpired, Start, Complete, Fail, CancelRetry, Cancel, Retry, RecordInterrupted
<1>5. /\ \A u \in Tasks \ {held[w]} : fate'[u] = fate[u]
      /\ \A u \in Tasks : task'[u].kind = task[u].kind
  <2>1. \A u \in Tasks \ {held[w]} : fate'[u] = fate[u]
    BY <1>1, <1>2
    DEF SkipExpired, Start, Complete, Fail, CancelRetry, Cancel, Retry, RecordInterrupted
  <2>2. task' = task \/ \E n : task' = [task EXCEPT ![held[w]].retries = n]
    BY DEF SkipExpired, Start, Complete, Fail, CancelRetry, Cancel, Retry, RecordInterrupted
  <2> QED BY <1>1, <2>1, <2>2, KindStays DEF IInv
<1>6. CASE SkipExpired(w)
  <2>1. Handle(w, "expired") /\ pc[w] = "examine" /\ fate'[held[w]] = "expired"
    BY <1>1, <1>2, <1>6 DEF SkipExpired
  <2> QED BY <1>0, <1>4, <1>5, <2>1, SignalKeeps DEF OneWorkerInv
<1>7. CASE Start(w)
  <2>1. Handle(w, "executing") /\ pc[w] = "start" /\ fate' = fate
    BY <1>7 DEF Start
  <2> QED BY <1>0, <1>4, <1>5, <2>1, SignalKeeps DEF OneWorkerInv
<1>8. CASE Complete(w)
  <2>1. Handle(w, "complete") /\ pc[w] = "running" /\ fate'[held[w]] = "complete"
    BY <1>1, <1>2, <1>8 DEF Complete
  <2> QED BY <1>0, <1>4, <1>5, <2>1, SignalKeeps DEF OneWorkerInv
<1>9. CASE Fail(w)
  <2>1. PICK signal \in {"error", "locked"} : Handle(w, signal)
    BY <1>9 DEF Fail
  <2>2. pc[w] = "running" /\ fate[held[w]] = "live"
    BY <1>1, <1>9 DEF Fail, LivingAt, LiveAt
  <2>3. /\ task'[held[w]].retries > 0 => fate'[held[w]] = fate[held[w]]
        /\ fate'[held[w]] \notin {"unused", "revoked"}
    BY <1>1, <1>2, <1>9, <2>2 DEF Fail
  <2> QED BY <1>0, <1>4, <1>5, <2>1, <2>2, <2>3, SignalKeeps DEF OneWorkerInv
<1>10. CASE CancelRetry(w)
  <2>1. Handle(w, "canceled") /\ pc[w] = "running" /\ fate' = fate /\ fate[held[w]] = "live"
    BY <1>1, <1>10 DEF CancelRetry, LivingAt, LiveAt
  <2> QED BY <1>0, <1>4, <1>5, <2>1, SignalKeeps DEF OneWorkerInv
<1>11. ASSUME NEW keep \in BOOLEAN, Cancel(w, keep) PROVE OneWorkerInv'
  <2>1. Handle(w, "canceled") /\ pc[w] = "running" /\ fate[held[w]] = "live"
    BY <1>1, <1>11 DEF Cancel, LivingAt, LiveAt
  <2>2. /\ task'[held[w]].retries > 0 => fate'[held[w]] = fate[held[w]]
        /\ fate'[held[w]] \notin {"unused", "revoked"}
    <3> DEFINE left == IF keep THEN task[held[w]].retries ELSE 0
    <3>1. task' = [task EXCEPT ![held[w]].retries = left]
          /\ fate' = [fate EXCEPT ![held[w]] = IF left > 0 THEN @ ELSE "canceled"]
      BY <1>11 DEF Cancel
    <3> HIDE DEF left
    <3>2. task'[held[w]].retries = left
      BY <1>1, <1>2, <3>1 DEF MessageType
    <3> QED BY <1>1, <1>2, <2>1, <3>1, <3>2
  <2> QED BY <1>0, <1>4, <1>5, <2>1, <2>2, SignalKeeps DEF OneWorkerInv
<1>12. CASE Retry(w)
  <2>1. Handle(w, "retrying") /\ pc[w] = "retry" /\ fate' = fate
    BY <1>12 DEF Retry
  <2> QED BY <1>0, <1>4, <1>5, <2>1, SignalKeeps DEF OneWorkerInv
<1>13. CASE RecordInterrupted(w)
  <2>1. Handle(w, "interrupted") /\ pc[w] = "interrupted" /\ fate' = fate
    BY <1>13 DEF RecordInterrupted
  <2> QED BY <1>0, <1>4, <1>5, <2>1, SignalKeeps DEF OneWorkerInv
<1> QED BY <1>6, <1>7, <1>8, <1>9, <1>10, <1>11, <1>12, <1>13

\* A run that is skipped for its key uses the key up.
LEMMA SkipRevokedKeeps ==
  ASSUME OneWorker, IInv, IInv', OneWorkerInv, NEW w \in Workers, SkipRevoked(w)
  PROVE  OneWorkerInv'
<1> USE DEF queueVars, workerVars, budgets
<1>1. PICK t \in Tasks : t = held[w]
  BY HeldFacts DEF SkipRevoked
<1>2. /\ pc[w] = "examine" /\ t \in revoked /\ revoked' = revoked \ {t}
      /\ Handle(w, "revoked") /\ task' = task
      /\ UNCHANGED <<queue, schedule, moving, submitting, held, found>>
      /\ \A u \in Tasks : fate'[u] = IF u = t THEN "revoked" ELSE fate[u]
  BY <1>1 DEF SkipRevoked, IInv, TypeOK
<1>3. Living' /\ RowsFollow' /\ RowTruth'
  BY <1>1, <1>2, SignalKeeps
<1>4. fate[t] = "live" /\ FoundAt(w)
  BY <1>1, <1>2, HeldFacts DEF LivingAt, LiveAt
<1>5. \A u \in Tasks : Spared(u) => u # t /\ Spared(u)'
  BY <1>2, <1>4 DEF Spared
<1>6. KeysFollow'
  <2>1. \A v \in Workers : FoundAt(v)'
    <3>1. found'[w] = {}
      BY <1>2, <1>4 DEF FoundAt
    <3> QED BY <3>1 DEF FoundAt, OneWorker
  <2>2. ASSUME NEW u \in Tasks
        PROVE  /\ u \in revoked' => fate'[u] # "unused"
               /\ u \in revoked' \/ fate'[u] = "revoked" =>
                    \E x \in Tasks : Spared(x)' /\ task'[x].kind.call = task'[u].kind.call
    <3>1. /\ u \in revoked => fate[u] # "unused"
          /\ u \in revoked \/ fate[u] = "revoked" =>
               \E x \in Tasks : Spared(x) /\ task[x].kind.call = task[u].kind.call
      BY DEF OneWorkerInv, KeysFollow
    <3>2. u \in revoked' \/ fate'[u] = "revoked" => u \in revoked \/ fate[u] = "revoked"
      BY <1>2
    <3> QED BY <1>2, <1>5, <3>1, <3>2
  <2> QED BY <2>1, <2>2 DEF KeysFollow
<1>7. NoStaleKey'
  <2> SUFFICES ASSUME NEW u \in revoked', fate'[u] = "live" PROVE u \in Waiting'
    BY DEF NoStaleKey
  <2>1. u \in Tasks /\ u # t /\ u \in revoked /\ fate[u] = "live"
    BY <1>2 DEF IInv, TypeOK
  <2>2. u \in Waiting
    BY <1>1, <2>1 DEF OneWorkerInv, NoStaleKey, OneWorker
  <2> QED BY <1>2, <2>2 DEF Waiting
<1> QED BY <1>3, <1>6, <1>7 DEF OneWorkerInv

\* The worker takes a task, and finds it as it waited.
LEMMA DequeueKeeps ==
  ASSUME OneWorker, IInv, IInv', OneWorkerInv, NEW w \in Workers, Dequeue(w)
  PROVE  OneWorkerInv'
<1> USE DEF queueVars, workerVars, budgets
<1>1. PICK i \in DOMAIN queue :
        /\ held' = [held EXCEPT ![w] = queue[i]]
        /\ queue' = RemoveAt(queue, i)
  BY DEF Dequeue
<1>2. queue[i] \in Tasks /\ queue[i] \in ToSet(queue)
  BY <1>1, RemoveAtFacts DEF IInv, TypeOK, ToSet
<1>3. PICK t \in Tasks : t = queue[i]
  BY <1>2
<1>4. ToSet(queue') = ToSet(queue) \ {t} /\ t \in ToSet(queue)
  <2>1. Distinct(queue)
    BY DEF IInv, OneCopy, Distinct
  <2> QED BY <1>1, <1>2, <1>3, <2>1, RemoveAtFacts DEF IInv, TypeOK
<1>5. t \notin schedule \cup moving \cup submitting
  BY <1>4 DEF IInv, OneCopy, Waiting
<1>6. Waiting' = Waiting \ {t} /\ t \in Waiting
  BY <1>4, <1>5 DEF Waiting, Dequeue
<1>7. /\ pc[w] = "idle" /\ pc'[w] = "examine" /\ held'[w] = t
      /\ handler'[w].signal = "none"
      /\ UNCHANGED <<task, submitting, revoked, found, row, fate>>
  BY <1>1, <1>3 DEF Dequeue, IInv, TypeOK, Bookkeeping, WorkerState
<1>8. fate[t] = "live" /\ row[t].status \in Halted
  BY <1>6 DEF OneWorkerInv, Living, RowsFollow
<1>9. Busy(w, t)
  BY <1>6, <1>7 DEF Busy
<1>10. Owns(w)'
  BY <1>7 DEF Owns
<1>11. LivingAt(w)' /\ RowsAt(w)' /\ RowTrue(t)'
  BY <1>7, <1>8, <1>10 DEF LivingAt, LiveAt, RowsAt, RowTrue
<1>12. t \notin Waiting' \cup submitting'
  BY <1>5, <1>6, <1>7
<1>13. found'[w] = {}
  BY <1>7 DEF OneWorkerInv, KeysFollow, FoundAt
<1>14. Living' /\ RowsFollow' /\ RowTruth'
  BY <1>9, <1>11, <1>12, RowsKept
<1>15. KeysFollow' /\ NoStaleKey'
  BY <1>7, <1>8, <1>9, <1>13, KeysKept
<1> QED BY <1>14, <1>15 DEF OneWorkerInv

\* A worker gives its task back to the schedule, or to the queue, or lets go.
LEMMA GiveBackKeeps ==
  ASSUME OneWorker, IInv, IInv', OneWorkerInv, NEW w \in Workers,
         Postpone(w) \/ RequeueLater(w) \/ RequeueNow(w) \/ Interrupt(w)
  PROVE  OneWorkerInv'
<1> USE DEF queueVars, workerVars, budgets
<1>0. pc[w] \in {"examine", "requeue", "running"}
  BY DEF Postpone, RequeueLater, RequeueNow, Interrupt
<1>1. PICK t \in Tasks : t = held[w]
  BY <1>0, HeldFacts
<1>2. /\ fate[t] = "live" /\ t \notin submitting
      /\ row[t].status \in {"new", "moved", "running"}
      /\ pc[w] = "requeue" => row[t].status = "moved"
      /\ pc[w] = "examine" => row[t].status \in Halted
      /\ FoundAt(w)
  BY <1>0, <1>1, HeldFacts DEF LivingAt, LiveAt, RowsAt, Halted
<1>3. CASE Postpone(w) \/ RequeueLater(w)
  <2>1. /\ Handle(w, "scheduled") /\ pc[w] \in {"examine", "requeue"}
        /\ schedule' = schedule \cup {t}
        /\ UNCHANGED <<queue, moving, submitting, revoked, held, found, fate>>
    BY <1>1, <1>3 DEF Postpone, RequeueLater
  <2>2. /\ row'[t].status = row[t].status
        /\ \A u \in Tasks \ {t} : row'[u] = row[u]
        /\ handler'[w].signal = "scheduled" /\ pc'[w] = "saving"
        /\ handler'[w].row.status \in Halted
    <3>1. "scheduled" \in Signals
      BY DEF Signals
    <3> QED BY <1>1, <1>2, <2>1, <3>1, HandledStatus DEF IInv, TypeOK, Halted
  <2>3. \A u \in Tasks : task'[u].kind = task[u].kind
    <3>1. \/ task' = task
          \/ task' = [task EXCEPT ![t].eta = Later(task[t].kind.retryDelay)]
      BY <1>1, <1>3 DEF Postpone, RequeueLater
    <3> QED BY <3>1, KindStays DEF IInv
  <2>4. Waiting' = Waiting \cup {t}
    BY <2>1 DEF Waiting
  <2>5. Busy(w, t)
    BY <1>1, <2>1, <2>2, <2>3, <2>4 DEF Busy
  <2>6. row'[t].status \in Halted
    BY <1>2, <2>1, <2>2 DEF Halted
  <2>7. LivingAt(w)' /\ RowsAt(w)' /\ RowTrue(t)'
    BY <1>1, <2>1, <2>2, <2>4, <2>6 DEF LivingAt, LiveAt, RowsAt, RowTrue, Halted
  <2>8. found'[w] = {}
    BY <1>2, <2>1 DEF FoundAt
  <2>9. fate'[t] = "live" /\ t \in Waiting'
    BY <1>2, <2>1, <2>4
  <2>10. Living' /\ RowsFollow' /\ RowTruth'
    BY <2>5, <2>6, <2>7, <2>9, RowsKept
  <2>11. KeysFollow' /\ NoStaleKey'
    BY <1>2, <2>1, <2>5, <2>8, <2>9, KeysKept
  <2> QED BY <2>10, <2>11 DEF OneWorkerInv
<1>4. CASE RequeueNow(w) \/ Interrupt(w)
  <2>1. /\ Enqueue(t) /\ pc[w] \in {"requeue", "running"}
        /\ UNCHANGED <<schedule, moving, submitting, revoked, fate>>
    BY <1>1, <1>4 DEF RequeueNow, Interrupt
  <2>2. /\ row'[t].status = "moved"
        /\ \A u \in Tasks \ {t} : row'[u] = row[u]
        /\ \A u \in Tasks : task'[u].kind = task[u].kind
    BY <1>1, <1>2, <2>1, EnqueuedStatus, HeldFacts DEF IInv, RowsAt
  <2>3. /\ handler'[w].signal = "none" /\ found'[w] = {}
        /\ \/ pc'[w] = "idle"
           \/ pc'[w] = "interrupted" /\ held'[w] = t
    <3>1. CASE RequeueNow(w)
      BY <3>1 DEF RequeueNow, Release, NoHandler, IInv, TypeOK
    <3>2. CASE Interrupt(w)
      <4>1. handler[w].signal = "none"
        BY <1>0, HeldFacts
      <4> QED BY <1>1, <1>2, <3>2, <4>1 DEF Interrupt, FoundAt, IInv, TypeOK
    <3> QED BY <1>4, <3>1, <3>2
  <2>4. Waiting' = Waiting \cup {t}
    <3>1. ToSet(queue') = ToSet(queue) \cup {t}
      BY <2>1, EnqueueFacts DEF IInv
    <3> QED BY <2>1, <3>1 DEF Waiting
  <2>5. Busy(w, t)
    BY <1>1, <2>1, <2>2, <2>4 DEF Busy
  <2>6. fate'[t] = "live" /\ t \in Waiting' /\ row'[t].status \in Halted
    BY <1>2, <2>1, <2>2, <2>4 DEF Halted
  <2>7. LivingAt(w)' /\ RowsAt(w)' /\ RowTrue(t)'
    BY <2>2, <2>3, <2>6 DEF LivingAt, LiveAt, RowsAt, RowTrue
  <2>8. Living' /\ RowsFollow' /\ RowTruth'
    BY <2>5, <2>6, <2>7, RowsKept
  <2>9. KeysFollow' /\ NoStaleKey'
    BY <1>2, <2>1, <2>3, <2>5, <2>6, KeysKept
  <2> QED BY <2>8, <2>9 DEF OneWorkerInv
<1> QED BY <1>3, <1>4

\* A handler saves the row it computed.
LEMMA SaveKeeps ==
  ASSUME OneWorker, IInv, IInv', OneWorkerInv, NEW w \in Workers, Save(w)
  PROVE  OneWorkerInv'
<1> DEFINE signal == handler[w].signal
           mayRetry == signal \in {"error", "canceled", "locked"} /\ task[held[w]].retries > 0
           next == CASE signal = "executing" -> "running"
                     [] signal = "retrying"  -> "requeue"
                     [] mayRetry             -> "retry"
                     [] OTHER                -> "idle"
<1>1. PICK t \in Tasks : t = held[w]
  BY HeldFacts DEF Save
<1>2. /\ pc[w] = "saving"
      /\ row' = [row EXCEPT ![t] = handler[w].row]
      /\ pc' = [pc EXCEPT ![w] = next]
      /\ held' = [held EXCEPT ![w] = IF next = "idle" THEN NoTask ELSE t]
      /\ handler' = [handler EXCEPT ![w] = NoHandler]
      /\ UNCHANGED <<task, queue, schedule, moving, submitting, revoked, found, fate>>
  BY <1>1 DEF Save, queueVars
<1>3. /\ LivingAt(w) /\ RowsAt(w) /\ FoundAt(w)
      /\ fate[t] # "unused" /\ t \notin submitting
      /\ Owns(w) => t \notin Waiting
      /\ Owns(w) /\ fate[t] = "live" => t \notin revoked
  BY <1>1, <1>2, HeldFacts
<1>4. /\ next = "running" <=> signal = "executing"
      /\ next = "requeue" <=> signal = "retrying"
      /\ next = "retry" <=> mayRetry
      /\ next \in {"running", "requeue", "retry", "idle"}
  OBVIOUS
<1>5. /\ next # "idle" => fate[t] = "live"
      /\ next = "idle" => \/ fate[t] \in {"revoked", "expired"}
                          \/ signal = "scheduled" /\ (t \in Waiting \/ fate[t] = "lost")
                          \/ handler[w].row.status = "moved"
      /\ handler[w].row.status \in IF next = "running" THEN {"running"} ELSE Halted
      /\ next \in {"requeue", "retry"} => handler[w].row.status = "moved"
  <2>1. /\ next # "idle" => fate[t] = "live"
        /\ signal \in {"revoked", "expired"} => fate[t] \in {"revoked", "expired"}
        /\ signal = "scheduled" => t \in Waiting \/ fate[t] = "lost"
    BY <1>1, <1>2, <1>3, <1>4 DEF LivingAt, LiveAt
  <2>2. \/ signal = "executing" /\ handler[w].row.status = "running"
        \/ signal \in {"scheduled", "revoked", "expired"} /\ handler[w].row.status \in Halted
        \/ /\ signal \in {"complete", "error", "canceled", "locked", "retrying", "interrupted"}
           /\ handler[w].row.status = "moved"
    BY <1>1, <1>2, <1>3 DEF RowsAt
  <2> QED BY <1>4, <2>1, <2>2 DEF Halted
<1> HIDE DEF next, mayRetry
<1>6. /\ pc'[w] = next /\ handler'[w].signal = "none"
      /\ held'[w] = IF next = "idle" THEN NoTask ELSE t
      /\ row'[t] = handler[w].row
      /\ \A u \in Tasks \ {t} : row'[u] = row[u]
      /\ found'[w] = {}
  BY <1>2, <1>3 DEF IInv, TypeOK, NoHandler, FoundAt
<1>7. Waiting' = Waiting
  BY <1>2 DEF Waiting
<1>8. Busy(w, t)
  BY <1>1, <1>2, <1>6, <1>7 DEF Busy
<1>9. next # "idle" => Owns(w)'
  BY <1>4, <1>6 DEF Owns
<1>10. LivingAt(w)' /\ RowsAt(w)' /\ RowTrue(t)'
  <2>1. LivingAt(w)'
    BY <1>2, <1>4, <1>5, <1>6 DEF LivingAt, LiveAt
  <2>2. RowsAt(w)'
    BY <1>4, <1>5, <1>6 DEF RowsAt
  <2>3. RowTrue(t)'
    <3>1. CASE next # "idle"
      BY <1>6, <1>9, <3>1 DEF RowTrue
    <3>2. CASE next = "idle"
      BY <1>2, <1>5, <1>6, <1>7, <3>2 DEF RowTrue, Halted
    <3> QED BY <3>1, <3>2
  <2> QED BY <2>1, <2>2, <2>3
<1>11. ASSUME t \in Waiting' \cup submitting'
       PROVE  fate'[t] = "live" /\ row'[t].status \in Halted
  <2>1. t \in Waiting /\ ~Owns(w)
    BY <1>2, <1>3, <1>7, <1>11
  <2>2. signal \in {"scheduled", "interrupted"}
    BY <1>2, <2>1 DEF Owns
  <2>3. row'[t].status \in Halted
    BY <1>4, <1>5, <1>6, <2>2
  <2> QED BY <1>2, <2>1, <2>3 DEF OneWorkerInv, Living
<1>12. t \in revoked /\ fate'[t] = "live" =>
         t \in Waiting' \/ (pc'[w] = "examine" /\ held'[w] = t)
  BY <1>1, <1>2, <1>3, <1>7 DEF Owns, LivingAt, LiveAt
<1>13. Living' /\ RowsFollow' /\ RowTruth'
  BY <1>8, <1>10, <1>11, RowsKept
<1>14. KeysFollow' /\ NoStaleKey'
  BY <1>2, <1>3, <1>6, <1>8, <1>12, KeysKept
<1> QED BY <1>13, <1>14 DEF OneWorkerInv

\* A killed worker's task is lost, or had been given back.
LEMMA KillKeeps ==
  ASSUME OneWorker, IInv, IInv', OneWorkerInv, NEW w \in Workers, Kill(w)
  PROVE  OneWorkerInv'
<1> USE DEF queueVars, budgets
<1>1. PICK t \in Tasks : t = held[w]
  BY HeldFacts DEF Kill
<1>2. /\ pc[w] # "idle" /\ Release(w)
      /\ fate' = [fate EXCEPT ![t] = IF Owns(w) THEN "lost" ELSE @]
      /\ UNCHANGED <<task, queue, schedule, moving, submitting, revoked, row>>
  BY <1>1 DEF Kill
<1>3. /\ LivingAt(w) /\ RowsAt(w)
      /\ fate[t] # "unused" /\ t \notin submitting
      /\ Owns(w) => t \notin Waiting
      /\ pc[w] # "saving" => handler[w].signal = "none"
  BY <1>1, <1>2, HeldFacts
<1>4. /\ pc'[w] = "idle" /\ found'[w] = {} /\ handler'[w].signal = "none"
      /\ \A u \in Tasks : fate'[u] = IF u = t /\ Owns(w) THEN "lost" ELSE fate[u]
  BY <1>2 DEF Release, NoHandler, IInv, TypeOK
<1>5. Waiting' = Waiting
  BY <1>2 DEF Waiting
<1>6. Busy(w, t)
  BY <1>1, <1>2, <1>4, <1>5 DEF Busy
<1>7. ~Owns(w) => /\ t \in Waiting \/ fate[t] = "lost"
                  /\ row[t].status \in Halted
  BY <1>1, <1>2, <1>3 DEF Owns, LivingAt, LiveAt, RowsAt, Halted
<1>8. LivingAt(w)' /\ RowsAt(w)' /\ RowTrue(t)'
  BY <1>2, <1>4, <1>5, <1>7 DEF LivingAt, LiveAt, RowsAt, RowTrue, Halted
<1>9. ASSUME t \in Waiting' \cup submitting'
      PROVE  fate'[t] = "live" /\ row'[t].status \in Halted
  BY <1>2, <1>3, <1>4, <1>5, <1>7, <1>9 DEF OneWorkerInv, Living
<1>10. t \in revoked /\ fate'[t] = "live" =>
         t \in Waiting' \/ (pc'[w] = "examine" /\ held'[w] = t)
  BY <1>4, <1>5, <1>7
<1>11. Living' /\ RowsFollow' /\ RowTruth'
  BY <1>6, <1>8, <1>9, RowsKept
<1>12. fate'[t] # "unused" /\ (fate'[t] \in {"live", "revoked"} => fate[t] = fate'[t])
  BY <1>3, <1>4
<1>13. revoked' = revoked
  BY <1>2
<1>14. KeysFollow' /\ NoStaleKey'
  BY <1>3, <1>4, <1>6, <1>10, <1>12, <1>13, KeysKept
<1> QED BY <1>11, <1>14 DEF OneWorkerInv

\* The executing task lists its duplicates and revokes them.  It has no key
\* itself, so it is spared whatever it revokes.
LEMMA ListKeeps ==
  ASSUME OneWorker, IInv, IInv', OneWorkerInv, NEW w \in Workers,
         Accept(w) \/ ListPending(w) \/ ListScheduled(w) \/ RevokeListed(w)
  PROVE  OneWorkerInv'
<1> USE DEF queueVars, budgets
<1>0. /\ pc[w] \in {"examine", "list", "listed", "listedAll"}
      /\ UNCHANGED <<task, queue, schedule, moving, submitting, held, handler, row, fate>>
  BY DEF Accept, ListPending, ListScheduled, RevokeListed
<1>1. PICK t \in Tasks : t = held[w]
  BY <1>0, HeldFacts
<1>2. /\ Owns(w) /\ t \notin Waiting /\ t \notin submitting /\ fate[t] = "live"
      /\ LivingAt(w) /\ RowsAt(w) /\ FoundAt(w) /\ handler[w].signal = "none"
  BY <1>0, <1>1, HeldFacts DEF Owns, LivingAt, LiveAt
<1>3. t \notin revoked
  BY <1>0, <1>1, <1>2, HeldFacts DEF Accept, ListPending, ListScheduled, RevokeListed
<1>4. /\ pc'[w] \in {"list", "listed", "listedAll", "start"}
      /\ pc[w] \in {"list", "listed"} => pc'[w] \in {"listed", "listedAll"}
      /\ pc[w] \in {"examine", "listedAll"} => pc'[w] \in {"list", "start"}
  BY DEF Accept, ListPending, ListScheduled, RevokeListed, IInv, TypeOK
<1>5. Waiting' = Waiting /\ held'[w] = t
  BY <1>0, <1>1 DEF Waiting
<1>6. Busy(w, t) /\ Owns(w)'
  BY <1>0, <1>1, <1>2, <1>4, <1>5 DEF Busy, Owns
<1>7. LivingAt(w)' /\ RowsAt(w)' /\ RowTrue(t)'
  BY <1>0, <1>1, <1>2, <1>4, <1>5, <1>6 DEF LivingAt, LiveAt, RowsAt, RowTrue
<1>8. Living' /\ RowsFollow' /\ RowTruth'
  BY <1>0, <1>2, <1>5, <1>6, <1>7, RowsKept
<1>9. /\ found[w] \subseteq Tasks
      /\ revoked' \subseteq revoked \cup found[w] /\ revoked \subseteq revoked'
      /\ found'[w] \subseteq Duplicates(t, ToSet(queue) \cup schedule)
      /\ pc'[w] \in {"list", "start"} => found'[w] = {}
  BY <1>0, <1>1, <1>2
  DEF Accept, ListPending, ListScheduled, RevokeListed, IInv, TypeOK, FoundAt, Duplicates
<1>10. \A a \in found[w] :
         /\ a # t /\ task[a].kind.call = task[t].kind.call
         /\ fate[a] # "unused" /\ (fate[a] = "live" => a \in Waiting)
  BY <1>1, <1>2 DEF FoundAt
<1>11. FoundAt(w)'
  <2>1. ASSUME NEW a \in found'[w]
        PROVE  /\ a # t /\ task[a].kind.call = task[t].kind.call
               /\ a \in Waiting
    BY <1>9 DEF Duplicates, Waiting
  <2> QED BY <1>0, <1>1, <1>4, <1>5, <1>9, <2>1 DEF FoundAt, OneWorkerInv, Living
<1>12. t \notin revoked' /\ Spared(t)'
  BY <1>0, <1>2, <1>3, <1>9, <1>10 DEF Spared
<1>13. ASSUME NEW u \in Tasks
       PROVE  /\ u \in revoked' => fate'[u] # "unused"
              /\ u \in revoked' \/ fate'[u] = "revoked" =>
                   \E x \in Tasks : Spared(x)' /\ task'[x].kind.call = task'[u].kind.call
  <2>1. /\ u \in revoked => fate[u] # "unused"
        /\ u \in revoked \/ fate[u] = "revoked" =>
             \E x \in Tasks : Spared(x) /\ task[x].kind.call = task[u].kind.call
    BY DEF OneWorkerInv, KeysFollow
  <2>2. u \in revoked' => fate'[u] # "unused"
    BY <1>0, <1>9, <1>10, <2>1
  <2>3. CASE task[u].kind.call = task[t].kind.call
    BY <1>0, <1>12, <2>2, <2>3
  <2>4. ASSUME task[u].kind.call # task[t].kind.call, u \in revoked' \/ fate'[u] = "revoked"
        PROVE  \E x \in Tasks : Spared(x)' /\ task'[x].kind.call = task'[u].kind.call
    <3>1. u \in revoked \/ fate[u] = "revoked"
      BY <1>0, <1>9, <1>10, <2>4
    <3>2. PICK x \in Tasks : Spared(x) /\ task[x].kind.call = task[u].kind.call
      BY <2>1, <3>1
    <3>3. x \notin found[w]
      BY <1>10, <2>4, <3>2
    <3>4. Spared(x)'
      BY <1>0, <1>9, <3>2, <3>3 DEF Spared
    <3> QED BY <1>0, <3>2, <3>4
  <2> QED BY <2>2, <2>3, <2>4
<1>14. NoStaleKey'
  <2> SUFFICES ASSUME NEW u \in revoked', fate'[u] = "live" PROVE u \in Waiting'
    BY DEF NoStaleKey
  <2>1. CASE u \in found[w]
    BY <1>0, <1>5, <1>10, <2>1
  <2>2. CASE u \notin found[w]
    <3>1. u \in revoked /\ u # t
      BY <1>3, <1>9, <2>2
    <3> QED BY <1>0, <1>1, <1>5, <3>1 DEF OneWorkerInv, NoStaleKey, OneWorker
  <2> QED BY <2>1, <2>2
<1>15. KeysFollow'
  BY <1>11, <1>13 DEF KeysFollow, OneWorker
<1> QED BY <1>8, <1>14, <1>15 DEF OneWorkerInv

----------------------------------------------------------------------------
(* The theorems *)

\* A queue starts with nothing to be true of.
LEMMA OneWorkerInit ==
  ASSUME Init PROVE OneWorkerInv
<1>1. queue = <<>> /\ ToSet(queue) = {}
  BY DEF Init, ToSet
<1>2. Waiting = {} /\ submitting = {} /\ revoked = {}
  BY <1>1 DEF Init, Waiting
<1>3. /\ \A w \in Workers : pc[w] = "idle" /\ found[w] = {} /\ handler[w].signal = "none"
      /\ \A t \in Tasks : row[t].status = "absent" /\ fate[t] = "unused"
  BY DEF Init, NoHandler, NoRow
<1> QED BY <1>2, <1>3
    DEF OneWorkerInv, Living, LivingAt, LiveAt, RowsFollow, RowsAt, RowTruth, RowTrue,
        KeysFollow, FoundAt, NoStaleKey

\* Every step of a queue with one worker keeps the invariant.
LEMMA OneWorkerStep ==
  ASSUME OneWorker, IInv, IInv', OneWorkerInv, [Next]_vars
  PROVE  OneWorkerInv'
<1>1. CASE \/ Tick \/ ReadSchedule \/ SchedulerLost \/ UNCHANGED vars
           \/ \E t \in Tasks : MoveToQueue(t) \/ Submit(t)
  BY <1>1, BackgroundSteps, BackgroundKeeps DEF OneWorkerInv
<1>2. ASSUME NEW w \in Workers, Work(w) PROVE OneWorkerInv'
  BY <1>2, SignalStepsKeep, SkipRevokedKeeps, DequeueKeeps, GiveBackKeeps, SaveKeeps,
     ListKeeps DEF Work
<1>3. ASSUME NEW w \in Workers, Interrupt(w) \/ Kill(w) PROVE OneWorkerInv'
  BY <1>3, GiveBackKeeps, KillKeeps
<1> QED BY <1>1, <1>2, <1>3 DEF Next, Scheduler

\* The invariant of a queue with one worker holds in every reachable state.
THEOREM OneWorkerInvariance ==
  ASSUME OneWorker PROVE Spec => []OneWorkerInv
<1>1. Init => OneWorkerInv
  BY OneWorkerInit
<1>2. IInv /\ IInv' /\ OneWorkerInv /\ [Next]_vars => OneWorkerInv'
  BY OneWorkerStep
<1> QED BY <1>1, <1>2, Invariance, PTL DEF Spec

\* What a row says of its task is so, in the database of a queue with one
\* worker: nothing reads as running that no worker runs, and nothing as
\* waiting that will never start, but for the ends no handler records.
THEOREM RowsAreTrue ==
  ASSUME OneWorker PROVE Spec => []RowTruth
<1>1. OneWorkerInv => RowTruth
  BY DEF OneWorkerInv
<1> QED BY <1>1, OneWorkerInvariance, PTL

\* A body that runs is seen to run, by whoever looks at the rows.
THEOREM RunningIsShown ==
  ASSUME OneWorker PROVE Spec => []RunningShown
<1>1. OneWorkerInv => RunningShown
  BY DEF OneWorkerInv, RowsFollow, RowsAt, RunningShown
<1> QED BY <1>1, OneWorkerInvariance, PTL

\* A revoke_once key is never left behind for the next run of its task.
THEOREM KeysAreUsedUp ==
  ASSUME OneWorker PROVE Spec => []NoStaleKey
<1>1. OneWorkerInv => NoStaleKey
  BY DEF OneWorkerInv
<1> QED BY <1>1, OneWorkerInvariance, PTL

\* Of the copies of a call one is spared, however many of them start and
\* revoke the others, and however often they are retried.
THEOREM OneIsSpared ==
  ASSUME OneWorker PROVE Spec => []DedupLeavesOne
<1>1. OneWorkerInv => DedupLeavesOne
  BY DEF OneWorkerInv, KeysFollow, Spared, DedupLeavesOne
<1> QED BY <1>1, OneWorkerInvariance, PTL
=============================================================================
