---------------------------- MODULE HealthProofs ----------------------------
(***************************************************************************)
(* Proofs about Health, for any list of consumers, any life of the cache   *)
(* and any number of releases, operations and troubles: the guard acts     *)
(* once in each memory it can have, the state file and the readiness       *)
(* answer tell the truth.                                                  *)
(***************************************************************************)
EXTENDS Health, TLAPS

\* The first records of everything have their types.
LEMMA TypeFacts ==
  /\ "limited" \in Services /\ Nothing \notin StateType \cup PassType \cup ComponentsType
  /\ \A v \in Nat, a \in {"warn", "pause"} : Fresh(v, a) \in InstanceType
  /\ Started \in [Services -> ServiceType]
  /\ Idle.at = "idle" /\ Idle \notin ScriptType
BY HealthAssumption
DEF Nothing, StateType, PassType, ComponentsType, Fresh, InstanceType, Started, ServiceType,
    Idle, ScriptType

\* A spent budget is a budget.
LEMMA SpendFacts ==
  ASSUME budget \in [{"operator", "troubles"} -> Nat], NEW what \in {"operator", "troubles"},
         Spend(what)
  PROVE  budget' \in [{"operator", "troubles"} -> Nat]
BY DEF Spend

\* The container starts with everything of its type.
LEMMA InitType == Init => TypeOK
<1> SUFFICES ASSUME Init PROVE TypeOK
  OBVIOUS
<1>1. instance \in InstanceType /\ service \in [Services -> ServiceType]
  BY TypeFacts DEF Init
<1>2. budget \in [{"operator", "troubles"} -> Nat]
  BY HealthAssumption DEF Init
<1>3. hung \in [Pools -> {"never", "now", "once"}] /\ svstat \in BOOLEAN
  BY DEF Init
<1> QED BY <1>1, <1>2, <1>3 DEF Init, TypeOK

\* Releases, s6 and the operator keep the types.
LEMMA WorldTyped ==
  ASSUME TypeOK, World \/ Trouble
  PROVE  TypeOK'
<1> USE DEF TypeOK, guardVars, readyVars
<1>1. ASSUME NEW s \in Services, Supervise(s) \/ Operate(s) \/ Crash(s) PROVE TypeOK'
  <2>1. service[s] \in ServiceType
    OBVIOUS
  <2>2. CASE Supervise(s) \/ Crash(s)
    <3>1. PICK u \in BOOLEAN : service' = [service EXCEPT ![s].up = u]
      BY <2>1, <2>2 DEF Supervise, Crash, ServiceType
    <3>2. service' \in [Services -> ServiceType]
      BY <2>1, <3>1 DEF ServiceType
    <3> QED BY <2>2, <3>2, SpendFacts DEF Supervise, Crash
  <2>3. CASE Operate(s)
    <3>1. PICK w \in BOOLEAN, d \in BOOLEAN :
            service' = [service EXCEPT ![s].wanted = w, ![s].down = d, ![s].stopped = clock]
      <4>1. PICK kept \in BOOLEAN :
              service' = [service EXCEPT ![s].wanted = ~@, ![s].down = @ /\ kept,
                                         ![s].stopped = clock]
        BY <2>3 DEF Operate
      <4>2. (~service[s].wanted) \in BOOLEAN /\ (service[s].down /\ kept) \in BOOLEAN
        OBVIOUS
      <4> QED BY <4>1, <4>2
    <3>2. service' \in [Services -> ServiceType]
      BY <2>1, <3>1 DEF ServiceType
    <3> QED BY <2>3, <3>2, SpendFacts DEF Operate
  <2> QED BY <1>1, <2>2, <2>3
<1>2. CASE NewRelease \/ Tick
  BY <1>2 DEF NewRelease, Tick
<1>3. CASE Recreate
  <2>1. instance' \in InstanceType
    <3>1. instance.installed \in Nat
      BY DEF InstanceType
    <3> QED BY <1>3, <3>1, TypeFacts DEF Recreate
  <2> QED BY <1>3, <2>1, TypeFacts, SpendFacts DEF Recreate
<1>4. ASSUME NEW p \in Pools, Heal(p) \/ Returns(p) \/ Hang(p) PROVE TypeOK'
  BY <1>4, SpendFacts DEF Heal, Returns, Hang
<1>5. CASE ScriptKilled
  <2>1. instance' \in InstanceType
    BY <1>5 DEF ScriptKilled, InstanceType
  <2> QED BY <1>5, <2>1, SpendFacts DEF ScriptKilled
<1>6. CASE StopQueueFails \/ SvstatFails \/ SvstatAnswers
  BY <1>6, SpendFacts DEF StopQueueFails, SvstatFails, SvstatAnswers
<1> QED BY <1>1, <1>2, <1>3, <1>4, <1>5, <1>6 DEF World, Trouble

\* The script and stop-queue keep the types.
LEMMA ScriptTyped ==
  ASSUME TypeOK, GuardInv, Script
  PROVE  TypeOK'
<1> USE DEF TypeOK, readyVars
<1>1. ASSUME NEW memory \in Memories \cup {"own"}, LookIn(memory)
      PROVE  /\ script' \in ScriptType
             /\ UNCHANGED <<release, instance, state, stopper, readyVars, clock>>
  BY <1>1 DEF LookIn, ScriptType
<1>8. CASE Look
  <2>1. Memory \in Memories \cup {"own"}
    BY DEF Memory, Memories
  <2> QED BY <1>1, <1>8, <2>1 DEF Look
<1>9. CASE LookLate
  <2>1. service' \in [Services -> ServiceType]
    BY <1>9 DEF LookLate, ServiceType
  <2>2. budget' \in [{"operator", "troubles"} -> Nat]
    BY <1>9, SpendFacts DEF LookLate
  <2>3. "pid gone" \in Memories \cup {"own"} /\ LookIn("pid gone")
    BY <1>9 DEF LookLate, Memories
  <2> QED BY <1>1, <2>1, <2>2, <2>3
<1>2. CASE LookupEnds
  <2>1. script \in ScriptType
    BY <1>2, TypeFacts DEF LookupEnds
  <2>2. script' \in ScriptType /\ instance' \in InstanceType
    BY <1>2, <2>1 DEF LookupEnds, ScriptType, InstanceType
  <2> QED BY <1>2, <2>2 DEF LookupEnds
<1>3. CASE Mark
  <2>1. script \in ScriptType
    BY <1>3, TypeFacts DEF Mark
  <2>2. script.memory \in Memories
    BY <1>3 DEF Mark, GuardInv
  <2>3. script' \in ScriptType /\ instance' \in InstanceType
    BY <1>3, <2>1, <2>2 DEF Mark, ScriptType, InstanceType
  <2> QED BY <1>3, <2>3 DEF Mark
<1>4. CASE Act
  <2>1. script \in ScriptType
    BY <1>4, TypeFacts DEF Act
  <2>2. instance' \in InstanceType /\ stopper' \in BOOLEAN
    <3>1. script.memory \in Memories
      BY <1>4 DEF Act, GuardInv
    <3>2. [instance EXCEPT !.acts[script.memory] = @ + 1] \in InstanceType
      BY <3>1 DEF InstanceType
    <3> QED BY <1>4, <3>2 DEF Act
  <2>3. script' \in ScriptType
    BY <1>4, <2>1 DEF Act, ScriptType
  <2> QED BY <1>4, <2>2, <2>3 DEF Act
<1>5. CASE Write
  <2>1. script \in ScriptType
    BY <1>5, TypeFacts DEF Write
  <2>2. script' \in ScriptType /\ state' \in StateType \cup {Nothing}
    BY <1>5, <2>1 DEF Write, ScriptType, InstanceType, ReleaseState, StateType
  <2> QED BY <1>5, <2>2 DEF Write
<1>6. CASE End
  BY <1>6 DEF End
<1>7. CASE StopQueue
  <2>1. service["limited"] \in ServiceType
    BY TypeFacts
  <2>2. PICK d \in BOOLEAN, n \in Nat :
          service' = [service EXCEPT !["limited"].wanted = FALSE, !["limited"].down = d,
                                     !["limited"].stopped = n]
    <3>1. PICK leaves \in BOOLEAN :
       service' = [service EXCEPT !["limited"].wanted = FALSE, !["limited"].down = @ \/ leaves,
                                    !["limited"].stopped = IF service["limited"].wanted
                                                           THEN clock ELSE @]
      BY <1>7 DEF StopQueue
    <3> QED BY <2>1, <3>1 DEF ServiceType
  <2>3. service' \in [Services -> ServiceType]
    BY <2>1, <2>2 DEF ServiceType
  <2> QED BY <1>7, <2>3 DEF StopQueue
<1> QED BY <1>8, <1>9, <1>2, <1>3, <1>4, <1>5, <1>6, <1>7 DEF Script

\* A check that is done leaves the rest of the pass to do.
LEMMA DoneFacts ==
  ASSUME TypeOK, NEW what, Checked(what)
  PROVE  /\ pass \in PassType /\ Done \in PassType
         /\ pass.todo # <<>> /\ Head(pass.todo) \in what
         /\ Done = [pass EXCEPT !.todo = Tail(pass.todo)]
         /\ UNCHANGED <<guardVars, svstat, hung, cache, reply, clock>>
<1>1. pass \in PassType /\ pass.todo # <<>> /\ Head(pass.todo) \in what
  BY DEF Checked, TypeOK
<1>2. pass.todo \in Seq(Services \cup OtherNames)
  BY <1>1 DEF PassType
<1>3. Tail(pass.todo) \in Seq(Services \cup OtherNames)
  BY <1>1, <1>2
<1>4. Done \in PassType
  BY <1>1, <1>3 DEF Done, PassType
<1> QED BY <1>1, <1>4 DEF Checked, Done

\* What a pass or the cache answers is an answer.
LEMMA AnswerTyped ==
  ASSUME pass \in PassType, NEW others \in OtherChecks
  PROVE  Components(others) \in ComponentsType
<1>1. pass.database = "timed out" => "unavailable" \in StatusType
  BY DEF StatusType
<1> QED BY DEF Components, PassType, ComponentsType, StatusType

\* A new pass is one.
LEMMA NewPassFacts ==
  ASSUME clock \in Nat
  PROVE  NewPass \in PassType
<1>1. Consumers \in Seq(Services)
  BY HealthAssumption DEF Services
<1>2. /\ <<"database">> \in Seq(Services \cup OtherNames)
      /\ <<"queues", "workers", "ytDlp", "storage">> \in Seq(Services \cup OtherNames)
      /\ Consumers \in Seq(Services \cup OtherNames)
  BY <1>1 DEF OtherNames
<1>3. NewPass.todo \in Seq(Services \cup OtherNames)
  BY <1>2 DEF NewPass
<1> QED BY <1>3 DEF NewPass, PassType, StatusType, ReasonType

\* Readiness keeps the types.
LEMMA ReadyTyped ==
  ASSUME TypeOK, Ready
  PROVE  TypeOK'
<1>1. ASSUME NEW what, Checked(what), pass' \in PassType, stuck' \subseteq Pools,
             budget' \in [{"operator", "troubles"} -> Nat]
      PROVE  TypeOK'
  BY <1>1 DEF Checked, TypeOK, guardVars
<1>2. ASSUME NEW p \in Pools, LeftBehind(p) PROVE stuck' \subseteq Pools
  BY <1>2 DEF LeftBehind, TypeOK
<1>3. ASSUME NEW v \in StatusType, Done \in PassType
      PROVE  /\ [Done EXCEPT !.database = v] \in PassType
             /\ [Done EXCEPT !.storage = v] \in PassType
  BY <1>3 DEF PassType
<1>4. budget \in [{"operator", "troubles"} -> Nat] /\ stuck \subseteq Pools
  BY DEF TypeOK
<1>5. /\ {"timed out", "healthy", "low", "unavailable"} \subseteq StatusType
      /\ Pools = {"database", "storage"}
  BY DEF StatusType, Pools
<1>6. CASE CheckDatabase
  <2>1. pass' \in PassType
    BY <1>3, <1>5, <1>6, DoneFacts DEF CheckDatabase
  <2>2. budget' \in [{"operator", "troubles"} -> Nat]
    BY <1>4, <1>6, SpendFacts DEF CheckDatabase
  <2> QED BY <1>1, <1>2, <1>5, <1>6, <2>1, <2>2 DEF CheckDatabase
<1>7. CASE CheckStorage
  <2>1. pass' \in PassType
    BY <1>3, <1>5, <1>7, DoneFacts DEF CheckStorage
  <2>2. budget' \in [{"operator", "troubles"} -> Nat]
    BY <1>4, <1>7, SpendFacts DEF CheckStorage
  <2> QED BY <1>1, <1>2, <1>5, <1>7, <2>1, <2>2 DEF CheckStorage
<1>8. ASSUME NEW s \in Services, CheckQueue(s) \/ CheckFails(s) PROVE TypeOK'
  <2>1. pass' \in PassType
    <3>1. Done \in PassType
      BY <1>8, DoneFacts DEF CheckQueue, CheckFails
    <3>2. Done.paused \cup {s} \in SUBSET Services
      BY <3>1 DEF PassType
    <3>3. /\ [Done EXCEPT !.unclear = TRUE] \in PassType
          /\ [Done EXCEPT !.paused = Done.paused \cup {s}] \in PassType
          /\ [Done EXCEPT !.paused = Done.paused] \in PassType
      BY <3>1, <3>2 DEF PassType
    <3> QED BY <1>8, <3>3 DEF CheckQueue, CheckFails
  <2>2. budget' \in [{"operator", "troubles"} -> Nat]
    BY <1>4, <1>8 DEF CheckQueue, CheckFails
  <2> QED BY <1>1, <1>4, <1>8, <2>1, <2>2 DEF CheckQueue, CheckFails
<1>9. CASE CheckQueues
  <2>1. Done \in PassType
    BY <1>9, DoneFacts DEF CheckQueues
  <2>2. pass' \in PassType
    BY <1>9, <2>1 DEF CheckQueues, PassType, StatusType, ReasonType
  <2> QED BY <1>1, <1>4, <1>9, <2>2 DEF CheckQueues
<1>10. CASE CheckWorkers \/ CheckYtDlp
  <2>1. Done \in PassType
    BY <1>10, DoneFacts DEF CheckWorkers, CheckYtDlp
  <2>2. PICK more \in SUBSET StatusType : pass' = [Done EXCEPT !.others = @ \cup more]
    BY <1>10 DEF CheckWorkers, CheckYtDlp, StatusType
  <2>3. Done.others \cup more \in SUBSET StatusType
    BY <2>1 DEF PassType
  <2>4. pass' \in PassType
    BY <2>1, <2>2, <2>3 DEF PassType
  <2> QED BY <1>1, <1>4, <1>10, <2>4 DEF CheckWorkers, CheckYtDlp
<1>11. CASE Ask
  <2>1. pass' \in PassType \cup {Nothing} /\ reply' \in ComponentsType \cup {Nothing}
    <3>1. CASE CacheHolds
      <4>1. cache \in ComponentsType
        BY <3>1 DEF CacheHolds, TypeOK
      <4>2. reply' \in ComponentsType
        BY <1>11, <3>1, <4>1 DEF Ask, ComponentsType, TypeOK
      <4> QED BY <1>11, <3>1, <4>2 DEF Ask, TypeOK
    <3>2. CASE ~CacheHolds
      <4> QED BY <1>11, <3>2, NewPassFacts DEF Ask, TypeOK
    <3> QED BY <3>1, <3>2
  <2> QED BY <1>11, <2>1 DEF Ask, TypeOK, guardVars
<1>12. CASE Answer
  <2>1. pass \in PassType
    BY <1>12 DEF Answer, TypeOK
  <2>2. cache' \in ComponentsType /\ reply' \in ComponentsType
    BY <1>12, <2>1, AnswerTyped DEF Answer
  <2>3. budget' \in [{"operator", "troubles"} -> Nat]
    BY <1>4, <1>12, SpendFacts DEF Answer
  <2> QED BY <1>12, <2>2, <2>3 DEF Answer, TypeOK, guardVars
<1> QED BY <1>6, <1>7, <1>8, <1>9, <1>10, <1>11, <1>12 DEF Ready

\* Every step keeps the types.
LEMMA NextTyped == TypeOK /\ GuardInv /\ [Next]_vars => TypeOK'
<1> SUFFICES ASSUME TypeOK, GuardInv, [Next]_vars PROVE TypeOK'
  OBVIOUS
<1>1. CASE UNCHANGED vars
  BY <1>1 DEF vars, guardVars, readyVars, TypeOK
<1> QED BY <1>1, WorldTyped, ScriptTyped, ReadyTyped DEF Next

----------------------------------------------------------------------------
(* The guard *)

\* Nobody has acted at the start, in no memory.
LEMMA FreshGuard ==
  ASSUME NEW v, NEW a \in {"warn", "pause"}, instance = Fresh(v, a), state = Nothing,
         script = Idle, stopper = FALSE
  PROVE  GuardInv
BY DEF Fresh, Idle, GuardInv, MemoryInv, PausedIsAsked

\* A step that leaves the memories alone, and begins no act in one.
LEMMA MemoriesKept ==
  ASSUME GuardInv, UNCHANGED <<instance, state>>, stopper' => stopper,
         \/ script' = script
         \/ /\ script.at # "act" /\ script'.at # "act"
            /\ script'.at = "mark" => script'.memory \in Memories \ instance.marked
  PROVE  GuardInv'
<1>1. ASSUME NEW m \in Memories PROVE MemoryInv(m)'
  <2>1. MemoryInv(m)
    BY DEF GuardInv
  <2> QED BY <2>1 DEF MemoryInv
<1>2. PausedIsAsked'
  BY DEF GuardInv, PausedIsAsked
<1> QED BY <1>1, <1>2 DEF GuardInv

\* The runs of the script, and what kills them.
LEMMA GuardStep ==
  ASSUME TypeOK, GuardInv, [Next]_vars
  PROVE  GuardInv'
<1> DEFINE I == instance
           k == script.memory
<1>1. /\ I \in InstanceType /\ script \in ScriptType \cup {Idle}
      /\ state \in StateType \cup {Nothing}
  BY DEF TypeOK
<1>2. /\ \A m \in Memories : MemoryInv(m) /\ I.acts[m] \in Nat
      /\ script.at \in {"mark", "act"} => k \in Memories
      /\ stopper => I.action = "pause"
      /\ PausedIsAsked
  BY <1>1 DEF GuardInv, InstanceType
<1>3. CASE Recreate
  BY <1>3, FreshGuard DEF Recreate, Fresh, Idle, GuardInv, MemoryInv, PausedIsAsked
<1>4. ASSUME NEW memory \in Memories \cup {"own"}, LookIn(memory) PROVE GuardInv'
  <2>1. UNCHANGED <<instance, state, stopper>> /\ script.at = "idle"
    BY <1>4 DEF LookIn
  <2>2. script'.memory = memory /\ script'.at \in {"mark", "write"}
    BY <1>4 DEF LookIn
  <2>3. script'.at = "mark" => memory # "own" /\ memory \notin instance.marked
    BY <1>4 DEF LookIn, Older, Acted
  <2> QED BY <1>4, <2>1, <2>2, <2>3, MemoriesKept
<1>5. CASE Look
  <2>1. Memory \in Memories \cup {"own"}
    BY DEF Memory, Memories
  <2> QED BY <1>4, <1>5, <2>1 DEF Look
<1>6. CASE LookLate
  BY <1>4, <1>6 DEF LookLate, Memories
<1>7. CASE LookupEnds
  <2>1. script \in ScriptType
    BY <1>1, <1>7, TypeFacts DEF LookupEnds
  <2>2. script'.at = script.at /\ script'.memory = k /\ UNCHANGED <<state, stopper>>
    BY <1>7, <2>1 DEF LookupEnds, ScriptType
  <2>3. I'.action = I.action /\ I'.marked = I.marked /\ I'.acts = I.acts /\ I'.cut = I.cut
    BY <1>1, <1>7 DEF LookupEnds, InstanceType
  <2> QED BY <1>2, <2>2, <2>3 DEF GuardInv, MemoryInv, PausedIsAsked
<1>8. CASE Mark
  <2>1. script \in ScriptType /\ script.at = "mark" /\ UNCHANGED <<state, stopper>>
    BY <1>1, <1>8, TypeFacts DEF Mark
  <2>2. script'.at = "act" /\ script'.memory = k /\ k \in Memories
    BY <1>2, <1>8, <2>1 DEF Mark, ScriptType
  <2>3. /\ I'.action = I.action /\ I'.marked = I.marked \cup {k}
        /\ I'.acts = I.acts /\ I'.cut = I.cut
    BY <1>1, <1>8 DEF Mark, InstanceType
  <2>4. ASSUME NEW m \in Memories PROVE MemoryInv(m)'
    <3>1. MemoryInv(m)
      BY <1>2
    <3>2. I.acts[k] = 0
      BY <1>2, <2>1, <2>2 DEF MemoryInv
    <3> QED BY <2>1, <2>2, <2>3, <3>1, <3>2 DEF MemoryInv
  <2>5. PausedIsAsked'
    BY <1>2, <2>1, <2>3 DEF PausedIsAsked
  <2> QED BY <1>2, <2>1, <2>2, <2>3, <2>4, <2>5 DEF GuardInv
<1>9. CASE Act
  <2>1. script \in ScriptType /\ script.at = "act" /\ UNCHANGED state /\ k \in Memories
    BY <1>1, <1>2, <1>9, TypeFacts DEF Act
  <2>2. script'.at = "write" /\ script'.memory = k
    BY <1>9, <2>1 DEF Act, ScriptType
  <2>3. I'.action = I.action /\ I'.marked = I.marked /\ I'.cut = I.cut
    BY <1>1, <1>9 DEF Act, InstanceType
  <2>4. \A m \in Memories : I'.acts[m] = IF m = k THEN I.acts[m] + 1 ELSE I.acts[m]
    BY <1>1, <1>9, <2>1 DEF Act, InstanceType
  <2>5. stopper' => I'.action = "pause"
    BY <1>2, <1>9, <2>3 DEF Act
  <2>6. ASSUME NEW m \in Memories PROVE MemoryInv(m)'
    <3>1. CASE m = k
      <4>1. I.acts[m] = 0 /\ m \in I.marked
        BY <1>2, <2>1, <3>1 DEF MemoryInv
      <4>2. I'.acts[m] = 1
        BY <2>4, <3>1, <4>1
      <4> QED BY <2>2, <2>3, <4>1, <4>2 DEF MemoryInv
    <3>2. CASE m # k
      <4>1. I'.acts[m] = I.acts[m] /\ MemoryInv(m)
        BY <1>2, <2>4, <3>2
      <4> QED BY <2>1, <2>2, <2>3, <3>2, <4>1 DEF MemoryInv
    <3> QED BY <3>1, <3>2
  <2>7. PausedIsAsked'
    <3>1. \A m \in Memories : I.acts[m] > 0 => I'.acts[m] > 0
      BY <1>2, <2>4
    <3> QED BY <1>2, <2>1, <2>3, <3>1 DEF PausedIsAsked
  <2> QED BY <2>2, <2>5, <2>6, <2>7 DEF GuardInv
<1>10. CASE Write
  <2>1. script \in ScriptType /\ script.at = "write" /\ UNCHANGED <<instance, stopper>>
    BY <1>1, <1>10, TypeFacts DEF Write
  <2>2. script'.at = "end"
    BY <1>10, <2>1 DEF Write, ScriptType
  <2>3. state' = state \/ (state'.paused => I.action = "pause" /\ k \in I.marked)
    BY <1>10 DEF Write, ReleaseState
  <2>4. k \in I.marked => k \in Memories
    BY <1>1 DEF InstanceType
  <2>5. PausedIsAsked'
    <3>1. CASE state' = state
      BY <1>2, <2>1, <3>1 DEF PausedIsAsked
    <3>2. CASE state'.paused => I.action = "pause" /\ k \in I.marked
      <4>1. k \in I.marked => I.acts[k] > 0 \/ I.cut
        BY <1>2, <2>1, <2>4 DEF MemoryInv
      <4> QED BY <2>1, <2>4, <3>2, <4>1 DEF PausedIsAsked
    <3> QED BY <2>3, <3>1, <3>2
  <2>6. \A m \in Memories : MemoryInv(m)'
    BY <1>2, <2>1, <2>2 DEF MemoryInv
  <2> QED BY <1>2, <2>1, <2>2, <2>5, <2>6 DEF GuardInv
<1>11. CASE End
  <2>1. script.at = "end" /\ script'.at = "idle" /\ UNCHANGED <<instance, state, stopper>>
    BY <1>11, TypeFacts DEF End
  <2> QED BY <2>1, MemoriesKept
<1>12. CASE ScriptKilled
  <2>1. script'.at = "idle" /\ UNCHANGED <<state, stopper>>
    BY <1>12, TypeFacts DEF ScriptKilled
  <2>2. /\ I'.action = I.action /\ I'.marked = I.marked /\ I'.acts = I.acts
        /\ (I.cut \/ script.at = "act" => I'.cut)
    BY <1>1, <1>12 DEF ScriptKilled, InstanceType
  <2> QED BY <1>2, <2>1, <2>2 DEF GuardInv, MemoryInv, PausedIsAsked
<1>13. CASE Ready \/ UNCHANGED vars
  <2>1. UNCHANGED <<instance, state, script, stopper>>
    BY <1>13 DEF Ready, Ask, CheckQueues, CheckWorkers, CheckYtDlp, Answer,
     CheckDatabase, CheckStorage, CheckQueue, CheckFails, Checked, guardVars, vars
  <2> QED BY <2>1, MemoriesKept
<1>14. CASE \/ NewRelease \/ Tick \/ StopQueue \/ StopQueueFails
            \/ SvstatFails \/ SvstatAnswers
            \/ \E s \in Services : Supervise(s) \/ Operate(s) \/ Crash(s)
            \/ \E p \in Pools : Heal(p) \/ Returns(p) \/ Hang(p)
  <2>1. UNCHANGED <<instance, state, script>>
    BY <1>14 DEF NewRelease, Tick, StopQueue, StopQueueFails, SvstatFails,
     SvstatAnswers, Supervise, Operate, Crash, Heal, Returns, Hang, guardVars
  <2>2. stopper' = FALSE \/ stopper' = stopper
    BY <1>14 DEF NewRelease, Tick, StopQueue, StopQueueFails, SvstatFails,
     SvstatAnswers, Supervise, Operate, Crash, Heal, Returns, Hang, guardVars
  <2> QED BY <2>1, <2>2, MemoriesKept
<1> QED BY <1>3, <1>5, <1>6, <1>7, <1>8, <1>9, <1>10, <1>11, <1>12, <1>13, <1>14
    DEF Next, Script, World, Trouble

----------------------------------------------------------------------------
(* The checks block themselves alone *)

\* What an answer of the cache, or of the pass, says of a pool.
LEMMA ReplyFacts ==
  ASSUME TypeOK, NEW p \in Pools
  PROVE  /\ cache # Nothing => [cache EXCEPT !.asked = clock][p] = cache[p]
         /\ \A others : Components(others)[p] = pass[p]
<1>1. p \in {"database", "storage"}
  BY DEF Pools
<1>2. ASSUME cache # Nothing PROVE [cache EXCEPT !.asked = clock][p] = cache[p]
  BY <1>1, <1>2 DEF TypeOK, ComponentsType
<1>3. ASSUME NEW others PROVE Components(others)[p] = pass[p]
  <2>1. CASE p = "database"
    BY <2>1 DEF Components
  <2>2. CASE p = "storage"
    BY <2>2 DEF Components
  <2> QED BY <1>1, <2>1, <2>2
<1> QED BY <1>2, <1>3

\* A check finds a timeout, and leaves a call behind, for its own pool alone.
LEMMA ApartStep ==
  ASSUME TypeOK, ApartInv, [Next]_vars
  PROVE  ApartInv'
<1> SUFFICES ASSUME NEW p \in Pools, hung'[p] = "never"
             PROVE  /\ p \notin stuck'
                    /\ pass' # Nothing => pass'[p] # "timed out"
                    /\ cache' # Nothing => cache'[p] # "timed out"
                    /\ reply' # Nothing => reply'[p] # "timed out"
  BY DEF ApartInv
<1>1. hung[p] = "never"
  BY DEF Next, Script, Ready, World, Trouble, Look, LookLate,
     LookIn, SvstatFails, SvstatAnswers, LookupEnds, Mark, Act, Write, End, StopQueue,
     Ask, CheckQueues, CheckWorkers, CheckYtDlp, Answer, CheckDatabase, CheckStorage,
     CheckQueue, CheckFails, Checked, NewRelease, Recreate, Tick, Supervise, Operate, Heal,
     Returns, ScriptKilled, StopQueueFails, Crash, Hang, TypeOK, vars, readyVars
<1>2. /\ p \notin stuck
      /\ pass # Nothing => pass[p] # "timed out"
      /\ cache # Nothing => cache[p] # "timed out"
      /\ reply # Nothing => reply[p] # "timed out"
      /\ p \in {"database", "storage"}
  BY <1>1 DEF ApartInv, Pools
<1>3. CASE UNCHANGED <<cache, pass, reply>> /\ stuck' \subseteq stuck
  BY <1>2, <1>3
<1>4. ASSUME NEW what, Checked(what), p \notin stuck', pass'[p] # "timed out"
      PROVE  /\ p \notin stuck'
             /\ pass' # Nothing => pass'[p] # "timed out"
             /\ cache' # Nothing => cache'[p] # "timed out"
             /\ reply' # Nothing => reply'[p] # "timed out"
  BY <1>2, <1>4 DEF Checked
<1>5. ASSUME NEW q \in Pools, LeftBehind(q) PROVE p \notin stuck'
  BY <1>1, <1>2, <1>5 DEF LeftBehind
<1>6. ~TimesOut(p)
  BY <1>1, <1>2 DEF TimesOut, Executor
<1>7. ASSUME NEW what, Checked(what)
      PROVE  /\ Done \in PassType
             /\ Done[p] # "timed out"
  <2>1. pass \in PassType /\ Done = [pass EXCEPT !.todo = Tail(pass.todo)]
    BY <1>7, DoneFacts
  <2>2. pass[p] # "timed out"
    BY <1>2, <2>1, TypeFacts
  <2> QED BY <1>2, <1>7, <2>1, <2>2, DoneFacts DEF PassType
<1>8. CASE CheckDatabase
  <2>1. Done \in PassType /\ Done[p] # "timed out" /\ p \notin stuck'
    BY <1>5, <1>7, <1>8 DEF CheckDatabase, Pools
  <2>2. pass'[p] # "timed out"
    <3>1. CASE p = "database"
      BY <1>6, <1>8, <2>1, <3>1 DEF CheckDatabase, PassType
    <3>2. CASE p = "storage"
      BY <1>8, <2>1, <3>2 DEF CheckDatabase, PassType
    <3> QED BY <1>2, <3>1, <3>2
  <2> QED BY <1>4, <1>8, <2>1, <2>2 DEF CheckDatabase
<1>9. CASE CheckStorage
  <2>1. Done \in PassType /\ Done[p] # "timed out" /\ p \notin stuck'
    BY <1>5, <1>7, <1>9 DEF CheckStorage, Pools
  <2>2. pass'[p] # "timed out"
    <3>1. CASE p = "storage"
      BY <1>6, <1>9, <2>1, <3>1 DEF CheckStorage, PassType
    <3>2. CASE p = "database"
      BY <1>9, <2>1, <3>2 DEF CheckStorage, PassType
    <3> QED BY <1>2, <3>1, <3>2
  <2> QED BY <1>4, <1>9, <2>1, <2>2 DEF CheckStorage
<1>10. ASSUME \/ CheckQueues \/ CheckWorkers \/ CheckYtDlp
              \/ \E s \in Services : CheckQueue(s) \/ CheckFails(s)
       PROVE  \E what : Checked(what) /\ stuck' = stuck /\ pass'[p] # "timed out"
  <2>1. PICK what : Checked(what) /\ stuck' = stuck
    BY <1>10 DEF CheckQueues, CheckWorkers, CheckYtDlp, CheckQueue, CheckFails
  <2>2. Done \in PassType /\ Done[p] # "timed out"
    BY <1>7, <2>1
  <2>3. pass'[p] = Done[p]
    BY <1>2, <1>10, <2>2
    DEF CheckQueues, CheckWorkers, CheckYtDlp, CheckQueue, CheckFails, PassType
  <2> QED BY <2>1, <2>2, <2>3
<1>11. CASE Ask
  <2>1. CASE CacheHolds
    BY <1>2, <1>11, <2>1, ReplyFacts DEF Ask, CacheHolds
  <2>2. CASE ~CacheHolds
    <3>1. NewPass[p] = "unknown"
      <4>1. CASE p = "database"
        BY <4>1 DEF NewPass
      <4>2. CASE p = "storage"
        BY <4>2 DEF NewPass
      <4> QED BY <1>2, <4>1, <4>2
    <3> QED BY <1>2, <1>11, <2>2, <3>1 DEF Ask
  <2> QED BY <2>1, <2>2
<1>12. CASE Answer
  <2>1. PICK others : cache' = Components(others) /\ reply' = Components(others)
    BY <1>12 DEF Answer
  <2> QED BY <1>2, <1>12, <2>1, ReplyFacts DEF Answer
<1>13. CASE Recreate
  BY <1>13 DEF Recreate
<1>14. CASE Script \/ UNCHANGED vars
  BY <1>3, <1>14 DEF Script, Look, LookLate, LookIn, LookupEnds, Mark, Act, Write, End, StopQueue,
     vars, readyVars
<1>15. CASE \/ NewRelease \/ Tick \/ ScriptKilled \/ StopQueueFails
            \/ SvstatFails \/ SvstatAnswers
            \/ \E s \in Services : Supervise(s) \/ Operate(s) \/ Crash(s)
            \/ \E q \in Pools : Heal(q) \/ Returns(q) \/ Hang(q)
  BY <1>3, <1>15 DEF NewRelease, Tick, ScriptKilled, StopQueueFails, SvstatFails, SvstatAnswers,
     Supervise, Operate, Crash, Heal, Returns, Hang, readyVars
<1> QED BY <1>2, <1>4, <1>8, <1>9, <1>10, <1>11, <1>12, <1>13, <1>14, <1>15
    DEF Next, Ready, World, Trouble

----------------------------------------------------------------------------
(* A stopped queue is shown *)

\* A service that is stopped was stopped before, or is stopped now.
LEMMA ServiceStep ==
  ASSUME TypeOK, GuardInv, [Next]_vars, NEW s \in Services
  PROVE  /\ clock' \in Nat /\ clock \in Nat /\ clock <= clock'
         /\ service[s] \in ServiceType /\ service'[s] \in ServiceType
         /\ \/ /\ service'[s].stopped = service[s].stopped
               /\ ~service'[s].wanted => ~service[s].wanted
            \/ service'[s].stopped = clock
            \/ service'[s].stopped = 0 /\ service'[s].wanted
<1>1. TypeOK'
  BY NextTyped
<1>2. /\ clock' \in Nat /\ clock \in Nat
      /\ service[s] \in ServiceType /\ service'[s] \in ServiceType
  BY <1>1 DEF TypeOK
<1>3. clock' = clock \/ clock' = clock + 1
  BY DEF Next, Script, Ready, World, Trouble, Look, LookLate,
     LookIn, SvstatFails, SvstatAnswers, LookupEnds, Mark, Act, Write, End, StopQueue,
     Ask, CheckQueues, CheckWorkers, CheckYtDlp, Answer, CheckDatabase, CheckStorage,
     CheckQueue, CheckFails, Checked, NewRelease, Recreate, Tick, Supervise, Operate, Heal,
     Returns, ScriptKilled, StopQueueFails, Crash, Hang, vars
<1> DEFINE Changes ==
             \/ /\ service'[s].stopped = service[s].stopped
                /\ ~service'[s].wanted => ~service[s].wanted
             \/ service'[s].stopped = clock
             \/ service'[s].stopped = 0 /\ service'[s].wanted
<1>4. Changes
  <2>1. ASSUME NEW t \in Services, NEW u, service' = [service EXCEPT ![t].up = u] PROVE Changes
    <3>1. service'[s] = service[s] \/ service'[s] = [service[s] EXCEPT !.up = u]
      BY <2>1 DEF TypeOK
    <3>2. /\ service'[s].stopped = service[s].stopped
          /\ ~service'[s].wanted => ~service[s].wanted
      BY <1>2, <3>1 DEF ServiceType
    <3> QED BY <3>2
  <2>2. ASSUME NEW t \in Services, NEW w, NEW d, NEW n,
               service' = [service EXCEPT ![t].wanted = w, ![t].down = d, ![t].stopped = n],
               n = clock \/ (n = service[t].stopped /\ ~service[t].wanted)
        PROVE  Changes
    <3>1. CASE s = t
      <4>1. service'[s].stopped = n
        BY <1>2, <2>2, <3>1 DEF TypeOK, ServiceType
      <4> QED BY <2>2, <3>1, <4>1
    <3>2. CASE s # t
      <4>1. service'[s] = service[s]
        BY <2>2, <3>2 DEF TypeOK
      <4> QED BY <4>1
    <3> QED BY <3>1, <3>2
  <2>3. ASSUME \/ \E t \in Services : Supervise(t) \/ Crash(t) \/ Operate(t)
               \/ StopQueue \/ LookLate
        PROVE  Changes
    <3> HIDE DEF Changes
    <3>1. ASSUME NEW t \in Services, Supervise(t) \/ Crash(t) PROVE Changes
      BY <2>1, <3>1 DEF Supervise, Crash
    <3>2. ASSUME NEW t \in Services, Operate(t) PROVE Changes
      <4>1. PICK kept \in BOOLEAN :
              service' = [service EXCEPT ![t].wanted = ~@, ![t].down = @ /\ kept,
                                         ![t].stopped = clock]
        BY <3>2 DEF Operate
      <4>2. PICK w, d : service' = [service EXCEPT ![t].wanted = w, ![t].down = d,
                                                   ![t].stopped = clock]
        BY <4>1
      <4> QED BY <2>2, <4>2
    <3>3. ASSUME StopQueue PROVE Changes
      <4>1. PICK leaves \in BOOLEAN :
         service' = [service EXCEPT !["limited"].wanted = FALSE,
                                    !["limited"].down = @ \/ leaves,
                                    !["limited"].stopped = IF service["limited"].wanted
                                                           THEN clock ELSE @]
        BY <3>3 DEF StopQueue
      <4> DEFINE n == IF service["limited"].wanted THEN clock ELSE service["limited"].stopped
      <4>2. PICK d : service' = [service EXCEPT !["limited"].wanted = FALSE,
                                                !["limited"].down = d,
                                                !["limited"].stopped = n]
        BY <4>1
      <4>3. n = clock \/ (n = service["limited"].stopped /\ ~service["limited"].wanted)
        OBVIOUS
      <4> HIDE DEF n
      <4> QED BY <2>2, <4>2, <4>3, TypeFacts
    <3>4. ASSUME LookLate PROVE Changes
      BY <2>1, <3>4, TypeFacts DEF LookLate
    <3> QED BY <2>3, <3>1, <3>2, <3>3, <3>4
  <2>4. ASSUME Recreate PROVE Changes
    BY <2>4 DEF Recreate, Started
  <2>5. ASSUME UNCHANGED service PROVE Changes
    <3>1. service'[s] = service[s]
      BY <2>5
    <3> QED BY <3>1
  <2>6. \/ UNCHANGED service \/ Recreate \/ StopQueue \/ LookLate
        \/ \E t \in Services : Supervise(t) \/ Crash(t) \/ Operate(t)
    BY DEF Next, Script, Ready, World, Trouble, Look, LookLate,
     LookIn, SvstatFails, SvstatAnswers, LookupEnds, Mark, Act, Write, End,
     Ask, CheckQueues, CheckWorkers, CheckYtDlp, Answer, CheckDatabase, CheckStorage,
     CheckQueue, CheckFails, Checked, NewRelease, Tick, Heal,
     Returns, ScriptKilled, StopQueueFails, Hang, vars, guardVars
  <2> QED BY <2>3, <2>4, <2>5, <2>6
<1> QED BY <1>2, <1>3, <1>4

\* What was stopped in time still is.
LEMMA StoppedStep ==
  ASSUME TypeOK, GuardInv, ShownInv, [Next]_vars, NEW s \in Services
  PROVE  /\ service'[s].stopped <= clock'
         /\ \A n \in Nat : n <= clock /\ ~service'[s].wanted /\ service'[s].stopped < n
              => StoppedBefore(s, n)
         /\ \A n \in Nat : n <= clock /\ ~service'[s].wanted /\ service'[s].stopped + TTL <= n
              => ~service[s].wanted /\ service[s].stopped + TTL <= n
<1>1. service[s].stopped <= clock
  BY DEF ShownInv
<1>2. service[s].stopped \in Nat /\ service'[s].stopped \in Nat
  BY ServiceStep DEF ServiceType
<1>3. /\ clock' \in Nat /\ clock \in Nat /\ clock <= clock' /\ TTL \in Nat /\ TTL > 0
  BY ServiceStep, HealthAssumption
<1>4. \/ /\ service'[s].stopped = service[s].stopped
         /\ ~service'[s].wanted => ~service[s].wanted
      \/ service'[s].stopped = clock
      \/ service'[s].stopped = 0 /\ service'[s].wanted
  BY ServiceStep
<1>5. service'[s].stopped <= clock'
  BY <1>1, <1>2, <1>3, <1>4
<1>6. ASSUME NEW n \in Nat, n <= clock, ~service'[s].wanted,
             service'[s].stopped < n \/ service'[s].stopped + TTL <= n
      PROVE  ~service[s].wanted /\ service'[s].stopped = service[s].stopped
  BY <1>2, <1>3, <1>4, <1>6
<1> QED BY <1>5, <1>6 DEF StoppedBefore

\* A pass has every service before the verdict, which it has once.
LEMMA PlanFacts ==
  ASSUME clock \in Nat
  PROVE  /\ NewPass.asked = clock /\ NewPass.queues = "unknown"
         /\ \A j \in 1..Len(NewPass.todo) :
              NewPass.todo[j] = "queues" => j = Len(Consumers) + 2
         /\ \A s \in Services : \E i \in 1..(Len(Consumers) + 1) : NewPass.todo[i] = s
<1> DEFINE rest == <<"queues", "workers", "ytDlp", "storage">>
           first == <<"database">> \o Consumers
<1>1. /\ Consumers \in Seq(Services) /\ Len(Consumers) \in Nat
      /\ \A i \in 1..Len(Consumers) : Consumers[i] # "queues"
  <2>1. Consumers \in Seq(Services)
    BY HealthAssumption DEF Services
  <2>2. Services \cap OtherNames = {} /\ "queues" \in OtherNames
    BY HealthAssumption DEF OtherNames
  <2> QED BY <2>1, <2>2
<1>2. /\ first \in Seq(Services \cup OtherNames) /\ rest \in Seq(Services \cup OtherNames)
      /\ Len(first) = Len(Consumers) + 1
  <2>1. /\ <<"database">> \in Seq(Services \cup OtherNames) /\ Len(<<"database">>) = 1
        /\ rest \in Seq(Services \cup OtherNames)
        /\ Consumers \in Seq(Services \cup OtherNames)
    BY <1>1 DEF OtherNames
  <2> QED BY <1>1, <2>1
<1>3. \A i \in 1..Len(first) : first[i] = IF i = 1 THEN "database" ELSE Consumers[i - 1]
  BY <1>1
<1>4. /\ NewPass.todo = first \o rest
      /\ NewPass.asked = clock /\ NewPass.queues = "unknown"
  BY DEF NewPass
<1> HIDE DEF first
<1>5. Len(NewPass.todo) = Len(Consumers) + 5
  BY <1>1, <1>2, <1>4
<1>6. \A i \in 1..(Len(Consumers) + 5) :
        NewPass.todo[i] = IF i <= Len(Consumers) + 1 THEN first[i] ELSE rest[i - Len(Consumers) - 1]
  BY <1>1, <1>2, <1>4
<1>7. ASSUME NEW j \in 1..Len(NewPass.todo), NewPass.todo[j] = "queues"
      PROVE  j = Len(Consumers) + 2
  <2>1. CASE j <= Len(Consumers) + 1
    <3>1. first[j] = "queues"
      BY <1>5, <1>6, <1>7, <2>1
    <3>2. j # 1 => j - 1 \in 1..Len(Consumers)
      BY <1>1, <1>5, <2>1
    <3> QED BY <1>1, <1>2, <1>3, <1>5, <2>1, <3>1, <3>2
  <2>2. CASE j > Len(Consumers) + 1
    <3>1. rest[j - Len(Consumers) - 1] = "queues"
      BY <1>1, <1>5, <1>6, <1>7, <2>2
    <3>2. j - Len(Consumers) - 1 \in 1..4
      BY <1>1, <1>5, <2>2
    <3> QED BY <1>1, <1>5, <3>1, <3>2
  <2> QED BY <1>1, <1>5, <2>1, <2>2
<1>8. ASSUME NEW s \in Services PROVE \E i \in 1..(Len(Consumers) + 1) : NewPass.todo[i] = s
  <2>1. PICK i \in 1..Len(Consumers) : Consumers[i] = s
    BY DEF Services
  <2>2. NewPass.todo[i + 1] = s
    <3>1. i + 1 \in 1..Len(first) /\ i + 1 # 1 /\ (i + 1) - 1 = i
      BY <1>1, <1>2, <2>1
    <3>2. first[i + 1] = s
      BY <1>3, <2>1, <3>1
    <3> QED BY <1>1, <1>2, <1>6, <3>1, <3>2
  <2> QED BY <1>1, <2>1, <2>2
<1> QED BY <1>4, <1>7, <1>8

\* One check of a pass: what was ahead is ahead, or has been looked at.
LEMMA CheckShown ==
  ASSUME TypeOK, GuardInv, ShownInv, [Next]_vars, NEW what, Checked(what),
         pass' \in PassType,
         pass'.asked = pass.asked, pass'.todo = Tail(pass.todo),
         pass.paused \subseteq pass'.paused, pass.unclear => pass'.unclear,
         \A s \in Services \cap what : StoppedBefore(s, pass.asked) =>
           s \in pass'.paused \/ pass'.unclear,
         \/ pass'.queues = pass.queues
         \/ \A s \in Services : s \in pass.paused \/ pass.unclear => pass'.queues # "healthy",
         "queues" \in what \/ pass'.queues = pass.queues,
         "queues" \in what => what = {"queues"}
  PROVE  PassShown'
<1>1. /\ pass \in PassType /\ pass.todo \in Seq(Services \cup OtherNames)
      /\ pass.todo # <<>> /\ Head(pass.todo) \in what /\ pass.asked \in Nat
  BY DoneFacts DEF PassType
<1>2. PassShown
  BY <1>1, TypeFacts DEF ShownInv, PassShown
<1>3. clock' = clock /\ clock \in Nat
  BY DoneFacts DEF TypeOK
<1>4. /\ Len(pass.todo) \in Nat \ {0} /\ Len(pass'.todo) = Len(pass.todo) - 1
      /\ \A i \in 1..Len(pass'.todo) : pass'.todo[i] = pass.todo[i + 1]
      /\ Head(pass.todo) = pass.todo[1]
  BY <1>1
<1>5. ASSUME NEW i \in 1..Len(pass'.todo), NEW j \in 1..Len(pass'.todo),
             pass'.todo[i] = "queues", pass'.todo[j] = "queues"
      PROVE  i = j
  <2>1. i + 1 \in 1..Len(pass.todo) /\ j + 1 \in 1..Len(pass.todo)
    BY <1>4
  <2>2. i + 1 = j + 1
    BY <1>2, <1>4, <1>5, <2>1 DEF PassShown
  <2> QED BY <2>2
<1>6. ASSUME NEW s \in Services, StoppedBefore(s, pass.asked)'
      PROVE  Noticed(s)' /\ pass'.queues # "healthy"
  <2>1. StoppedBefore(s, pass.asked)
    <3>1. ~service'[s].wanted /\ service'[s].stopped < pass.asked
      BY <1>6 DEF StoppedBefore
    <3> QED BY <1>1, <1>2, <3>1, StoppedStep DEF PassShown
  <2>2. Noticed(s) /\ pass.queues # "healthy"
    BY <1>2, <2>1 DEF PassShown
  <2>3. Noticed(s)'
    <3> SUFFICES ASSUME NEW j \in 1..Len(pass'.todo), pass'.todo[j] = "queues",
                        s \notin pass'.paused, ~pass'.unclear
                 PROVE  \E i \in 1..(j - 1) : pass'.todo[i] = s
      BY DEF Noticed
    <3>1. j + 1 \in 1..Len(pass.todo) /\ pass.todo[j + 1] = "queues"
      BY <1>4
    <3>2. PICK i \in 1..j : pass.todo[i] = s
      BY <2>2, <3>1 DEF Noticed
    <3>3. pass.todo[1] # s
      BY <1>1, <1>4, <2>1
    <3>4. i - 1 \in 1..(j - 1) /\ i - 1 \in 1..Len(pass'.todo)
      BY <3>2, <3>3, <1>4
    <3>5. pass'.todo[i - 1] = pass.todo[(i - 1) + 1] /\ (i - 1) + 1 = i
      BY <1>4, <3>4
    <3> QED BY <3>2, <3>4, <3>5
  <2>4. pass'.queues # "healthy"
    <3>1. CASE pass'.queues = pass.queues
      BY <2>2, <3>1
    <3>2. CASE pass'.queues # pass.queues
      <4>1. pass.todo[1] = "queues" /\ 1 \in 1..Len(pass.todo)
        BY <1>1, <1>4, <3>2
      <4>2. s \in pass.paused \/ pass.unclear
        BY <2>2, <4>1 DEF Noticed
      <4> QED BY <3>2, <4>2
    <3> QED BY <3>1, <3>2
  <2> QED BY <2>3, <2>4
<1>7. pass'.asked <= clock'
  BY <1>2, <1>3 DEF PassShown
<1> QED BY <1>5, <1>6, <1>7 DEF PassShown

\* Every check of a pass is one.
LEMMA ChecksShown ==
  ASSUME TypeOK, GuardInv, ShownInv, [Next]_vars,
         \/ CheckDatabase \/ CheckStorage \/ CheckQueues \/ CheckWorkers \/ CheckYtDlp
         \/ \E s \in Services : CheckQueue(s) \/ CheckFails(s)
  PROVE  PassShown' /\ pass' \in PassType /\ UNCHANGED <<cache, reply>>
<1> USE DEF PassType
<1>1. ASSUME NEW what, Checked(what),
             what \cap Services = {} \/ \E s \in Services : what = {s},
             \/ CheckDatabase /\ what = {"database"}
             \/ CheckStorage /\ what = {"storage"}
             \/ CheckWorkers /\ what = {"workers"}
             \/ CheckYtDlp /\ what = {"ytDlp"}
             \/ CheckQueues /\ what = {"queues"}
             \/ \E s \in Services : (CheckQueue(s) \/ CheckFails(s)) /\ what = {s}
      PROVE  PassShown' /\ pass' \in PassType /\ UNCHANGED <<cache, reply>>
  <2>1. /\ Done \in PassType /\ Done.asked = pass.asked /\ Done.todo = Tail(pass.todo)
        /\ Done.paused = pass.paused /\ (pass.unclear => Done.unclear)
        /\ Done.queues = pass.queues
        /\ UNCHANGED <<cache, reply>> /\ pass \in PassType
    BY <1>1, DoneFacts
  <2>2. pass' \in PassType
    <3>1. TypeOK'
      BY NextTyped
    <3>2. pass'.is = "pass"
      <4>0. Done.is = "pass"
        BY <2>1
      <4>1. CASE CheckDatabase
        BY <2>1, <4>0, <4>1 DEF CheckDatabase
      <4>2. CASE CheckStorage
        BY <2>1, <4>0, <4>2 DEF CheckStorage
      <4>3. CASE CheckWorkers
        BY <2>1, <4>0, <4>3 DEF CheckWorkers
      <4>4. CASE CheckYtDlp
        BY <2>1, <4>0, <4>4 DEF CheckYtDlp
      <4>5. CASE CheckQueues
        BY <2>1, <4>0, <4>5 DEF CheckQueues
      <4>6. ASSUME NEW s \in Services, CheckQueue(s) PROVE pass'.is = "pass"
        BY <2>1, <4>0, <4>6 DEF CheckQueue
      <4>7. ASSUME NEW s \in Services, CheckFails(s) PROVE pass'.is = "pass"
        BY <2>1, <4>0, <4>7 DEF CheckFails
      <4> QED BY <1>1, <4>1, <4>2, <4>3, <4>4, <4>5, <4>6, <4>7
    <3>3. pass' # Nothing
      BY <3>2 DEF Nothing
    <3> QED BY <3>1, <3>3 DEF TypeOK
  <2>3. CASE what \cap Services = {} /\ "queues" \notin what
    <3>1. /\ pass'.asked = Done.asked /\ pass'.todo = Done.todo
          /\ pass'.paused = Done.paused /\ (Done.unclear => pass'.unclear)
          /\ pass'.queues = Done.queues
      <4>1. CASE CheckDatabase
        BY <2>1, <4>1 DEF CheckDatabase
      <4>2. CASE CheckStorage
        BY <2>1, <4>2 DEF CheckStorage
      <4>3. CASE CheckWorkers
        BY <2>1, <4>3 DEF CheckWorkers
      <4>4. CASE CheckYtDlp
        BY <2>1, <4>4 DEF CheckYtDlp
      <4> QED BY <1>1, <2>3, <4>1, <4>2, <4>3, <4>4
    <3> QED BY <1>1, <2>1, <2>2, <2>3, <3>1, CheckShown
  <2>4. CASE "queues" \in what
    <3>1. CheckQueues /\ what = {"queues"}
      BY <1>1, <2>4, HealthAssumption DEF OtherNames
    <3>2. /\ pass'.asked = Done.asked /\ pass'.todo = Done.todo
          /\ pass'.paused = Done.paused /\ (Done.unclear => pass'.unclear)
      BY <2>1, <3>1 DEF CheckQueues
    <3>3. \A s \in Services : s \in pass.paused \/ pass.unclear => pass'.queues # "healthy"
      <4> SUFFICES ASSUME NEW s \in Services, s \in pass.paused \/ pass.unclear
                   PROVE  pass'.queues # "healthy"
        OBVIOUS
      <4>1. pass'.queues = IF pass.unclear THEN "unknown"
                           ELSE IF pass.paused = {} THEN "healthy" ELSE "degraded"
        BY <2>1, <3>1 DEF CheckQueues
      <4>2. CASE pass.unclear
        BY <4>1, <4>2
      <4>3. CASE ~pass.unclear /\ pass.paused # {}
        BY <4>1, <4>3
      <4> QED BY <4>2, <4>3
    <3> QED BY <1>1, <2>1, <2>2, <3>1, <3>2, <3>3, CheckShown, HealthAssumption DEF OtherNames
  <2>5. ASSUME NEW s \in Services, CheckQueue(s) \/ CheckFails(s), what = {s}
        PROVE  PassShown'
    <3>1. /\ pass'.asked = Done.asked /\ pass'.todo = Done.todo
          /\ Done.paused \subseteq pass'.paused /\ (Done.unclear => pass'.unclear)
          /\ pass'.queues = Done.queues
      <4>1. CASE CheckQueue(s)
        BY <2>1, <4>1 DEF CheckQueue
      <4>2. CASE CheckFails(s)
        BY <2>1, <4>2 DEF CheckFails
      <4> QED BY <2>5, <4>1, <4>2
    <3>2. ~service[s].wanted => s \in pass'.paused \/ pass'.unclear
      BY <2>1, <2>5 DEF CheckQueue, CheckFails
    <3>3. "queues" # s
      BY HealthAssumption DEF OtherNames
    <3> QED BY <1>1, <2>1, <2>2, <2>5, <3>1, <3>2, <3>3, CheckShown DEF StoppedBefore
  <2> QED BY <1>1, <2>1, <2>2, <2>3, <2>4, <2>5, HealthAssumption DEF OtherNames
<1>2. OtherNames \cap Services = {}
  BY HealthAssumption
<1>3. CASE CheckDatabase
  BY <1>1, <1>2, <1>3 DEF CheckDatabase, OtherNames
<1>4. CASE CheckStorage
  BY <1>1, <1>2, <1>4 DEF CheckStorage, OtherNames
<1>5. CASE CheckQueues
  BY <1>1, <1>2, <1>5 DEF CheckQueues, OtherNames
<1>6. CASE CheckWorkers
  BY <1>1, <1>2, <1>6 DEF CheckWorkers, OtherNames
<1>7. CASE CheckYtDlp
  BY <1>1, <1>2, <1>7 DEF CheckYtDlp, OtherNames
<1>8. ASSUME NEW s \in Services, CheckQueue(s) \/ CheckFails(s)
      PROVE  PassShown' /\ pass' \in PassType /\ UNCHANGED <<cache, reply>>
  BY <1>1, <1>8 DEF CheckQueue, CheckFails
<1> QED BY <1>3, <1>4, <1>5, <1>6, <1>7, <1>8

\* What is not answered now was true before.
LEMMA UnchangedShown ==
  ASSUME TypeOK, GuardInv, ShownInv, [Next]_vars
  PROVE  /\ pass' = pass /\ pass # Nothing => PassShown'
         /\ cache' = cache /\ cache # Nothing => CacheShown'
         /\ reply' = reply /\ reply # Nothing => reply'.asked <= clock'
         /\ reply' = reply => StoppedShown'
<1>1. clock \in Nat /\ clock' \in Nat /\ clock <= clock'
  BY ServiceStep, TypeFacts
<1>2. ASSUME pass' = pass, pass # Nothing PROVE PassShown'
  <2>1. pass \in PassType /\ pass.asked \in Nat /\ PassShown
    BY <1>2 DEF TypeOK, PassType, ShownInv
  <2>2. \A s \in Services : StoppedBefore(s, pass.asked)' => StoppedBefore(s, pass.asked)
    BY <1>2, <2>1, StoppedStep DEF StoppedBefore, PassShown
  <2>3. \A s \in Services : Noticed(s)' <=> Noticed(s)
    BY <1>2 DEF Noticed
  <2> QED BY <1>1, <1>2, <2>1, <2>2, <2>3 DEF PassShown
<1>3. ASSUME cache' = cache, cache # Nothing PROVE CacheShown'
  <2>1. cache.asked \in Nat /\ CacheShown
    BY <1>3 DEF TypeOK, ComponentsType, ShownInv
  <2>2. \A s \in Services : StoppedBefore(s, cache.asked)' => StoppedBefore(s, cache.asked)
    BY <1>3, <2>1, StoppedStep DEF StoppedBefore, CacheShown
  <2> QED BY <1>1, <1>3, <2>1, <2>2 DEF CacheShown
<1>4. ASSUME reply' = reply, reply # Nothing PROVE reply'.asked <= clock'
  BY <1>1, <1>4 DEF TypeOK, ComponentsType, ShownInv
<1>5. ASSUME reply' = reply PROVE StoppedShown'
  <2> SUFFICES ASSUME reply # Nothing, NEW s \in Services,
                      ~service'[s].wanted, service'[s].stopped + TTL <= reply.asked
               PROVE  reply.queues # "healthy"
    BY <1>5 DEF StoppedShown
  <2>1. reply.asked \in Nat /\ reply.asked <= clock
    BY DEF TypeOK, ComponentsType, ShownInv
  <2>2. ~service[s].wanted /\ service[s].stopped + TTL <= reply.asked
    BY <2>1, StoppedStep
  <2> QED BY <2>2 DEF ShownInv, StoppedShown
<1> QED BY <1>2, <1>3, <1>4, <1>5

\* Whatever is asked, stopped and started: what is answered is not healthy
\* when it must not be.
LEMMA ShownStep ==
  ASSUME TypeOK, GuardInv, ShownInv, [Next]_vars
  PROVE  ShownInv'
<1>1. clock \in Nat /\ clock' \in Nat /\ clock <= clock' /\ TTL \in Nat /\ TTL > 0
  BY ServiceStep, TypeFacts, HealthAssumption
<1>2. \A s \in Services : service'[s].stopped <= clock'
  BY StoppedStep
<1>3. CASE UNCHANGED <<pass, cache, reply>>
  BY <1>2, <1>3, UnchangedShown DEF ShownInv
<1>4. CASE Recreate
  BY <1>2, <1>4 DEF Recreate, ShownInv, StoppedShown
<1>5. CASE \/ CheckDatabase \/ CheckStorage \/ CheckQueues \/ CheckWorkers \/ CheckYtDlp
           \/ \E s \in Services : CheckQueue(s) \/ CheckFails(s)
  BY <1>2, <1>5, ChecksShown, UnchangedShown DEF ShownInv
\* The cache answers for the moment it was filled, which is less than TTL ago.
<1>6. CASE Ask /\ CacheHolds
  <2>1. /\ cache \in ComponentsType /\ cache.asked \in Nat /\ CacheShown
        /\ cache.asked + TTL > clock
    BY <1>6 DEF CacheHolds, TypeOK, ComponentsType, ShownInv
  <2>2. /\ reply' = [cache EXCEPT !.asked = clock]
        /\ UNCHANGED <<pass, cache, service, clock>> /\ pass = Nothing
    BY <1>6 DEF Ask, guardVars
  <2>3. reply'.asked = clock /\ reply'.queues = cache.queues
    BY <2>1, <2>2 DEF ComponentsType
  <2>4. StoppedShown'
    <3> SUFFICES ASSUME NEW s \in Services,
                        ~service[s].wanted, service[s].stopped + TTL <= clock
                 PROVE  cache.queues # "healthy"
      BY <2>2, <2>3 DEF StoppedShown
    <3>1. service[s].stopped \in Nat
      BY DEF TypeOK, ServiceType
    <3>2. service[s].stopped < cache.asked
      BY <1>1, <2>1, <3>1
    <3> QED BY <2>1, <3>2 DEF CacheShown, StoppedBefore
  <2> QED BY <1>1, <1>2, <2>2, <2>3, <2>4, UnchangedShown DEF ShownInv
<1>7. CASE Ask /\ ~CacheHolds
  <2>1. pass' = NewPass /\ UNCHANGED <<cache, reply, service, clock>>
    BY <1>7 DEF Ask, guardVars
  <2>2. /\ NewPass.asked = clock /\ NewPass.queues = "unknown"
        /\ \A j \in 1..Len(NewPass.todo) :
             NewPass.todo[j] = "queues" => j = Len(Consumers) + 2
        /\ \A s \in Services : \E i \in 1..(Len(Consumers) + 1) : NewPass.todo[i] = s
    BY <1>1, PlanFacts
  <2>3. Len(Consumers) \in Nat
    BY HealthAssumption
  <2>4. \A s \in Services : Noticed(s)'
    <3> SUFFICES ASSUME NEW s \in Services, NEW j \in 1..Len(NewPass.todo),
                        NewPass.todo[j] = "queues"
                 PROVE  \E i \in 1..(j - 1) : NewPass.todo[i] = s
      BY <2>1 DEF Noticed
    <3>1. j - 1 = Len(Consumers) + 1
      BY <2>2, <2>3
    <3> QED BY <2>2, <3>1
  <2>5. \A i, j \in 1..Len(NewPass.todo) :
          NewPass.todo[i] = "queues" /\ NewPass.todo[j] = "queues" => i = j
    BY <2>2
  <2>6. PassShown'
    BY <1>1, <2>1, <2>2, <2>4, <2>5 DEF PassShown
  <2> QED BY <1>2, <2>1, <2>6, UnchangedShown DEF ShownInv
\* The answer of a pass is the cache's and the caller's.
<1>8. CASE Answer
  <2>1. /\ pass \in PassType /\ pass.asked \in Nat /\ pass # Nothing /\ pass' = Nothing
        /\ UNCHANGED <<service, clock>> /\ PassShown
    BY <1>8 DEF Answer, TypeOK, PassType, guardVars, ShownInv
  <2>2. PICK others : cache' = Components(others) /\ reply' = Components(others)
    BY <1>8 DEF Answer
  <2>3. /\ cache'.asked = pass.asked /\ cache'.queues = pass.queues
        /\ reply'.asked = pass.asked /\ reply'.queues = pass.queues
    BY <2>2 DEF Components
  <2>4. CacheShown'
    BY <2>1, <2>3 DEF PassShown, CacheShown, StoppedBefore
  <2>5. StoppedShown'
    <3> SUFFICES ASSUME NEW s \in Services,
                        ~service[s].wanted, service[s].stopped + TTL <= pass.asked
                 PROVE  pass.queues # "healthy"
      BY <2>1, <2>3 DEF StoppedShown
    <3>1. service[s].stopped \in Nat
      BY DEF TypeOK, ServiceType
    <3>2. service[s].stopped < pass.asked
      BY <1>1, <2>1, <3>1
    <3> QED BY <2>1, <3>2 DEF PassShown, StoppedBefore
  <2>6. reply'.asked <= clock'
    BY <2>1, <2>3 DEF PassShown
  <2> QED BY <1>2, <2>1, <2>4, <2>5, <2>6 DEF ShownInv
<1>9. CASE Script \/ UNCHANGED vars
  BY <1>3, <1>9 DEF Script, Look, LookLate, LookIn, LookupEnds, Mark, Act, Write, End, StopQueue,
     vars, readyVars
<1>10. CASE \/ NewRelease \/ Tick \/ ScriptKilled \/ StopQueueFails
            \/ SvstatFails \/ SvstatAnswers
            \/ \E s \in Services : Supervise(s) \/ Operate(s) \/ Crash(s)
            \/ \E p \in Pools : Heal(p) \/ Returns(p) \/ Hang(p)
  BY <1>3, <1>10 DEF NewRelease, Tick, ScriptKilled, StopQueueFails, SvstatFails, SvstatAnswers,
     Supervise, Operate, Crash, Heal, Returns, Hang, readyVars
<1> QED BY <1>4, <1>5, <1>6, <1>7, <1>8, <1>9, <1>10 DEF Next, Ready, World, Trouble

----------------------------------------------------------------------------
(* The theorems *)

\* The invariant holds in every reachable state.
THEOREM HealthInvariance == Spec => []HealthInv
<1>1. Init => HealthInv
  <2> SUFFICES ASSUME Init PROVE HealthInv
    OBVIOUS
  <2>1. GuardInv
    BY FreshGuard DEF Init
  <2>2. ApartInv
    BY DEF Init, ApartInv
  <2>3. ShownInv
    BY DEF Init, ShownInv, StoppedShown, Started
  <2> QED BY <2>1, <2>2, <2>3, InitType DEF HealthInv
<1>2. HealthInv /\ [Next]_vars => HealthInv'
  BY NextTyped, GuardStep, ApartStep, ShownStep DEF HealthInv
<1> QED BY <1>1, <1>2, PTL DEF Spec

\* The guard acts once in each of the three memories that a container keeps for
\* its runs, and calls stop-queue in pause mode alone, whatever is released,
\* killed and restarted and whenever s6-svstat fails.
THEOREM AsksOnce == Spec => []AskedOnce
<1>1. HealthInv => AskedOnce
  BY DEF HealthInv, GuardInv, MemoryInv, AskedOnce
<1> QED BY <1>1, HealthInvariance, PTL

\* The state file says paused only of a guard that asked for it, or was killed
\* between its marker and the call.
THEOREM PausedTold == Spec => []PausedIsAsked
<1>1. HealthInv => PausedIsAsked
  BY DEF HealthInv, GuardInv
<1> QED BY <1>1, HealthInvariance, PTL

\* A check times out only for a pool that hung itself.
THEOREM PoolsApart == Spec => []ChecksApart
<1>1. HealthInv => ChecksApart
  BY DEF HealthInv, ApartInv, ChecksApart
<1> QED BY <1>1, HealthInvariance, PTL

\* No answer calls the queues healthy when one has been stopped for the life
\* of the cache, for any list of consumers and any life.
THEOREM StopIsShown == Spec => []StoppedShown
<1>1. HealthInv => StoppedShown
  BY DEF HealthInv, ShownInv
<1> QED BY <1>1, HealthInvariance, PTL
=============================================================================
