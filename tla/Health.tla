------------------------------- MODULE Health -------------------------------
(***************************************************************************)
(* The container's health: the HEALTHCHECK script with its guard against a *)
(* stale yt-dlp, stop-queue, the huey services under s6, and what the      *)
(* bridge's /health/ready says of all this while they act.                 *)
(*                                                                         *)
(* The guard keeps its memory in files named after the instance: the boot, *)
(* the container and the start of the process tree that the huey-net-      *)
(* limited consumer runs in.  A container has three such memories: that of *)
(* the consumer's tree, one for runs that s6-svstat gives no pid, and one  *)
(* for runs whose pid is gone when they look it up.  With the consumer     *)
(* down, s6-svstat prints -1 and the tree is the script's own, so a run    *)
(* then has a fourth, empty at its start and never read again.             *)
(***************************************************************************)
EXTENDS Integers, Sequences

CONSTANTS
  Consumers,    \* HUEY_SERVICE_NAMES, in order; "limited" is huey-net-limited
  MaxRelease,   \* bound: yt-dlp releases
  MaxTime,      \* bound: the clock, in units of which the cache lives TTL
  TTL,          \* readiness' _CACHE_TTL_SECONDS
  MaxOperator,  \* bound: what an operator does to services and containers
  MaxTroubles   \* bound: kills, failures and hangs

Services == {Consumers[i] : i \in 1..Len(Consumers)}
Pools == {"database", "storage"}
OtherNames == {"database", "queues", "workers", "ytDlp", "storage"}

ASSUME HealthAssumption ==
  /\ Consumers \in Seq(STRING)
  /\ "limited" \in Services /\ Services \cap OtherNames = {}
  /\ {MaxRelease, MaxTime, MaxOperator, MaxTroubles} \subseteq Nat
  /\ TTL \in Nat \ {0}

\* The memories that outlive a run: named after the consumer's tree,
\* 'no-service-pid' and the start time '0'.
Memories == {"tree", "no pid", "pid gone"}

VARIABLES
  service,   \* s6's view of each service: wanted up, running, marked down,
             \* and when wanted last changed
  release,   \* the newest yt-dlp release
  instance,  \* this container: its yt-dlp, TUBESYNC_STALE_YTDLP_ACTION, memories
  state,     \* YTDLP_RELEASE_STATE_FILE, or Nothing
  script,    \* the run of healthcheck.py
  stopper,   \* has stop-queue been started and not yet acted
  svstat,    \* does s6-svstat answer
  hung,      \* whether the database and the download root hang, or ever did
  stuck,     \* the executors whose thread sits in a hung call
  cache,     \* readiness' cached components, or Nothing
  pass,      \* the pass of collect_components that is under way, or Nothing
  reply,     \* the last answer of /health/ready, or Nothing
  clock, budget

guardVars == <<service, release, instance, state, script, stopper>>
readyVars == <<svstat, hung, stuck, cache, pass, reply>>
vars == <<guardVars, readyVars, clock, budget>>

Nothing == [is |-> "nothing"]
Idle == [at |-> "idle"]

Spend(what) == budget[what] > 0 /\ budget' = [budget EXCEPT ![what] = @ - 1]

\* /dev/shm is new, all services start.  Of each memory: the release seen, the
\* marker of the action, and how often a run in it acted, by calling stop-queue
\* or with a warning.  cut says that a run was killed between marker and act.
Fresh(installed, action) ==
  [installed |-> installed, action |-> action, seen |-> [m \in Memories |-> 0],
   marked |-> {}, acts |-> [m \in Memories |-> 0], cut |-> FALSE]
Started == [s \in Services |->
  [wanted |-> TRUE, up |-> FALSE, down |-> FALSE, stopped |-> 0]]

Init ==
  /\ service = Started
  /\ release = 1
  /\ \E a \in {"warn", "pause"} : instance = Fresh(1, a)
  /\ state = Nothing /\ script = Idle /\ stopper = FALSE
  /\ svstat = TRUE /\ hung = [p \in Pools |-> "never"] /\ stuck = {}
  /\ cache = Nothing /\ pass = Nothing /\ reply = Nothing
  /\ clock = 0
  /\ budget = [operator |-> MaxOperator, troubles |-> MaxTroubles]

----------------------------------------------------------------------------
(* The world: releases, s6, the operator *)

NewRelease ==
  /\ release < MaxRelease
  /\ release' = release + 1
  /\ UNCHANGED <<service, instance, state, script, stopper, readyVars, clock, budget>>

Supervise(s) ==
  /\ service[s].up # service[s].wanted
  /\ service' = [service EXCEPT ![s].up = service[s].wanted]
  /\ UNCHANGED <<release, instance, state, script, stopper, readyVars, clock, budget>>

Crash(s) ==
  /\ service[s].up
  /\ Spend("troubles")
  /\ service' = [service EXCEPT ![s].up = FALSE]
  /\ UNCHANGED <<release, instance, state, script, stopper, readyVars, clock>>

\* s6-svc -d, -u and -U by hand; the last one takes a down file away.
Operate(s) ==
  /\ Spend("operator")
  /\ \E kept \in BOOLEAN :
       service' = [service EXCEPT ![s].wanted = ~@, ![s].down = @ /\ kept,
                                  ![s].stopped = clock]
  /\ UNCHANGED <<release, instance, state, script, stopper, readyVars, clock>>

\* The container is recreated, from whatever image.
Recreate ==
  /\ Spend("operator")
  /\ \E v \in {instance.installed, release}, a \in {"warn", "pause"} :
       instance' = Fresh(v, a)
  /\ service' = Started
  /\ state' = Nothing /\ script' = Idle /\ stopper' = FALSE
  /\ stuck' = {} /\ cache' = Nothing /\ pass' = Nothing /\ reply' = Nothing
  /\ UNCHANGED <<release, svstat, hung, clock>>

----------------------------------------------------------------------------
(* healthcheck.py *)

\* A mutant: the guard forgets that it acted.
ActedNever(memory) == FALSE

\* os.path.exists(marker)
Acted(memory) == memory \in instance.marked

\* is_older, here and in readiness.py; 0 is a version that is not known.
Older(installed, latest) == installed # 0 /\ latest # 0 /\ installed < latest

\* get_unique_id, by what s6-svstat says of the consumer
Memory ==
  IF ~svstat THEN "no pid" ELSE IF service["limited"].up THEN "tree" ELSE "own"

\* is_old.  A lookup starts when the recorded interval has passed, and always
\* in an empty memory.
LookIn(memory) ==
  /\ script.at = "idle"
  /\ \E lookup \in BOOLEAN :
       LET asleep == service["limited"].down
           seen == IF memory = "own" THEN 0 ELSE instance.seen[memory]
       IN  /\ asleep => ~lookup
           /\ seen = 0 /\ ~asleep => lookup
           /\ script' = [at |-> IF ~asleep /\ Older(instance.installed, seen) /\ ~Acted(memory)
                                  THEN "mark" ELSE "write",
                         memory |-> memory, lookup |-> lookup, found |-> 0]
  /\ UNCHANGED <<release, instance, state, stopper, readyVars, clock>>

Look == LookIn(Memory) /\ UNCHANGED <<service, budget>>

\* The consumer goes down, as wanted or not, after s6-svstat told its pid and
\* before get_root_start_time reads it.
LookLate ==
  /\ svstat /\ service["limited"].up
  /\ IF service["limited"].wanted THEN Spend("troubles") ELSE UNCHANGED budget
  /\ service' = [service EXCEPT !["limited"].up = FALSE]
  /\ LookIn("pid gone")

\* bg_v, in its thread, at any moment of the run
LookupEnds ==
  /\ script.at # "idle" /\ script.lookup
  /\ script' = [script EXCEPT !.lookup = FALSE,
                              !.found = IF script.memory = "own" THEN release ELSE 0]
  /\ instance' = IF script.memory = "own" THEN instance
                 ELSE [instance EXCEPT !.seen[script.memory] = release]
  /\ UNCHANGED <<service, release, state, stopper, readyVars, clock, budget>>

\* atomic_write(marker, 1) ...
Mark ==
  /\ script.at = "mark"
  /\ instance' = [instance EXCEPT !.marked = @ \cup {script.memory}]
  /\ script' = [script EXCEPT !.at = "act"]
  /\ UNCHANGED <<service, release, state, stopper, readyVars, clock, budget>>

\* ... and the detached stop-queue, or a warning.
Act ==
  /\ script.at = "act"
  /\ stopper' = (stopper \/ instance.action = "pause")
  /\ instance' = [instance EXCEPT !.acts[script.memory] = @ + 1]
  /\ script' = [script EXCEPT !.at = "write"]
  /\ UNCHANGED <<service, release, state, readyVars, clock, budget>>

\* A mutant: paused is the operator's choice, not what the guard did.
ReleaseStateWished(latest) ==
  [is |-> "state", latest |-> latest,
   paused |-> Older(instance.installed, latest) /\ instance.action = "pause"]

ReleaseState(latest) ==
  [is |-> "state", latest |-> latest,
   paused |-> /\ Older(instance.installed, latest)
              /\ instance.action = "pause"
              /\ script.memory \in instance.marked]

\* write_release_state, and the request to /healthcheck, which answers or not
Write ==
  /\ script.at = "write"
  /\ LET latest == IF script.memory = "own" THEN script.found
                   ELSE instance.seen[script.memory]
     IN  state' = IF latest = 0 THEN state ELSE ReleaseState(latest)
  /\ script' = [script EXCEPT !.at = "end"]
  /\ UNCHANGED <<service, release, instance, stopper, readyVars, clock, budget>>

\* The script waits up to five seconds for its lookup, then exits.
End ==
  /\ script.at = "end"
  /\ script' = Idle
  /\ UNCHANGED <<service, release, instance, state, stopper, readyVars, clock, budget>>

\* Docker's ten seconds are over.
ScriptKilled ==
  /\ script.at # "idle"
  /\ Spend("troubles")
  /\ instance' = [instance EXCEPT !.cut = @ \/ script.at = "act"]
  /\ script' = Idle
  /\ UNCHANGED <<service, release, state, stopper, readyVars, clock>>

\* stop-queue: s6-svc -D, which may or may not leave a down file, and then
\* only waiting and reports.
StopQueue ==
  /\ stopper
  /\ stopper' = FALSE
  /\ \E leaves \in BOOLEAN :
       service' = [service EXCEPT !["limited"].wanted = FALSE, !["limited"].down = @ \/ leaves,
                                    !["limited"].stopped = IF service["limited"].wanted
                                                           THEN clock ELSE @]
  /\ UNCHANGED <<release, instance, state, script, readyVars, clock, budget>>

StopQueueFails ==
  /\ stopper
  /\ Spend("troubles")
  /\ stopper' = FALSE
  /\ UNCHANGED <<service, release, instance, state, script, readyVars, clock>>

----------------------------------------------------------------------------
(* readiness.py: one gunicorn process, which answers one request at a time *)

\* s6-svstat fails or times out, or answers again.
SvstatFails ==
  /\ svstat /\ svstat' = FALSE
  /\ Spend("troubles")
  /\ UNCHANGED <<guardVars, hung, stuck, cache, pass, reply, clock>>
SvstatAnswers ==
  /\ ~svstat /\ svstat' = TRUE
  /\ UNCHANGED <<guardVars, hung, stuck, cache, pass, reply, clock, budget>>

Hang(p) ==
  /\ hung[p] # "now"
  /\ Spend("troubles")
  /\ hung' = [hung EXCEPT ![p] = "now"]
  /\ UNCHANGED <<guardVars, svstat, stuck, cache, pass, reply, clock>>

\* The calls that were hanging return, and free their executor.
Heal(p) ==
  /\ hung[p] = "now"
  /\ hung' = [hung EXCEPT ![p] = "once"]
  /\ UNCHANGED <<guardVars, svstat, stuck, cache, pass, reply, clock, budget>>

Returns(p) ==
  /\ p \in stuck /\ hung[p] # "now"
  /\ stuck' = stuck \ {p}
  /\ UNCHANGED <<guardVars, svstat, hung, cache, pass, reply, clock, budget>>

\* A mutant: the calls share an executor, so one of them blocks the other.
ExecutorShared(p) == "database"

\* _database_executor and _storage_executor
Executor(p) == p

\* _call_with_timeout: it waits in vain for a hung call and behind one.
TimesOut(p) == hung[p] = "now" \/ \E q \in stuck : Executor(q) = Executor(p)

\* A mutant: a stale answer is as good as a fresh one.
CacheHoldsLong == cache # Nothing

\* collect_components' cache
CacheHolds == cache # Nothing /\ cache.asked + TTL > clock

\* A pass has all its checks before it.
NewPass ==
  [is |-> "pass", asked |-> clock, database |-> "unknown", storage |-> "unknown",
   queues |-> "unknown", reason |-> "none", others |-> {}, paused |-> {}, unclear |-> FALSE,
   todo |-> <<"database">> \o Consumers \o <<"queues", "workers", "ytDlp", "storage">>]

\* A request: from the cache, or a new pass.
Ask ==
  /\ pass = Nothing
  /\ IF CacheHolds
       THEN reply' = [cache EXCEPT !.asked = clock] /\ UNCHANGED pass
       ELSE pass' = NewPass /\ UNCHANGED reply
  /\ UNCHANGED <<guardVars, svstat, hung, stuck, cache, clock, budget>>

\* The pass goes on to the next of its checks.
Checked(what) ==
  /\ pass # Nothing /\ pass.todo # <<>> /\ Head(pass.todo) \in what
  /\ UNCHANGED <<guardVars, svstat, hung, cache, reply, clock>>
Done == [pass EXCEPT !.todo = Tail(@)]

\* The call of a check is left behind in its executor.
LeftBehind(p) ==
  stuck' = IF hung[p] = "now" /\ ~\E q \in stuck : Executor(q) = Executor(p)
           THEN stuck \cup {p} ELSE stuck

\* A query that does not hang succeeds or fails.
CheckDatabase ==
  /\ Checked({"database"}) /\ LeftBehind("database")
  /\ IF TimesOut("database")
     THEN pass' = [Done EXCEPT !.database = "timed out"] /\ UNCHANGED budget
     ELSE \/ pass' = [Done EXCEPT !.database = "healthy"] /\ UNCHANGED budget
          \/ pass' = [Done EXCEPT !.database = "unavailable"] /\ Spend("troubles")

\* The space that is left is above the thresholds, or below one of them.
CheckStorage ==
  /\ Checked({"storage"}) /\ LeftBehind("storage")
  /\ IF TimesOut("storage")
     THEN pass' = [Done EXCEPT !.storage = "timed out"] /\ UNCHANGED budget
     ELSE \/ pass' = [Done EXCEPT !.storage = "healthy"] /\ UNCHANGED budget
          \/ pass' = [Done EXCEPT !.storage = "low"] /\ Spend("troubles")

\* check_queues looks at one service after the other ...
CheckQueue(s) ==
  /\ Checked({s}) /\ svstat
  /\ pass' = [Done EXCEPT !.paused = IF service[s].wanted /\ ~service[s].down
                                      THEN @ ELSE @ \cup {s}]
  /\ UNCHANGED <<stuck, budget>>

\* ... cannot tell of one without s6-svstat ...
CheckFails(s) ==
  /\ Checked({s}) /\ ~svstat
  /\ pass' = [Done EXCEPT !.unclear = TRUE]
  /\ UNCHANGED <<stuck, budget>>

\* ... and then at the release state.
CheckQueues ==
  /\ Checked({"queues"})
  /\ pass' = [Done EXCEPT
       !.queues = IF pass.unclear THEN "unknown"
                  ELSE IF pass.paused = {} THEN "healthy" ELSE "degraded",
       !.reason = IF pass.unclear \/ pass.paused = {} THEN "none"
                  ELSE IF "limited" \in pass.paused /\ state # Nothing /\ state.paused
                       THEN "stale_ytdlp" ELSE "queue_paused"]
  /\ UNCHANGED <<stuck, budget>>

\* A pid that cannot be read, or is not one, is a service that is down.
IdleServices == {s \in Services : svstat => ~service[s].up}

\* check_workers, whose services are read at one moment here.
CheckWorkers ==
  /\ Checked({"workers"})
  /\ pass' = [Done EXCEPT !.others = @ \cup
       IF IdleServices = {} THEN {}
       ELSE IF IdleServices = Services THEN {"unavailable"} ELSE {"degraded"}]
  /\ UNCHANGED <<stuck, budget>>

\* check_yt_dlp knows only the release that the script recorded.
CheckYtDlp ==
  /\ Checked({"ytDlp"})
  /\ pass' = [Done EXCEPT !.others = @ \cup
       IF state # Nothing /\ Older(instance.installed, state.latest) THEN {"degraded"} ELSE {}]
  /\ UNCHANGED <<stuck, budget>>

\* What the checks of ffmpeg, YouTube, the cookies, Plex and the source
\* defaults find, on their own; unknown and not_configured change nothing.
OtherChecks == {{}, {"unavailable"}}

\* What worsens the status.
Bad == {"degraded", "unavailable", "timed out", "low"}

\* The components of a pass, and aggregate_status.
Components(others) ==
  [is |-> "components", asked |-> pass.asked, database |-> pass.database,
   storage |-> pass.storage, queues |-> pass.queues, reason |-> pass.reason,
   status |-> IF pass.database \in {"timed out", "unavailable"} THEN "unavailable"
              ELSE IF ({pass.storage, pass.queues} \cup pass.others \cup others) \cap Bad # {}
                   THEN "degraded" ELSE "healthy"]

Answer ==
  /\ pass # Nothing /\ pass.todo = <<>>
  /\ \E others \in OtherChecks :
       /\ IF others = {} THEN UNCHANGED budget ELSE Spend("troubles")
       /\ cache' = Components(others) /\ reply' = Components(others)
  /\ pass' = Nothing
  /\ UNCHANGED <<guardVars, svstat, hung, stuck, clock>>

Tick ==
  /\ clock < MaxTime
  /\ clock' = clock + 1
  /\ UNCHANGED <<guardVars, readyVars, budget>>

----------------------------------------------------------------------------
Script == Look \/ LookLate \/ LookupEnds \/ Mark \/ Act \/ Write \/ End \/ StopQueue
Ready ==
  \/ Ask \/ CheckQueues \/ CheckWorkers \/ CheckYtDlp \/ Answer
  \/ CheckDatabase \/ CheckStorage
  \/ \E s \in Services : CheckQueue(s) \/ CheckFails(s)
World ==
  \/ NewRelease \/ Recreate \/ Tick \/ SvstatAnswers
  \/ \E s \in Services : Supervise(s) \/ Operate(s)
  \/ \E p \in Pools : Heal(p) \/ Returns(p)
Trouble ==
  \/ ScriptKilled \/ StopQueueFails \/ SvstatFails
  \/ \E s \in Services : Crash(s)
  \/ \E p \in Pools : Hang(p)
Next == Script \/ Ready \/ World \/ Trouble
Spec == Init /\ [][Next]_vars

----------------------------------------------------------------------------
(* Properties *)

StatusType == {"unknown", "healthy", "degraded", "unavailable", "timed out", "low"}
ReasonType == {"none", "stale_ytdlp", "queue_paused"}
ServiceType == [wanted : BOOLEAN, up : BOOLEAN, down : BOOLEAN, stopped : Nat]
InstanceType ==
  [installed : Nat, action : {"warn", "pause"}, seen : [Memories -> Nat],
   marked : SUBSET Memories, acts : [Memories -> Nat], cut : BOOLEAN]
StateType == [is : {"state"}, latest : Nat, paused : BOOLEAN]
\* The run's own memory is empty, so a run in it does not get to its marker.
ScriptType ==
  [at : {"mark", "act", "write", "end"}, memory : Memories \cup {"own"}, lookup : BOOLEAN,
   found : Nat]
PassType ==
  [is : {"pass"}, asked : Nat, database : StatusType, storage : StatusType,
   queues : StatusType, reason : ReasonType, others : SUBSET StatusType,
   paused : SUBSET Services, unclear : BOOLEAN, todo : Seq(Services \cup OtherNames)]
ComponentsType ==
  [is : {"components"}, asked : Nat, database : StatusType, storage : StatusType,
   queues : StatusType, reason : ReasonType, status : StatusType]

TypeOK ==
  /\ service \in [Services -> ServiceType]
  /\ release \in Nat
  /\ instance \in InstanceType
  /\ state \in StateType \cup {Nothing}
  /\ script \in ScriptType \cup {Idle}
  /\ stopper \in BOOLEAN
  /\ svstat \in BOOLEAN
  /\ hung \in [Pools -> {"never", "now", "once"}]
  /\ stuck \subseteq Pools
  /\ cache \in ComponentsType \cup {Nothing}
  /\ pass \in PassType \cup {Nothing}
  /\ reply \in ComponentsType \cup {Nothing}
  /\ clock \in Nat
  /\ budget \in [{"operator", "troubles"} -> Nat]

\* ADR-0001: the guard only warns by default, and in pause mode it stops the
\* download queue.  In each memory it does so once, so an operator who starts
\* the queue again is not overruled, however often yt-dlp is released, the
\* consumer goes up and down, s6-svstat fails or a run is killed.  A container
\* whose runs all find the consumer's process, or find it down, has acted once;
\* each of the other two memories can add one.
AskedOnce ==
  /\ \A m \in Memories : instance.acts[m] <= 1
  /\ stopper => instance.action = "pause"

\* "`paused` means the guard asked stop-queue to pause the download queue":
\* the state file never says so of a guard that did not, unless it was killed
\* between its marker and the call.
PausedIsAsked ==
  state # Nothing /\ state.paused =>
    \/ instance.action = "pause" /\ \E m \in Memories : instance.acts[m] > 0
    \/ instance.cut

\* A queue that has been stopped for the life of the cache is not called
\* healthy any more, whatever was stopped, started and asked before.
StoppedShown ==
  reply # Nothing => \A s \in Services :
    ~service[s].wanted /\ service[s].stopped + TTL <= reply.asked => reply.queues # "healthy"

\* A download root that hangs never makes the database look unavailable, nor
\* the other way round: each check blocks itself alone.
ChecksApart ==
  reply # Nothing => \A p \in Pools : reply[p] = "timed out" => hung[p] # "never"

----------------------------------------------------------------------------
(* What these rest on *)

\* The marker is there before the act and stays: a run that is about to act is
\* the first of its memory, and one that finds the marker will not.
MemoryInv(m) ==
  /\ instance.acts[m] <= 1
  /\ m \notin instance.marked => instance.acts[m] = 0
  /\ script.at = "mark" /\ script.memory = m => m \notin instance.marked
  /\ script.at = "act" /\ script.memory = m => m \in instance.marked /\ instance.acts[m] = 0
  /\ m \in instance.marked =>
       instance.acts[m] > 0 \/ instance.cut \/ (script.at = "act" /\ script.memory = m)

GuardInv ==
  /\ \A m \in Memories : MemoryInv(m)
  /\ script.at \in {"mark", "act"} => script.memory \in Memories
  /\ stopper => instance.action = "pause"
  /\ PausedIsAsked

\* Whatever timed out did hang, and so did whatever is stuck.
ApartInv ==
  \A p \in Pools : hung[p] = "never" =>
    /\ p \notin stuck
    /\ pass # Nothing => pass[p] # "timed out"
    /\ cache # Nothing => cache[p] # "timed out"
    /\ reply # Nothing => reply[p] # "timed out"

\* A service that has been stopped before a moment.
StoppedBefore(s, moment) == ~service[s].wanted /\ service[s].stopped < moment

\* The pass has found a stopped service, could not tell, or has it ahead of it.
Noticed(s) ==
  \A j \in 1..Len(pass.todo) : pass.todo[j] = "queues" =>
    s \in pass.paused \/ pass.unclear \/ \E i \in 1..(j - 1) : pass.todo[i] = s

\* Nothing is asked in the future, and a queue that was stopped before a pass
\* began is not called healthy by it, nor by what it cached.
PassShown ==
  /\ pass.asked <= clock
  /\ \A i, j \in 1..Len(pass.todo) :
       pass.todo[i] = "queues" /\ pass.todo[j] = "queues" => i = j
  /\ \A s \in Services : StoppedBefore(s, pass.asked) => Noticed(s) /\ pass.queues # "healthy"

CacheShown ==
  /\ cache.asked <= clock
  /\ \A s \in Services : StoppedBefore(s, cache.asked) => cache.queues # "healthy"

ShownInv ==
  /\ \A s \in Services : service[s].stopped <= clock
  /\ pass # Nothing => PassShown
  /\ cache # Nothing => CacheShown
  /\ reply # Nothing => reply.asked <= clock
  /\ StoppedShown

HealthInv == TypeOK /\ GuardInv /\ ApartInv /\ ShownInv
=============================================================================
