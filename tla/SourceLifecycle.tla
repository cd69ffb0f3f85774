-------------------------- MODULE SourceLifecycle --------------------------
(***************************************************************************)
(* The Source table between the bridge's POST /sources (CreateSourceView)  *)
(* and the ways in which a source is deleted: DeleteSourceView, which      *)
(* renames the source, puts a placeholder with the old identity in its     *)
(* place and deletes the renamed row; the hourly delete_deleted_sources;   *)
(* and delete_all_media_for_source, which deletes the placeholder.         *)
(*                                                                         *)
(* Every statement on the table is a transaction of its own (nothing runs  *)
(* in ATOMIC_REQUESTS), so one action is one statement.  The uniqueness of *)
(* key, name and directory is the table's.  A renamed row has the same     *)
(* identity, moved to names that only renamed rows have.                   *)
(***************************************************************************)
EXTENDS Naturals, FiniteSets

CONSTANTS
  Creators,    \* POST /sources requests
  Deleters,    \* DeleteSourceView posts
  Want,        \* [Creators -> [key, name, directory]]
  Unfit,       \* the requests whose form fails on something but uniqueness
  Outside,     \* the requests that run_edit_source_checks rejects
  Nobody,      \* no uuid, no identity
  MaxFaults    \* bound: failures between two statements

\* A row's uuid is named after the request, or the deletion, that inserts it.
Ids == Creators \cup Deleters

IdentityType == [key : STRING, name : STRING, directory : STRING]

ASSUME SourceAssumption ==
  /\ Nobody \notin Ids \cup IdentityType
  /\ Creators \cap Deleters = {}
  /\ Want \in [Creators -> IdentityType]
  /\ Unfit \subseteq Creators /\ Outside \subseteq Creators
  /\ MaxFaults \in Nat

VARIABLES
  table,    \* [Ids -> row]
  pc,       \* [Creators -> where the request is]
  origin,   \* [Creators -> what sent the request back to look again]
  answer,   \* [Creators -> answer]
  dpc,      \* [Deleters -> where the deletion is]
  victim,   \* [Deleters -> the source it read]
  read,     \* [Deleters -> that source's identity]
  cleanup,  \* placeholders whose delete_all_media_for_source is scheduled
  removals, \* auxiliary: whether a row was renamed or deleted so far
  faults    \* failures so far

createVars == <<pc, origin, answer>>
deleteVars == <<dpc, victim, read, cleanup>>
vars == <<table, createVars, deleteVars, removals, faults>>

\* "absent", "live", or "deleted" (renamed with /deleted); a placeholder's
\* filter_text names the source it stands for.
NoSource == [status |-> "absent", identity |-> Nobody, filterText |-> Nobody]
Source(identity, filterText) ==
  [status |-> "live", identity |-> identity, filterText |-> filterText]

RowType == [status : {"absent", "live", "deleted"},
            identity : IdentityType \cup {Nobody}, filterText : Ids \cup {Nobody}]

Unanswered == [kind |-> "none", uuid |-> Nobody]
Answer(kind, uuid) == [kind |-> kind, uuid |-> uuid]
AnswerType ==
  [kind : {"none", "created", "conflict", "namespace", "invalid", "error"},
   uuid : Ids \cup {Nobody}]

Fields == {"key", "name", "directory"}

\* Source.objects.filter(<field>=<value>), among the names requests use.
Holders(field, identity) ==
  {i \in Ids : table[i].status = "live" /\ table[i].identity[field] = identity[field]}

Clashes(identity) == UNION {Holders(f, identity) : f \in Fields}

----------------------------------------------------------------------------
Init ==
  /\ table = [i \in Ids |-> NoSource]
  /\ pc = [c \in Creators |-> "key"]
  /\ origin = [c \in Creators |-> "request"]
  /\ answer = [c \in Creators |-> Unanswered]
  /\ dpc = [d \in Deleters |-> "idle"]
  /\ victim = [d \in Deleters |-> Nobody]
  /\ read = [d \in Deleters |-> Nobody]
  /\ cleanup = {}
  /\ removals = FALSE
  /\ faults = 0

----------------------------------------------------------------------------
(* CreateSourceView.post *)

Reply(c, kind, uuid) ==
  /\ answer' = [answer EXCEPT ![c] = Answer(kind, uuid)]
  /\ pc' = [pc EXCEPT ![c] = "done"]
  /\ UNCHANGED origin

Goto(c, where) ==
  /\ pc' = [pc EXCEPT ![c] = where]
  /\ UNCHANGED <<origin, answer>>

\* Mutants: the second look skips the key ...
LookAgainLast(c, why) ==
  /\ pc' = [pc EXCEPT ![c] = "directory"]
  /\ origin' = [origin EXCEPT ![c] = why]
  /\ UNCHANGED answer

\* ... or is a retry of the whole request.
LookAgainAsNew(c, why) == Goto(c, "key")

\* Look again from the key on, after the form or the INSERT failed.
LookAgain(c, why) ==
  /\ pc' = [pc EXCEPT ![c] = "key"]
  /\ origin' = [origin EXCEPT ![c] = why]
  /\ UNCHANGED answer

\* The key comes first, in the pre-check and in both re-queries.
FindKey(c) ==
  LET found == Holders("key", Want[c])
  IN  /\ pc[c] = "key"
      /\ \/ found = {} /\ Goto(c, "name")
         \/ \E i \in found : Reply(c, "conflict", i)
      /\ UNCHANGED <<table, deleteVars, removals, faults>>

FindName(c) ==
  /\ pc[c] = "name"
  /\ IF Holders("name", Want[c]) = {} THEN Goto(c, "directory")
                                      ELSE Reply(c, "namespace", Nobody)
  /\ UNCHANGED <<table, deleteVars, removals, faults>>

\* With nothing found the request goes on, or gives up where it came from.
FindDirectory(c) ==
  /\ pc[c] = "directory"
  /\ IF Holders("directory", Want[c]) # {} THEN Reply(c, "namespace", Nobody)
     ELSE \/ origin[c] = "request" /\ Goto(c, "form")
          \/ origin[c] = "form" /\ Reply(c, "invalid", Nobody)
          \/ origin[c] = "save" /\ Reply(c, "error", Nobody)
  /\ UNCHANGED <<table, deleteVars, removals, faults>>

\* form.is_valid() with its validate_unique(), then run_edit_source_checks().
CheckForm(c) ==
  /\ pc[c] = "form"
  /\ IF c \in Unfit \/ Clashes(Want[c]) # {} THEN LookAgain(c, "form")
     ELSE IF c \in Outside THEN Reply(c, "invalid", Nobody)
     ELSE Goto(c, "save")
  /\ UNCHANGED <<table, deleteVars, removals, faults>>

\* Mutants: the table has no unique key ...
SaveKeyUnchecked(c) ==
  /\ pc[c] = "save"
  /\ IF Holders("name", Want[c]) \cup Holders("directory", Want[c]) # {}
       THEN LookAgain(c, "save") /\ UNCHANGED table
       ELSE /\ Reply(c, "created", c)
            /\ table' = [table EXCEPT ![c] = Source(Want[c], Nobody)]
  /\ UNCHANGED <<deleteVars, removals, faults>>

\* ... or nothing unique at all: the form's check is relied on.
SaveUnchecked(c) ==
  /\ pc[c] = "save"
  /\ Reply(c, "created", c)
  /\ table' = [table EXCEPT ![c] = Source(Want[c], Nobody)]
  /\ UNCHANGED <<deleteVars, removals, faults>>

\* form.save(): the INSERT, and source_post_save after it.
Save(c) ==
  /\ pc[c] = "save"
  /\ IF Clashes(Want[c]) # {} THEN LookAgain(c, "save") /\ UNCHANGED table
     ELSE /\ Reply(c, "created", c)
          /\ table' = [table EXCEPT ![c] = Source(Want[c], Nobody)]
  /\ UNCHANGED <<deleteVars, removals, faults>>

\* source_post_save raises, or the process dies, when the row is committed.
SaveInterrupted(c) ==
  /\ pc[c] = "save"
  /\ faults < MaxFaults
  /\ Clashes(Want[c]) = {}
  /\ Reply(c, "error", Nobody)
  /\ table' = [table EXCEPT ![c] = Source(Want[c], Nobody)]
  /\ faults' = faults + 1
  /\ UNCHANGED <<deleteVars, removals>>

----------------------------------------------------------------------------
(* DeleteSourceView.post *)

Step(d, where) == dpc' = [dpc EXCEPT ![d] = where]

Open(d) ==
  /\ dpc[d] = "idle"
  /\ \E i \in Ids :
       /\ table[i].status = "live"
       /\ victim' = [victim EXCEPT ![d] = i]
       /\ read' = [read EXCEPT ![d] = table[i].identity]
  /\ Step(d, "opened")
  /\ UNCHANGED <<table, createVars, cleanup, removals, faults>>

\* The UPDATE of the three names: it fails when the row is gone, or another
\* renamed row has one of the names.
Rename(d) ==
  LET v == victim[d]
      other == \E i \in Ids \ {v} :
                 /\ table[i].status = "deleted"
                 /\ \E f \in Fields : table[i].identity[f] = read[d][f]
  IN  /\ dpc[d] = "opened"
      /\ IF table[v].status = "absent" \/ other
           THEN Step(d, "done") /\ UNCHANGED <<table, removals>>
           ELSE /\ Step(d, "renamed")
                /\ table' = [table EXCEPT ![v].status = "deleted"]
                /\ removals' = TRUE
      /\ UNCHANGED <<createVars, victim, read, cleanup, faults>>

\* source.refresh_from_db(): the row may be gone.
Refresh(d) ==
  /\ dpc[d] = "renamed"
  /\ Step(d, IF table[victim[d]].status = "absent" THEN "done" ELSE "refreshed")
  /\ UNCHANGED <<table, createVars, victim, read, cleanup, removals, faults>>

\* Mutant: the placeholder is inserted whoever has the names now.
ReplaceAnyway(d) ==
  /\ dpc[d] = "refreshed"
  /\ Step(d, "replaced")
  /\ table' = [table EXCEPT ![d] = Source(read[d], victim[d])]
  /\ UNCHANGED <<createVars, victim, read, cleanup, removals, faults>>

\* The placeholder's INSERT, with the names the source had when it was read:
\* it fails when somebody took one of them.
Replace(d) ==
  LET taken == Clashes(read[d]) # {}
  IN  /\ dpc[d] = "refreshed"
      /\ Step(d, IF taken THEN "done" ELSE "replaced")
      /\ table' = IF taken THEN table
                  ELSE [table EXCEPT ![d] = Source(read[d], victim[d])]
      /\ UNCHANGED <<createVars, victim, read, cleanup, removals, faults>>

\* source.delete(): source_pre_delete looks for the placeholder, and its
\* cleanup is scheduled once the deletion is committed.
Delete(v, scheduled) ==
  LET holders == {i \in Ids : table[i].status # "absent" /\ table[i].filterText = v}
  IN  /\ table' = [table EXCEPT ![v] = NoSource]
      /\ removals' = TRUE
      /\ IF holders = {} THEN cleanup' = scheduled
         ELSE \E h \in holders : cleanup' = scheduled \cup {h}

\* super().post() gets the source again, and answers 404 when it is gone.
Finish(d) ==
  /\ dpc[d] = "replaced"
  /\ IF table[victim[d]].status = "absent"
       THEN UNCHANGED <<table, cleanup, removals>>
       ELSE Delete(victim[d], cleanup)
  /\ Step(d, "done")
  /\ UNCHANGED <<createVars, victim, read, faults>>

\* The web process dies between two statements ...
DeleterDies(d) ==
  /\ dpc[d] \notin {"idle", "done"}
  /\ faults < MaxFaults
  /\ faults' = faults + 1
  /\ Step(d, "done")
  /\ UNCHANGED <<table, createVars, victim, read, cleanup, removals>>

\* ... or between the deletion's commit and its on_commit callback.
FinishInterrupted(d) ==
  /\ dpc[d] = "replaced"
  /\ table[victim[d]].status # "absent"
  /\ faults < MaxFaults
  /\ faults' = faults + 1
  /\ Step(d, "done")
  /\ table' = [table EXCEPT ![victim[d]] = NoSource]
  /\ removals' = TRUE
  /\ UNCHANGED <<createVars, victim, read, cleanup>>

----------------------------------------------------------------------------
(* Background tasks *)

\* Mutant: a renamed source is only swept when it has a placeholder.
SweepReplaced(i) ==
  /\ table[i].status = "deleted"
  /\ \E h \in Ids : table[h].status # "absent" /\ table[h].filterText = i
  /\ Delete(i, cleanup)
  /\ UNCHANGED <<createVars, dpc, victim, read, faults>>

\* One source of delete_deleted_sources.
Sweep(i) ==
  /\ table[i].status = "deleted"
  /\ Delete(i, cleanup)
  /\ UNCHANGED <<createVars, dpc, victim, read, faults>>

\* delete_all_media_for_source, whose source may be gone already.
RunCleanup(i) ==
  /\ i \in cleanup
  /\ IF table[i].status = "absent"
       THEN cleanup' = cleanup \ {i} /\ UNCHANGED <<table, removals>>
       ELSE Delete(i, cleanup \ {i})
  /\ UNCHANGED <<createVars, dpc, victim, read, faults>>

\* It has no retries.
CleanupFails(i) ==
  /\ i \in cleanup
  /\ faults < MaxFaults
  /\ faults' = faults + 1
  /\ cleanup' = cleanup \ {i}
  /\ UNCHANGED <<table, createVars, dpc, victim, read, removals>>

----------------------------------------------------------------------------
Create(c) ==
  FindKey(c) \/ FindName(c) \/ FindDirectory(c) \/ CheckForm(c) \/ Save(c)

DeleteView(d) == Open(d) \/ Rename(d) \/ Refresh(d) \/ Replace(d) \/ Finish(d)

Background(i) == Sweep(i) \/ RunCleanup(i)

Fault ==
  \/ \E c \in Creators : SaveInterrupted(c)
  \/ \E d \in Deleters : DeleterDies(d) \/ FinishInterrupted(d)
  \/ \E i \in Ids : CleanupFails(i)

Next ==
  \/ \E c \in Creators : Create(c)
  \/ \E d \in Deleters : DeleteView(d)
  \/ \E i \in Ids : Background(i)
  \/ Fault

Spec == Init /\ [][Next]_vars

\* A request's handler goes on, and the hourly task comes round; nobody has
\* to delete anything, and a deletion may stop anywhere.
Fairness ==
  /\ \A c \in Creators : WF_vars(Create(c))
  /\ \A i \in Ids : WF_vars(Sweep(i))

FairSpec == Spec /\ Fairness

----------------------------------------------------------------------------
(* Properties *)

TypeOK ==
  /\ table \in [Ids -> RowType]
  /\ pc \in [Creators -> {"key", "name", "directory", "form", "save", "done"}]
  /\ origin \in [Creators -> {"request", "form", "save"}]
  /\ answer \in [Creators -> AnswerType]
  /\ dpc \in [Deleters -> {"idle", "opened", "renamed", "refreshed", "replaced", "done"}]
  /\ victim \in [Deleters -> Ids \cup {Nobody}]
  /\ read \in [Deleters -> IdentityType \cup {Nobody}]
  /\ cleanup \subseteq Ids
  /\ removals \in BOOLEAN
  /\ faults \in Nat

\* The identity each row in use owns.
owns == [i \in Ids |-> IF table[i].status = "live" THEN table[i].identity ELSE Nobody]

\* The abstract specification: owns is the table, seen by who owns which names.
Names == INSTANCE SourceNames WITH owns <- owns, answer <- answer

\* Every answer is true at the moment it is decided, whoever creates and
\* deletes meanwhile: a 201 took three free names, a 409 names the row that
\* has the key, a 400 namespace conflict saw the name or the directory in use.
AnswersAreTrue == Names!Spec

\* Two sources never answer to one key, name or directory, although checks
\* and INSERTs are separate statements and a deletion puts an identity back
\* that it read long before.
OneOwner == Names!Exclusive

\* What AnswersAreTrue rests on: a uuid is not in the table before its own
\* INSERT, whatever the other requests and deletions did.
Inserting ==
  /\ \A c \in Creators : pc[c] # "done" =>
       table[c].status = "absent" /\ answer[c] = Unanswered
  /\ \A d \in Deleters :
       /\ dpc[d] \in {"idle", "opened", "renamed", "refreshed"} => table[d].status = "absent"
       /\ dpc[d] # "idle" => victim[d] \in Ids /\ \E c \in Creators : read[d] = Want[c]
  /\ \A i \in Ids : table[i].status # "absent" =>
       \E c \in Creators : table[i].identity = Want[c]

IInv == TypeOK /\ Inserting

\* get-after-conflict works: unless a source is removed, or a process fails,
\* in the middle, a fit request that loses a race is told who won.  It never
\* ends in the bare re-raise, nor in a generic 400.
RaisesWithCause(c) ==
  answer[c].kind = "error" \/ (answer[c].kind = "invalid" /\ c \notin Unfit \cup Outside)
    => removals \/ faults > 0

NoSpuriousError == \A c \in Creators : RaisesWithCause(c)

\* Requests for one key that are told a uuid are told the same one, unless
\* a source was removed meanwhile.
Converge ==
  \A c, e \in Creators :
    /\ Want[c].key = Want[e].key
    /\ answer[c].uuid # Nobody /\ answer[e].uuid # Nobody
    /\ ~removals
    => answer[c].uuid = answer[e].uuid

\* What NoSpuriousError rests on: as long as nothing was removed, a request
\* that lost a race will still find its rival in one of the looks ahead of it.
Rivals(c) == UNION {Holders(f, Want[c]) : f \in
  CASE pc[c] = "name" -> {"name", "directory"}
    [] pc[c] = "directory" -> {"directory"}
    [] OTHER -> Fields}

SentBack(c) ==
  origin[c] # "request" /\ pc[c] # "done" =>
    /\ pc[c] \in {"key", "name", "directory"}
    /\ removals \/ faults > 0 \/ (origin[c] = "form" /\ c \in Unfit) \/ Rivals(c) # {}

\* What Converge rests on: the row that was told keeps the key it was told for.
Told(c) ==
  answer[c].uuid # Nobody => removals \/ answer[c].uuid \in Holders("key", Want[c])

RaceInv == \A c \in Creators : RaisesWithCause(c) /\ SentBack(c) /\ Told(c)

\* Every request is answered: looking again happens once at most.
Answered == \A c \in Creators : <>(answer[c].kind # "none")

\* A deletion that stops anywhere after the rename is finished in the end by
\* delete_deleted_sources.
DeletedGoes == \A i \in Ids : table[i].status = "deleted" ~> table[i].status = "absent"
=============================================================================
