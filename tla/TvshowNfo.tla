----------------------------- MODULE TvshowNfo -----------------------------
(***************************************************************************)
(* The tvshow.nfo of one source and the show title in its episodes' nfo    *)
(* files (sync/tvshow_nfo.py): tasks in several threads and processes that *)
(* write the file and look the title up, beside a channel that changes its *)
(* name and a user who edits the file.                                     *)
(*                                                                         *)
(* A title of the channel is its number, counted up by every change; 0 is  *)
(* the name of the source, used while there are no data.                   *)
(***************************************************************************)
EXTENDS Integers

CONSTANTS
  Threads,     \* the tasks' threads
  ProcessOf,   \* the process each thread belongs to
  MaxNames,    \* bound: names the channel takes
  MaxEvents    \* bound: edits of the user's, failures, processes that die

UserTitle == -1    \* the title in a file of the user's
NoTitle == -2

Processes == {ProcessOf[t] : t \in Threads}

ASSUME ShowAssumption == {MaxNames, MaxEvents} \subseteq Nat

VARIABLES
  name,        \* the title the database has now
  nfo,         \* tvshow.nfo: whose it is, and its title
  thread,      \* where each task is, and what it has read
  cache,       \* _show_title_cache of each process, for this source
  told,        \* the title the last episode of each process got
  refreshed,   \* the newest title a process had when it dropped its cache
  events

showVars == <<name, nfo, thread, cache, told, refreshed, events>>

----------------------------------------------------------------------------
(* The file *)

\* own: carries the source's id and a matching checksum, as only write_tvshow_nfo
\*   makes it; the others are the user's:
\* theirs: another tvshow.nfo, an edited one, or a link to one: it has a title
\* opaque: what is no XML, another kind of NFO, a dead link, no regular file
Absent == [is |-> "absent", title |-> NoTitle]
Own(title) == [is |-> "own", title |-> title]
Theirs == [is |-> "theirs", title |-> UserTitle]
Opaque == [is |-> "opaque", title |-> NoTitle]

\* Mutants: a file that cannot be parsed is nobody's; any file stays.
ForeignParsed == nfo.is = "theirs"
ForeignAny == nfo.is # "absent"

\* _foreign_nfo_reason
Foreign == nfo.is \in {"theirs", "opaque"}

\* What an episode should name now.
ShowTitle == IF nfo.is = "theirs" THEN nfo.title ELSE name

\* touched: the user changed the file since the thread looked at it; old: the
\* cache's generation moved since the lookup read it.
Idle == [at |-> "idle", title |-> NoTitle, touched |-> FALSE, old |-> FALSE]

ShowInit ==
  /\ name = 0 /\ nfo = Absent
  /\ thread = [t \in Threads |-> Idle]
  /\ cache = [p \in Processes |-> NoTitle]
  /\ told = [p \in Processes |-> NoTitle]
  /\ refreshed = [p \in Processes |-> NoTitle]
  /\ events = 0

Goes(t, at, title) == thread' = [thread EXCEPT ![t].at = at, ![t].title = title]
Finishes(t) == thread' = [thread EXCEPT ![t] = Idle]
Event == events < MaxEvents /\ events' = events + 1

----------------------------------------------------------------------------
(* write_tvshow_nfo *)

\* build_tvshow_nfo, in its transaction
Build(t) ==
  /\ thread[t].at = "idle"
  /\ Goes(t, "built", name)
  /\ UNCHANGED <<name, nfo, cache, told, refreshed, events>>

\* _tvshow_nfo_content_to_write: no write when the bytes match or the file is
\* not this writer's.
LookAtFile(t) ==
  /\ thread[t].at = "built"
  /\ Goes(t, IF nfo = Own(thread[t].title) \/ Foreign THEN "keep" ELSE "replace", thread[t].title)
  /\ UNCHANGED <<name, nfo, cache, told, refreshed, events>>

\* _invalidate_show_title_cache drops the entry and moves the generation.
Invalidate(t) ==
  LET p == ProcessOf[t]
      then == IF thread[t].at = "replace" THEN [thread[t] EXCEPT !.at = "write"] ELSE Idle
  IN /\ thread[t].at \in {"keep", "replace"}
     /\ cache' = [cache EXCEPT ![p] = NoTitle]
     /\ refreshed' = [refreshed EXCEPT ![p] = IF @ < thread[t].title THEN thread[t].title ELSE @]
     /\ thread' = [u \in Threads |->
          IF u = t THEN then
          ELSE [thread[u] EXCEPT !.old = @ \/ (ProcessOf[u] = p
                                  /\ thread[u].at \in {"asked", "data", "found"})]]
     /\ UNCHANGED <<name, nfo, told, events>>

\* write_text_file: a new file in the place of the old one.
WriteFile(t) ==
  /\ thread[t].at = "write"
  /\ nfo' = Own(thread[t].title)
  /\ Finishes(t)
  /\ UNCHANGED <<name, cache, told, refreshed, events>>

\* An error is logged and the task goes on.
WriteFails(t) ==
  /\ thread[t].at \in {"built", "write"} /\ Event
  /\ Finishes(t)
  /\ UNCHANGED <<name, nfo, cache, told, refreshed>>

----------------------------------------------------------------------------
(* resolve_show_title *)

\* Under the lock: the entry, or else the generation.
StartLookup(t) ==
  LET p == ProcessOf[t]
  IN /\ thread[t].at = "idle"
     /\ IF cache[p] # NoTitle
          THEN told' = [told EXCEPT ![p] = cache[p]] /\ UNCHANGED thread
          ELSE Goes(t, "asked", NoTitle) /\ UNCHANGED told
     /\ UNCHANGED <<name, nfo, cache, refreshed, events>>

\* _preserved_show_title
LookForeign(t) ==
  /\ thread[t].at = "asked"
  /\ IF nfo.is = "theirs" THEN Goes(t, "found", nfo.title) ELSE Goes(t, "data", NoTitle)
  /\ UNCHANGED <<name, nfo, cache, told, refreshed, events>>

\* _resolve_show_title_from_data, _display_title
ReadData(t) ==
  /\ thread[t].at = "data"
  /\ Goes(t, "found", name)
  /\ UNCHANGED <<name, nfo, cache, told, refreshed, events>>

\* A mutant: the generation is not compared.
StoreAlways(t) ==
  LET p == ProcessOf[t]
  IN /\ thread[t].at = "found"
     /\ cache' = [cache EXCEPT ![p] = thread[t].title]
     /\ told' = [told EXCEPT ![p] = thread[t].title]
     /\ Finishes(t)
     /\ UNCHANGED <<name, nfo, refreshed, events>>

\* _store_show_title, and the answer either way
Store(t) ==
  LET p == ProcessOf[t]
  IN /\ thread[t].at = "found"
     /\ cache' = [cache EXCEPT ![p] = IF thread[t].old THEN @ ELSE thread[t].title]
     /\ told' = [told EXCEPT ![p] = thread[t].title]
     /\ Finishes(t)
     /\ UNCHANGED <<name, nfo, refreshed, events>>

\* A database or file error gives the name of the source, uncached.
LookupFails(t) ==
  /\ thread[t].at \in {"asked", "data"} /\ Event
  /\ told' = [told EXCEPT ![ProcessOf[t]] = 0]
  /\ Finishes(t)
  /\ UNCHANGED <<name, nfo, cache, refreshed>>

\* The entry's time to live runs out.
Expire(p) ==
  /\ cache[p] # NoTitle
  /\ cache' = [cache EXCEPT ![p] = NoTitle]
  /\ UNCHANGED <<name, nfo, thread, told, refreshed, events>>

----------------------------------------------------------------------------
(* The world *)

\* New metadata carry another name of the channel.
Rename ==
  /\ name < MaxNames /\ name' = name + 1
  /\ UNCHANGED <<nfo, thread, cache, told, refreshed, events>>

\* The user edits, replaces or removes the file.
Edit ==
  /\ Event
  /\ nfo' \in {Theirs, Opaque, Absent} \ {nfo}
  /\ thread' = [t \in Threads |->
       [thread[t] EXCEPT !.touched = @ \/ thread[t].at \in {"keep", "replace", "write"}]]
  /\ UNCHANGED <<name, cache, told, refreshed>>

\* A process dies with its threads and its cache, and starts again.
Die(p) ==
  /\ Event
  /\ thread' = [t \in Threads |-> IF ProcessOf[t] = p THEN Idle ELSE thread[t]]
  /\ cache' = [cache EXCEPT ![p] = NoTitle]
  /\ refreshed' = [refreshed EXCEPT ![p] = NoTitle]
  /\ UNCHANGED <<name, nfo, told>>

GoesOn(t) ==
  LookAtFile(t) \/ Invalidate(t) \/ WriteFile(t) \/ LookForeign(t) \/ ReadData(t) \/ Store(t)

ShowNext ==
  \/ \E t \in Threads : Build(t) \/ StartLookup(t) \/ GoesOn(t) \/ WriteFails(t) \/ LookupFails(t)
  \/ \E p \in Processes : Expire(p) \/ Die(p)
  \/ Rename \/ Edit

\* index_source and the metadata tasks call write_tvshow_nfo again and again, and
\* so do the tasks that write episodes; a call that began goes on; time passes.
ShowFair ==
  /\ \A t \in Threads : WF_showVars(GoesOn(t))
  /\ SF_showVars(\E t \in Threads : Build(t))
  /\ \A p \in Processes :
       /\ SF_showVars(\E t \in Threads : ProcessOf[t] = p /\ StartLookup(t))
       /\ SF_showVars(Expire(p))

ShowSpec == ShowInit /\ [][ShowNext]_showVars

----------------------------------------------------------------------------
(* Properties *)

TitleType == Nat \cup {UserTitle, NoTitle}

Places == {"idle", "built", "keep", "replace", "write", "asked", "data", "found"}

ThreadType == [at : Places, title : TitleType, touched : BOOLEAN, old : BOOLEAN]

TypeOK ==
  /\ name \in Nat
  /\ nfo \in [is : {"absent", "own", "theirs", "opaque"}, title : TitleType]
  /\ thread \in [Threads -> ThreadType]
  /\ cache \in [Processes -> TitleType]
  /\ told \in [Processes -> TitleType]
  /\ refreshed \in [Processes -> TitleType]
  /\ events \in Nat

\* A process that has rebuilt the show from data never again names an episode
\* after older data out of its cache, though lookups that read the older data
\* were running at the time (the generation in _store_show_title).
CacheCurrent ==
  \A p \in Processes : cache[p] \in Nat => cache[p] >= refreshed[p]

\* write_tvshow_nfo replaces a file of the user's only if the user put it there
\* after the writer had looked.
UserFileKept ==
  [][(nfo.is \in {"theirs", "opaque"} /\ nfo'.is = "own") =>
       \E t \in Threads : thread[t].at = "write" /\ thread[t].touched /\ thread'[t] # thread[t]
    ]_showVars

\* What CacheCurrent rests on: nobody holds a title the channel did not have
\* yet, and a lookup that may still store one has it from after the last rebuild.
Found(t) ==
  thread[t].at = "found" /\ ~thread[t].old /\ thread[t].title \in Nat
    => thread[t].title >= refreshed[ProcessOf[t]]

TitlesCurrent ==
  /\ \A t \in Threads : thread[t].title <= name /\ Found(t)
  /\ \A p \in Processes : refreshed[p] <= name
  /\ nfo.is = "theirs" => nfo = Theirs
  /\ CacheCurrent

\* What UserFileKept rests on: a writer that goes on to write saw a file of its
\* own, or none.
WriterLooked ==
  \A t \in Threads :
    thread[t].at \in {"replace", "write"} /\ ~thread[t].touched => ~Foreign

ShowInv == TypeOK /\ TitlesCurrent /\ WriterLooked

\* However writers, caches and renames overlap, in the end tvshow.nfo carries the
\* channel's last name or is the user's, and every process gives the episodes the
\* title that file carries ("self-healing", tvshow_nfo.py:580).
Healed ==
  /\ nfo = Own(name) \/ nfo.is \in {"theirs", "opaque"}
  /\ \A p \in Processes : told[p] = ShowTitle
ShowHeals == <>[]Healed
=============================================================================
