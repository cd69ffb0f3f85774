----------------------------- MODULE MediaTasks -----------------------------
(***************************************************************************)
(* The life of one media: the tasks that index it, fetch its metadata,     *)
(* refresh its formats, download, save and delete it, the signals that     *)
(* schedule them, the forms of its page, and the two locks between them.   *)
(*                                                                         *)
(* The limited queue has one worker, so index_source,                      *)
(* download_media_metadata, refresh_formats and download_media_file never  *)
(* overlap; what they read when they start is written back, every column   *)
(* of it, when they end (worker.seen).  So do the forms (view.seen) and    *)
(* download_media_image (image).  The other tasks write inside one         *)
(* IMMEDIATE transaction.  TaskQueue models duplicates and retries: here   *)
(* the copies of a call are one, and a call that is retried may also have  *)
(* spent its retries.                                                      *)
(***************************************************************************)
EXTENDS Integers, FiniteSets

CONSTANTS
  MaxEvents,    \* bound: forms sent, settings changed, media unlisted, ... and
                \* failures, kills, restarts
  DeleteFiles   \* Source.delete_files_on_disk

ASSUME MediaTasksAssumption == MaxEvents \in Nat /\ DeleteFiles \in BOOLEAN

VARIABLES
  row,       \* the Media row
  table,     \* its Metadata: "none", "stub", "empty" (no usable format), "formats"
  disk,      \* the file at filepath exists
  source,    \* download: download_media, rule: what the filters say
  listed,    \* the site lists the video
  aired,     \* its date of publication: in the "future", "recent" (an hour), "past"
  queue,     \* calls that wait
  worker,    \* the limited queue's worker
  view,      \* the form that is being answered
  image,     \* the media as a running download_media_image read it
  deleting,  \* delete_media found the index lock free
  locks,     \* who took index_media:<uuid> and media:<uuid>
  ghost,     \* the TaskHistory row of a killed download still reads as running
  events

vars == <<row, table, disk, source, listed, aired, queue, worker, view, image, deleting,
          locks, ghost, events>>

\* A row: its uuid and whether it exists, manual_skip, skip, can_download,
\* downloaded, media_file, metadata, published.
Fields == {"there", "manual", "skip", "can", "down", "file", "pointer", "dated"}
Row(id, set) == [f \in Fields \cup {"id"} |-> IF f = "id" THEN id ELSE f \in set]
None == Row(0, {})
\* A uuid that neither the row nor a copy of it that is still held has.
NewId == CHOOSE i \in 1 .. 5 : i \notin {row.id, worker.seen.id, view.seen.id, image.id}

Metas == {"metadata", "metadata manually"}
Downloads == {"download", "download manually"}
LimitCalls == Metas \cup Downloads \cup {"refresh"}
\* The calls that name a media: without it they end at once.
MediaCalls == LimitCalls \cup {"migrate", "save", "delete"}
Idle == [task |-> "none", at |-> "idle", seen |-> None]
NoForm == [form |-> "none", seen |-> None]
NoLocks == [index |-> "free", media |-> "free"]

----------------------------------------------------------------------------
(* The Media model and its signals *)

HasMetadata(r) == r.pointer /\ table \in {"empty", "formats"}
Current(r) == row.there /\ row.id = r.id
Downloading == ghost \/ (worker.task \in Downloads /\ Current(worker.seen))
IndexOnly == ~source.download

\* Media.save(): a downloaded media finds its file again.
Corrected(r) ==
  IF r.down /\ ~r.file /\ disk THEN [r EXCEPT !.file = TRUE, !.skip = FALSE] ELSE r

\* The filters.  A rule stands for what the source filters by and this media
\* fails: the cap on its age, its title, or its length, which is not known
\* before there is metadata.
FilterPublished(r) == ~r.dated
FilterMaxCap(r) == r.dated /\ source.rule = "cap"
FilterText == source.rule = "text"
FilterDuration(has) == source.rule = "length" /\ has

\* filter_media: whether a media that is not downloaded is to be skipped.
FilterMedia(r, has) ==
  FilterPublished(r) \/ FilterMaxCap(r) \/ FilterText \/ FilterDuration(has)

\* Mutant: media_post_save without its last part.
PostSaveQuiet(r, t, f, running) == [row |-> r, calls |-> {}]

\* media_post_save, on the instance that was saved, with the metadata t and
\* the file f; running: a download task is.  What it schedules is "calls".
PostSave(r, t, f, running) ==
  LET has  == r.pointer /\ t \in {"empty", "formats"}
      r1   == IF r.down \/ running THEN r
              ELSE [r EXCEPT !.can = IF has THEN t = "formats" ELSE @,
                             !.skip = FilterMedia(r, has)]
      gone == ~f /\ ~running
      r2   == IF gone /\ r1.can /\ r1.down THEN [r1 EXCEPT !.skip = TRUE] ELSE r1
  IN  IF r.manual THEN [row |-> r, calls |-> {}]
      ELSE [row |-> r2,
            calls |->
              {c \in {"metadata"} : ~r1.skip /\ ~has /\ ~IndexOnly
                                      /\ worker.task \notin Metas}
              \cup {c \in {"download"} : source.download /\ r2.can /\ ~r2.skip
                                      /\ ~running /\ (gone \/ ~r2.down)}]

\* save() of an instance whose row is gone inserts it, unless the key is taken.
CanSave(r) == ~deleting /\ (row.there => Current(r))

\* Save r (with the metadata t and the file f) and tell the signal.
Save(r, t, f, more) ==
  LET saved == PostSave(Corrected(r), t, f, Downloading)
  IN  row' = saved.row /\ queue' = (queue \ more.done) \cup saved.calls \cup more.calls
Plus(done, calls) == [done |-> done, calls |-> calls]

\* A failed call is tried again, or has spent its retries.
Again(call) == queue' = queue \cup {call} \/ UNCHANGED queue

Event == events < MaxEvents /\ events' = events + 1

----------------------------------------------------------------------------
(* The limited queue's worker *)

\* Mutant: download_checklist does not look for the file.
ChecklistNoFile(r) ==
  source.download /\ ~r.skip /\ ~r.manual /\ HasMetadata(r) /\ source.rule # "cap"

\* download_checklist
Checklist(r) ==
  source.download /\ ~r.skip /\ ~r.manual /\ HasMetadata(r)
    /\ ~(r.down /\ disk) /\ source.rule # "cap"

\* What a task finds when it starts; otherwise it ends at once.
Ready(call) ==
  /\ row.there
  /\ call \in Metas => ~row.manual /\ (call = "metadata" => ~IndexOnly)
  /\ call = "download" => Checklist(row)
  /\ call = "refresh" => HasMetadata(row)

Begin(call) ==
  /\ worker = Idle /\ call \in queue
  /\ queue' = queue \ {call}
  /\ worker' = IF Ready(call) THEN [task |-> call, at |-> "waits", seen |-> row] ELSE Idle
  /\ UNCHANGED <<row, table, disk, source, listed, aired, view, image, deleting,
                 locks, ghost, events>>

\* After wait_for_errors the lock is taken; refresh_formats takes none.  The
\* lock of a row that is gone is a key nobody else looks at.
Lock ==
  LET l == IF worker.task \in Metas THEN "index" ELSE "media"
      free == worker.task = "refresh" \/ ~Current(worker.seen) \/ locks[l] = "free"
  IN  /\ worker.at = "waits"
      /\ IF free
         THEN /\ worker' = [worker EXCEPT !.at = "works"]
              /\ locks' = IF worker.task # "refresh" /\ Current(worker.seen)
                          THEN [locks EXCEPT ![l] = "worker"] ELSE locks
              /\ UNCHANGED queue
         ELSE /\ worker' = Idle /\ UNCHANGED locks
              /\ queue' = queue \cup {c \in {worker.task} : c # "download"}
      /\ UNCHANGED <<row, table, disk, source, listed, aired, view, image, deleting, ghost, events>>

Works(tasks) == worker.task \in tasks /\ worker.at = "works"
\* clear() does not ask who took the lock.
Unlocked(l) == IF Current(worker.seen) THEN [locks EXCEPT ![l] = "free"] ELSE locks

\* download_media_metadata gets what the site says: t is "formats", or "empty"
\* and then index_metadata marks the media.
MetadataLands(t) ==
  LET seen == [worker.seen EXCEPT !.pointer = TRUE, !.dated = TRUE]
      r == IF t = "empty" THEN [seen EXCEPT !.can = FALSE, !.skip = TRUE] ELSE seen
  IN  /\ Works(Metas) /\ aired # "future" /\ Current(r) /\ CanSave(r)
      /\ IF t = "empty" THEN Event ELSE UNCHANGED events
      /\ table' = t
      /\ Save(r, t, disk,
              Plus({}, {c \in {"download manually"} :
                          worker.task = "metadata manually" /\ IndexOnly
                            /\ PostSave(Corrected(r), t, disk, ghost).row.can}))
      /\ locks' = Unlocked("index") /\ worker' = Idle
      /\ UNCHANGED <<disk, source, listed, aired, view, image, deleting, ghost>>

MetadataFails ==
  /\ Works(Metas) /\ Event
  /\ locks' = Unlocked("index") /\ worker' = Idle /\ Again(worker.task)
  /\ UNCHANGED <<row, table, disk, source, listed, aired, view, image, deleting, ghost>>

\* An exception between the answer and save() leaves the lock taken; so it
\* is when the row is gone.
IngestFails ==
  /\ Works(Metas) /\ aired # "future" /\ (Current(worker.seen) => Event)
  /\ ~Current(worker.seen) => UNCHANGED events
  /\ locks' = IF Current(worker.seen) THEN [locks EXCEPT !.index = "nobody"] ELSE locks
  /\ worker' = Idle /\ Again(worker.task)
  /\ UNCHANGED <<row, table, disk, source, listed, aired, view, image, deleting, ghost>>

\* "Premieres in": the date is saved, the media is skipped until then, and
\* the task fails on the metadata it did not get.
Premieres ==
  /\ Works(Metas) /\ aired = "future"
  /\ IF CanSave(worker.seen)
     THEN row' = [worker.seen EXCEPT !.dated = TRUE, !.manual = TRUE]
     ELSE ~deleting /\ UNCHANGED row
  /\ locks' = Unlocked("index") /\ worker' = Idle /\ Again(worker.task)
  /\ UNCHANGED <<table, disk, source, listed, aired, view, image, deleting, ghost, events>>

\* refresh_formats
RefreshLands(t) ==
  LET r == [worker.seen EXCEPT !.skip = FALSE]
  IN  /\ Works({"refresh"}) /\ Current(r) /\ CanSave(r)
      /\ IF t = "empty" THEN Event ELSE UNCHANGED events
      /\ table' = t /\ Save(r, t, disk, Plus({}, {})) /\ worker' = Idle
      /\ UNCHANGED <<disk, source, listed, aired, view, image, deleting, locks, ghost>>
RefreshFails ==
  /\ Works({"refresh"}) /\ (Current(worker.seen) => Event)
  /\ ~Current(worker.seen) => UNCHANGED events
  /\ worker' = Idle /\ Again("refresh")
  /\ UNCHANGED <<row, table, disk, source, listed, aired, view, image, deleting, locks, ghost>>

\* download_media: yt-dlp writes the file.
FileWritten ==
  /\ Works(Downloads) /\ HasMetadata(worker.seen) /\ table = "formats"
  /\ disk' = TRUE /\ worker' = [worker EXCEPT !.at = "wrote"]
  /\ UNCHANGED <<row, table, source, listed, aired, queue, view, image, deleting,
                 locks, ghost, events>>

\* NoFormatException
NoFormat ==
  /\ Works(Downloads) /\ ~(HasMetadata(worker.seen) /\ table = "formats")
  /\ LET more == {c \in {"refresh"} : HasMetadata(worker.seen)}
     IN  \/ queue' = queue \cup more
         \/ worker.task = "download manually" /\ queue' = queue \cup more \cup {worker.task}
  /\ locks' = Unlocked("media") /\ worker' = Idle
  /\ UNCHANGED <<row, table, disk, source, listed, aired, view, image, deleting, ghost, events>>

\* FormatUnavailableError: failed_format drops the format, and the call is
\* retried; or the expected file is missing; or another error.
DownloadFails ==
  /\ Works(Downloads) /\ HasMetadata(worker.seen) /\ Event
  /\ \/ table' \in {"empty", "formats"} /\ queue' = queue \cup {worker.task}
     \/ /\ UNCHANGED table
        /\ \E more \in {{}, {"refresh"}} :
             \/ queue' = queue \cup more
             \/ worker.task = "download manually"
                  /\ queue' = queue \cup more \cup {worker.task}
  /\ locks' = Unlocked("media") /\ worker' = Idle
  /\ UNCHANGED <<row, disk, source, listed, aired, view, image, deleting, ghost>>

\* download_finished and save(); without its row the file is left behind.
Finish ==
  LET r == [worker.seen EXCEPT !.down = TRUE, !.file = TRUE, !.manual = FALSE, !.skip = FALSE]
  IN  /\ worker.at = "wrote" /\ ~deleting
      /\ IF CanSave(r) THEN Save(r, table, disk, Plus({}, {}))
         ELSE UNCHANGED <<row, queue>>
      /\ locks' = Unlocked("media") /\ worker' = Idle
      /\ UNCHANGED <<table, disk, source, listed, aired, view, image, deleting, ghost, events>>

\* The watchdog kills a download that takes too long and clears its lock; a
\* worker that dies otherwise leaves its locks.
Kill(watchdog) ==
  /\ worker # Idle /\ Event
  /\ watchdog => worker.task \in Downloads /\ worker.at # "waits"
  /\ ghost' = Downloading
  /\ locks' = IF watchdog THEN Unlocked("media")
              ELSE [l \in DOMAIN locks |-> IF locks[l] = "worker" THEN "nobody" ELSE locks[l]]
  /\ worker' = Idle
  /\ UNCHANGED <<row, table, disk, source, listed, aired, queue, view, image, deleting>>
GhostExpires ==
  /\ ghost /\ ghost' = FALSE
  /\ UNCHANGED <<row, table, disk, source, listed, aired, queue, worker, view, image, deleting,
                 locks, events>>

\* What an index of a listed media schedules: the thumbnails of a new one are
\* ImageStarts' calls.
IndexCalls == {"migrate", "save all"} \cup {c \in {"metadata"} : ~row.there /\ ~IndexOnly}

\* index_source: the row is created or found, its index lock taken until
\* migrate_to_metadata has run, and the checking tasks are scheduled.
Index ==
  /\ worker = Idle /\ ~deleting
  /\ IF listed
     THEN /\ \E dated \in {row.there /\ row.dated, TRUE} :
               row' = IF ~row.there THEN [Row(NewId, {"there"}) EXCEPT !.dated = dated]
                      ELSE [row EXCEPT !.dated = dated]
          /\ locks' = [locks EXCEPT !.index = IF @ = "free" THEN "migration" ELSE @]
          /\ queue' = queue \cup IndexCalls
     ELSE /\ queue' = queue \cup {"remove", "save all"}
          /\ UNCHANGED <<row, locks>>
  /\ UNCHANGED <<table, disk, source, listed, aired, worker, view, image, deleting, ghost, events>>

----------------------------------------------------------------------------
(* The other queues *)

\* Mutant: migrate_to_metadata leaves the index lock.
MigrateLocked ==
  /\ "migrate" \in queue /\ ~deleting
  /\ \/ ~row.there /\ queue' = queue \ {"migrate"} /\ UNCHANGED <<row, table, locks>>
     \/ /\ row.there /\ locks.media = "free" /\ UNCHANGED locks
        /\ IF row.pointer THEN queue' = queue \ {"migrate"} /\ UNCHANGED <<row, table>>
           ELSE LET t == IF table = "none" THEN "stub" ELSE table
                IN  table' = t /\ Save([row EXCEPT !.pointer = TRUE], t, disk, Plus({"migrate"}, {}))
  /\ UNCHANGED <<disk, source, listed, aired, worker, view, image, deleting, ghost, events>>

\* migrate_to_metadata: a media without metadata gets a stub of it.
Migrate ==
  /\ "migrate" \in queue /\ ~deleting
  /\ \/ ~row.there /\ queue' = queue \ {"migrate"} /\ UNCHANGED <<row, table, locks>>
     \/ /\ row.there /\ locks.media = "free"
        /\ locks' = [locks EXCEPT !.index = "free"]
        /\ IF row.pointer THEN queue' = queue \ {"migrate"} /\ UNCHANGED <<row, table>>
           ELSE LET t == IF table = "none" THEN "stub" ELSE table
                IN  table' = t /\ Save([row EXCEPT !.pointer = TRUE], t, disk, Plus({"migrate"}, {}))
  /\ UNCHANGED <<disk, source, listed, aired, worker, view, image, deleting, ghost, events>>

\* The locks were taken at every one of its tries; migrate_to_metadata then
\* leaves the index lock as it is.
GivesUp(call) ==
  /\ call \in queue /\ row.there /\ Event
  /\ IF call = "migrate" THEN locks.media # "free" ELSE locks # NoLocks
  /\ queue' = queue \ {call}
  /\ UNCHANGED <<row, table, disk, source, listed, aired, worker, view, image, deleting, locks,
                 ghost>>

\* save_all_media_for_source
SaveAll ==
  /\ "save all" \in queue
  /\ queue' = (queue \ {"save all"}) \cup
       IF ~row.there THEN {}
       ELSE IF ~row.can /\ ~row.skip /\ ~row.manual /\ ~row.down /\ HasMetadata(row)
            THEN {"refresh"} ELSE {"save"}
  /\ UNCHANGED <<row, table, disk, source, listed, aired, worker, view, image, deleting, locks,
                 ghost, events>>

\* save_media
SaveMedia ==
  /\ "save" \in queue /\ ~deleting /\ (row.there => locks = NoLocks)
  /\ IF row.there THEN Save(row, table, disk, Plus({"save"}, {}))
     ELSE queue' = queue \ {"save"} /\ UNCHANGED row
  /\ UNCHANGED <<table, disk, source, listed, aired, worker, view, image, deleting,
                 locks, ghost, events>>

\* Media.delete() and its signals: an unskipped media leaves a skipped row
\* under a new id, which finds the old metadata again.
DeleteRow ==
  /\ disk' = (disk /\ ~(DeleteFiles /\ row.down /\ row.file))
  /\ row' = IF row.skip THEN None
            ELSE [Row(NewId, {"there", "manual", "skip", "pointer"}) EXCEPT !.dated = row.dated]
  /\ table' = IF row.skip THEN "none" ELSE table
  /\ locks' = NoLocks /\ ghost' = FALSE

\* cleanup_removed_media takes both locks, or leaves it to delete_media.
CleanupRemoved ==
  /\ "remove" \in queue /\ ~deleting
  /\ IF row.there /\ ~listed /\ locks = NoLocks
     THEN DeleteRow /\ queue' = queue \ (MediaCalls \cup {"remove"})
     ELSE /\ queue' = (queue \ {"remove"}) \cup
                        {c \in {"delete"} : row.there /\ ~listed}
          /\ UNCHANGED <<row, table, disk, locks, ghost>>
  /\ UNCHANGED <<source, listed, aired, worker, view, image, deleting, events>>

\* cleanup_old_media, when a download has been kept long enough.
CleanupOld ==
  /\ row.there /\ ~deleting /\ row.down /\ locks = NoLocks /\ Event
  /\ DeleteRow /\ queue' = queue \ MediaCalls
  /\ UNCHANGED <<source, listed, aired, worker, view, image, deleting>>

\* Mutant: delete_media without the media lock.
DeleteEndsUnlocked ==
  /\ deleting /\ deleting' = FALSE
  /\ DeleteRow /\ queue' = queue \ MediaCalls
  /\ UNCHANGED <<source, listed, aired, worker, view, image, events>>

\* delete_media looks at the index lock, and takes the other one.
DeleteStarts ==
  /\ "delete" \in queue /\ ~deleting
  /\ IF row.there /\ locks.index = "free" THEN deleting' = TRUE /\ UNCHANGED queue
     ELSE UNCHANGED deleting /\ queue' = queue \ {"delete"}
  /\ UNCHANGED <<row, table, disk, source, listed, aired, worker, view, image,
                 locks, ghost, events>>
DeleteEnds ==
  /\ deleting /\ deleting' = FALSE
  /\ IF locks.media = "free" THEN DeleteRow /\ queue' = queue \ MediaCalls
     ELSE queue' = queue \ {"delete"} /\ UNCHANGED <<row, table, disk, locks, ghost>>
  /\ UNCHANGED <<source, listed, aired, worker, view, image, events>>

\* Mutant: wait_for_premiere for every skipped media.
UpcomingMediaAlways ==
  /\ row.there /\ ~deleting /\ row.manual /\ row.dated
  /\ Save([row EXCEPT !.manual = FALSE, !.skip = FALSE], table, disk, Plus({}, {}))
  /\ UNCHANGED <<table, disk, source, listed, aired, worker, view, image, deleting,
                 locks, ghost, events>>

\* upcoming_media, wait_for_premiere: of the last hour, or in the future.
UpcomingMedia ==
  /\ row.there /\ ~deleting /\ row.manual /\ row.dated /\ aired = "recent"
  /\ ~HasMetadata(row)
  /\ Save([row EXCEPT !.manual = FALSE, !.skip = FALSE], table, disk, Plus({}, {}))
  /\ UNCHANGED <<table, disk, source, listed, aired, worker, view, image, deleting,
                 locks, ghost, events>>

\* schedule_indexing clears media:<uuid>, whoever took it.
ClearLocks ==
  /\ locks.media # "free" /\ locks' = [locks EXCEPT !.media = "free"]
  /\ UNCHANGED <<row, table, disk, source, listed, aired, queue, worker, view, image, deleting,
                 ghost, events>>

\* A consumer starts again and flushes its queue's locks.
Restart(l) ==
  /\ locks[l] # "free" /\ Event /\ locks' = [locks EXCEPT ![l] = "free"]
  /\ UNCHANGED <<row, table, disk, source, listed, aired, queue, worker, view, image, deleting,
                 ghost>>

\* download_media_image takes no lock: it reads the media, fetches the
\* thumbnail, and saves what it read, every column of it.
ImageStarts ==
  /\ image = None /\ row.there /\ ~row.skip /\ ~row.manual /\ Event
  /\ image' = row
  /\ UNCHANGED <<row, table, disk, source, listed, aired, queue, worker, view, deleting,
                 locks, ghost>>
ImageEnds ==
  /\ image # None /\ ~deleting /\ image' = None
  /\ \/ CanSave(image) /\ Save(image, table, disk, Plus({}, {}))
     \/ UNCHANGED <<row, queue>>
  /\ UNCHANGED <<table, disk, source, listed, aired, worker, view, deleting, locks, ghost,
                 events>>

----------------------------------------------------------------------------
(* Users and the world *)

\* MediaSkipView, MediaEnableView and MediaRedownloadView read the media ...
Open(form) ==
  /\ view = NoForm /\ row.there /\ Event
  /\ view' = [form |-> form, seen |-> row]
  /\ UNCHANGED <<row, table, disk, source, listed, aired, queue, worker, image, deleting, locks,
                 ghost>>

\* MediaSkipView: the file goes, and what was known of the media.
Skipped(r) ==
  [r EXCEPT !.file = FALSE, !.pointer = FALSE, !.down = FALSE, !.skip = TRUE, !.manual = TRUE]

\* MediaRedownloadView: the file goes; what can be downloaded is, at once,
\* and what has no metadata gets it first.
Redownloaded(r) ==
  [r EXCEPT !.file = FALSE, !.down = FALSE, !.skip = FALSE, !.manual = FALSE]
RedownloadCalls(r) ==
  IF r.can THEN {"refresh", "download manually"}
  ELSE {c \in {"metadata manually"} : ~HasMetadata(r)}

\* MediaEnableView
Enabled(r) == [r EXCEPT !.skip = FALSE, !.manual = FALSE]

\* ... and save what they read.
Answer ==
  LET seen == view.seen
      r == CASE view.form = "skip" -> Skipped(seen)
             [] view.form = "redownload" -> Redownloaded(seen)
             [] OTHER -> Enabled(seen)
      calls == IF view.form = "redownload" THEN RedownloadCalls(seen) ELSE {}
  IN  /\ view # NoForm /\ ~deleting /\ view' = NoForm
      /\ disk' = (disk /\ ~(seen.file /\ view.form \in {"skip", "redownload"}))
      /\ IF CanSave(r) THEN Save(r, table, disk', Plus({}, calls))
         ELSE row' = row /\ queue' = queue \cup calls
      /\ UNCHANGED <<table, source, listed, aired, worker, image, deleting, locks, ghost, events>>

\* A changed source has all its media checked.
EditSource ==
  /\ Event
  /\ source' \in [download : BOOLEAN, rule : {"keep", "cap", "text", "length"}] \ {source}
  /\ queue' = queue \cup {"save all"}
  /\ UNCHANGED <<row, table, disk, listed, aired, worker, view, image, deleting, locks, ghost>>
Unlist ==
  /\ Event /\ listed' = ~listed
  /\ UNCHANGED <<row, table, disk, source, aired, queue, worker, view, image, deleting, locks,
                 ghost>>
FileVanishes ==
  /\ Event /\ disk /\ disk' = FALSE
  /\ UNCHANGED <<row, table, source, listed, aired, queue, worker, view, image, deleting, locks,
                 ghost>>
TimePasses ==
  /\ aired # "past" /\ aired' = IF aired = "future" THEN "recent" ELSE "past"
  /\ UNCHANGED <<row, table, disk, source, listed, queue, worker, view, image, deleting, locks,
                 ghost, events>>

----------------------------------------------------------------------------
Init ==
  /\ row = None /\ table = "none" /\ disk = FALSE
  /\ source \in [download : BOOLEAN, rule : {"keep"}]
  /\ listed = TRUE /\ aired \in {"future", "past"}
  /\ queue = {} /\ worker = Idle /\ view = NoForm /\ image = None
  /\ deleting = FALSE
  /\ locks = NoLocks /\ ghost = FALSE /\ events = 0

\* What the worker does when nothing fails.
Work ==
  \/ \E call \in LimitCalls : Begin(call)
  \/ Lock \/ MetadataLands("formats") \/ Premieres \/ RefreshLands("formats")
  \/ FileWritten \/ NoFormat \/ Finish
  \/ ~Current(worker.seen) /\ (IngestFails \/ RefreshFails)
Failures ==
  \/ MetadataLands("empty") \/ MetadataFails \/ IngestFails
  \/ RefreshLands("empty") \/ RefreshFails \/ DownloadFails
  \/ Kill(TRUE) \/ Kill(FALSE) \/ GivesUp("migrate") \/ GivesUp("save")
  \/ \E l \in {"index", "media"} : Restart(l)
Others ==
  \/ Migrate \/ SaveAll \/ SaveMedia \/ CleanupRemoved \/ DeleteStarts \/ DeleteEnds
  \/ ClearLocks \/ GhostExpires \/ ImageStarts \/ ImageEnds
Users ==
  \/ \E form \in {"skip", "enable", "redownload"} : Open(form)
  \/ EditSource \/ Unlist \/ FileVanishes \/ TimePasses

Next == Work \/ Failures \/ Others \/ Index \/ CleanupOld \/ UpcomingMedia \/ Answer \/ Users

\* The worker and the other queues go on.  The index task comes every hour,
\* with a higher priority than what it competes with for the worker, and its
\* locks are held for about a minute: the retries of a call, ten minutes
\* apart, do not all meet them, and meanwhile the other calls have their turn.
Fairness ==
  /\ WF_vars(Work) /\ SF_vars(Index) /\ WF_vars(Answer) /\ WF_vars(ImageEnds)
  /\ SF_vars(Migrate) /\ WF_vars(SaveAll) /\ SF_vars(SaveMedia) /\ WF_vars(CleanupRemoved)
  /\ WF_vars(DeleteStarts) /\ WF_vars(DeleteEnds) /\ WF_vars(ClearLocks)
  /\ WF_vars(GhostExpires)
  /\ \A call \in LimitCalls : SF_vars(locks = NoLocks /\ Begin(call))

Spec == Init /\ [][Next]_vars /\ Fairness

----------------------------------------------------------------------------
(* Properties *)

RowType ==
  [id : 0..5, there : BOOLEAN, manual : BOOLEAN, skip : BOOLEAN, can : BOOLEAN,
   down : BOOLEAN, file : BOOLEAN, pointer : BOOLEAN, dated : BOOLEAN]
SourceType == [download : BOOLEAN, rule : {"keep", "cap", "text", "length"}]
WorkerType ==
  [task : LimitCalls \cup {"none"}, at : {"idle", "waits", "works", "wrote"}, seen : RowType]
ViewType == [form : {"none", "skip", "enable", "redownload"}, seen : RowType]
Holders == {"free", "worker", "migration", "nobody"}

TypeOK ==
  /\ row \in RowType
  /\ table \in {"none", "stub", "empty", "formats"}
  /\ disk \in BOOLEAN
  /\ source \in SourceType
  /\ listed \in BOOLEAN
  /\ aired \in {"future", "recent", "past"}
  /\ queue \subseteq MediaCalls \cup {"save all", "remove"}
  /\ worker \in WorkerType
  /\ view \in ViewType
  /\ image \in RowType
  /\ deleting \in BOOLEAN
  /\ locks \in [index : Holders, media : Holders]
  /\ ghost \in BOOLEAN
  /\ events \in Nat

\* While a download holds the media's lock the row stays: neither
\* delete_media nor the cleanups delete the media it is about to save.
NotUnderneath ==
  [][locks.media = "worker" => row'.there /\ row'.id = row.id]_vars

\* What the user skipped comes back only by a form, by a task that had read
\* the media before, by a download the user asked for, or as a premiere of
\* the last hour without metadata.
SkipStays ==
  [][row.there /\ row.manual /\ row'.there /\ row'.id = row.id /\ ~row'.manual =>
       \/ view' # view
       \/ image' # image /\ ~image.manual
       \/ worker' # worker /\ (~worker.seen.manual \/ worker.task \in Downloads)
       \/ aired = "recent" /\ row.dated /\ ~HasMetadata(row)]_vars

\* An automatic download never writes over a file the media already records:
\* whatever was downloaded after the call was scheduled, the checklist sees it.
NotAgain ==
  [][worker.at = "works" /\ worker'.at = "wrote" /\ worker.task = "download" =>
       ~(worker.seen.down /\ disk)]_vars

\* Once nothing fails any more, a media the source wants is downloaded and
\* its file is there: whatever was lost, the hourly index finds it again.
Wanted ==
  row.there /\ listed /\ source.download /\ source.rule = "keep" /\ ~row.manual /\ ~row.skip
Settles == <>[](Wanted => row.down /\ disk)

\* A lock that nobody gives back is not kept for ever while the media is
\* listed: the next index has it migrated, and clears the other one.
LocksFreed ==
  <>[]listed => []<>(locks.index = "free") /\ []<>(locks.media = "free")

----------------------------------------------------------------------------
(* What the properties of the steps rest on *)

\* A worker that holds the media's lock is downloading the media as it is:
\* the row it read is still there.
LockHeld ==
  locks.media = "worker" =>
    worker.task \in Downloads /\ worker.at \in {"works", "wrote"} /\ Current(worker.seen)

\* Nothing but the download itself brings a file.
FileAwaited ==
  worker.task = "download" /\ worker.at \in {"waits", "works"} => ~(worker.seen.down /\ disk)

\* Whatever is held of the media was read from a row.
ReadsHeld ==
  /\ image # None => image.there
  /\ view # NoForm => view.seen.there
  /\ worker.at # "idle" => worker.seen.there
  /\ worker.at = "idle" <=> worker.task = "none"
  /\ worker.at = "wrote" => worker.task \in Downloads

MediaInv == TypeOK /\ LockHeld /\ FileAwaited /\ ReadsHeld
=============================================================================
