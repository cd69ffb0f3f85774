------------------------------ MODULE Backfill ------------------------------
(***************************************************************************)
(* medianest_backfill_plex_sidecars --apply on one source, next to what    *)
(* else touches the source's files meanwhile: downloads that are running,  *)
(* the rename cascade that saving the source sets off, and the hourly      *)
(* schedule_indexing, which clears media locks.  The decisions are those   *)
(* of BackfillPlan; Media.rename_files(), which the command and the        *)
(* cascade share, is here step by step, since either may be stopped or     *)
(* overtaken between the move of the video and its bookkeeping.            *)
(***************************************************************************)
EXTENDS BackfillPlan, FiniteSets

CONSTANTS
  Order,       \* the media in the order of their keys
  Layouts,     \* what the disk and the rows may look like at first
  Old, New,    \* the profile the source has, and the one to be applied
  MaxRuns,     \* bound: times the command is run
  MaxTroubles  \* bound: kills, failed writes and cleared locks

ASSUME OrderAssumption == ToSet(Order) = Media /\ Len(Order) = Cardinality(Media)

VARIABLES
  disk,        \* what is in the source directory
  row,         \* Media.media_file
  downloaded,  \* media with downloaded=True
  profile,     \* the saved source's profile
  lock,        \* who holds a media's media:<uuid> lock
  cmd,         \* the command
  mover,       \* a rename_files() of the command or of the cascade
  dl,          \* a download_media_file() of a media
  cascade,     \* rename_all_media_for_source and its transaction
  budget,      \* runs, failures and clears so far
  kept         \* auxiliary: the files nothing may lose

others == <<dl, cascade>>
vars == <<disk, row, downloaded, profile, lock, cmd, mover, others, budget, kept>>

Movers == {"command", "cascade"}
Troubles == budget.failures + budget.clears
NoRows == [m \in Media |-> NoPath]
Idle == [phase |-> "none", of |-> "none", from |-> NoPath, to |-> NoPath,
         near |-> {}, keyed |-> {}]
Asleep == [pc |-> "idle", todo |-> <<>>, seen |-> {}, mem |-> NoRows, read |-> Old,
           run |-> NewRun({}), after |-> NewRun({}), round |-> 0, errors |-> 0,
           locked |-> 0, busy |-> FALSE, forecast |-> <<>>, reports |-> <<>>, calm |-> TRUE,
           again |-> FALSE, exit |-> "none"]
\* What is left to see of a run that is over.
Over(status) ==
  [Asleep EXCEPT !.seen = cmd.seen, !.read = cmd.read, !.locked = cmd.locked,
     !.forecast = cmd.forecast, !.reports = cmd.reports, !.calm = cmd.calm,
     !.again = cmd.again, !.exit = status]

Put(path, content) == [p \in DOMAIN disk \cup {path} |->
                         IF p = path THEN content ELSE disk[p]]
\* Path.replace: what was at "to" is gone.
MoveFile(from, to) == [p \in (DOMAIN disk \ {from}) \cup {to} |->
                         IF p = to THEN disk[from] ELSE disk[p]]

Sorted(S) == SelectSeq(Order, LAMBDA m : m \in S)

\* Nobody has written to the database without having committed.
Writable == cascade.rows = NoRows

\* A step of somebody else while the command runs.
Acted(a) == cmd' = [cmd EXCEPT !.calm = @ /\ a = "command"]
Disturb == Acted("other")

----------------------------------------------------------------------------
(* Media.rename_files() *)

\* Its guards; otherwise it returns, and nothing has happened.
CanMove(from, to) == from # to /\ from \in DOMAIN disk /\ to \notin DOMAIN disk

\* The video goes first; then its old neighbours and key matches are listed.
MoveVideo(a) ==
  LET v == mover[a]
  IN  /\ v.phase = "video"
      /\ IF CanMove(v.from, v.to)
         THEN /\ disk' = MoveFile(v.from, v.to)
              /\ mover' = [mover EXCEPT ![a] =
                   [v EXCEPT !.phase = "row",
                             !.near = OldStemFiles(disk', v.from),
                             !.keyed = KeyFiles(disk', v.of)]]
         ELSE /\ mover' = [mover EXCEPT ![a].phase = "stayed"]
              /\ UNCHANGED disk
      /\ Acted(a)
      /\ UNCHANGED <<row, downloaded, profile, lock, others, budget, kept>>

\* The cascade's task is one transaction, the command has none: what the
\* cascade saves is seen when the task ends, and others wait for it.
SaveRow(a) ==
  LET v == mover[a]
  IN  /\ v.phase = "row"
      /\ IF a = "cascade"
         THEN cascade' = [cascade EXCEPT !.rows[v.of] = v.to] /\ UNCHANGED row
         ELSE Writable /\ row' = [row EXCEPT ![v.of] = v.to] /\ UNCHANGED cascade
      /\ mover' = [mover EXCEPT ![a].phase = "files"]
      /\ Acted(a)
      /\ UNCHANGED <<disk, downloaded, profile, lock, dl, budget, kept>>

\* A file that starts with the old stem replaces what has its new name.
MoveNear(a, p) ==
  LET v == mover[a]
      to == Restem(p, Stem(v.from.name), v.to)
  IN  /\ v.phase = "files" /\ p \in v.near
      /\ disk' = IF p \in DOMAIN disk /\ p \notin {to, v.to} THEN MoveFile(p, to) ELSE disk
      /\ mover' = [mover EXCEPT ![a].near = @ \ {p}]
      /\ Acted(a)
      /\ UNCHANGED <<row, downloaded, profile, lock, others, budget, kept>>

\* Then a file with the key in its name, unless its new name is taken.
MoveKeyed(a, p) ==
  LET v == mover[a]
      to == Restem(p, FirstStem(p.name), v.to)
  IN  /\ v.phase = "files" /\ v.near = {} /\ p \in v.keyed
      /\ disk' = IF p \in DOMAIN disk /\ p # v.to /\ to \notin DOMAIN disk
                 THEN MoveFile(p, to) ELSE disk
      /\ mover' = [mover EXCEPT ![a].keyed = @ \ {p}]
      /\ Acted(a)
      /\ UNCHANGED <<row, downloaded, profile, lock, others, budget, kept>>

RewriteNfo(a) ==
  LET v == mover[a]
  IN  /\ v.phase = "files" /\ v.near = {} /\ v.keyed = {}
      /\ disk' = IF WriteNfo THEN Put(Sidecar(v.to, "nfo"), Nfo(v.of)) ELSE disk
      /\ mover' = [mover EXCEPT ![a].phase = "end"]
      /\ Acted(a)
      /\ UNCHANGED <<row, downloaded, profile, lock, others, budget, kept>>

RenameFiles(a) ==
  \/ MoveVideo(a) \/ SaveRow(a) \/ RewriteNfo(a)
  \/ \E p \in mover[a].near : MoveNear(a, p)
  \/ \E p \in mover[a].keyed : MoveKeyed(a, p)

----------------------------------------------------------------------------
(* The command, up to saving the source *)

\* A new run reads the source and its downloaded media.
Begin ==
  /\ cmd.pc = "idle" /\ budget.runs < MaxRuns
  /\ budget' = [budget EXCEPT !.runs = @ + 1]
  /\ LET refused == SourceProblem(disk, row, downloaded, New)
     IN  cmd' = [Asleep EXCEPT
           !.pc = IF refused THEN "idle" ELSE "gate",
           !.exit = IF refused THEN "nonzero" ELSE "none",
           !.todo = Sorted(downloaded), !.seen = downloaded,
           !.again = cmd.exit = "zero" /\ cmd.calm,
           !.read = profile, !.mem = row, !.run = NewRun({row[m] : m \in downloaded} \ {NoPath})]
  /\ UNCHANGED <<disk, row, downloaded, profile, lock, mover, others, kept>>

\* Something about the run or the source is odd: nothing is changed.
TurnAway ==
  /\ cmd.pc = "idle" /\ budget.runs < MaxRuns
  /\ budget' = [budget EXCEPT !.runs = @ + 1]
  /\ \E odd \in Oddities : cmd' = [Asleep EXCEPT !.exit = "nonzero"]
  /\ UNCHANGED <<disk, row, downloaded, profile, lock, mover, others, kept>>

\* Mutant: the source is saved on every run.
GateAlways ==
  /\ cmd.pc = "gate"
  /\ cmd' = [cmd EXCEPT !.pc = "save", !.forecast = DryRun(disk, cmd.mem, New, cmd.todo)]
  /\ UNCHANGED <<disk, row, downloaded, profile, lock, mover, others, budget, kept>>

\* _overlay_changes, _cascade_enabled_for, _in_flight_media
Changes == cmd.read # New
CascadeEnabled == cascade.on
InFlight(S) == {m \in S : lock[m] # "free"}

\* Before a save: nothing the cascade could clobber, and nobody busy.
Gate ==
  /\ cmd.pc = "gate"
  /\ LET forecast == DryRun(disk, cmd.mem, New, cmd.todo)
         changes == Changes
         refused == CascadeEnabled /\ \E i \in DOMAIN forecast : forecast[i].outcome = "refused"
         busy == InFlight(Media) # {}
     IN  cmd' = IF changes /\ (refused \/ busy)
                THEN Over("nonzero")
                ELSE [cmd EXCEPT !.pc = IF changes THEN "save" ELSE "next",
                                 !.forecast = forecast]
  /\ UNCHANGED <<disk, row, downloaded, profile, lock, mover, others, budget, kept>>

\* _save_overlay: refused when the fresh row is no longer the one that was
\* checked; otherwise the save schedules the cascade.
SaveOverlay ==
  /\ cmd.pc = "save"
  /\ Writable
  /\ IF profile = cmd.read
     THEN /\ profile' = New
          /\ cascade' = [cascade EXCEPT !.queued = cascade.on]
          /\ cmd' = [cmd EXCEPT !.pc = "next"]
     ELSE /\ cmd' = Over("nonzero")
          /\ UNCHANGED <<profile, cascade>>
  /\ UNCHANGED <<disk, row, downloaded, lock, mover, dl, budget, kept>>

----------------------------------------------------------------------------
(* The command, media by media *)

TakeMedia ==
  /\ cmd.pc = "next" /\ cmd.todo # <<>>
  /\ LET m == Head(cmd.todo)
     IN  IF lock[m] = "free"
         THEN /\ lock' = [lock EXCEPT ![m] = "command"]
              /\ cmd' = [cmd EXCEPT !.pc = "decide"]
         ELSE /\ cmd' = [cmd EXCEPT !.todo = Tail(@), !.locked = @ + 1]
              /\ UNCHANGED lock
  /\ UNCHANGED <<disk, row, downloaded, profile, mover, others, budget, kept>>

\* The media is done: its lock is released, whoever has it by now.
Leave(m, after) ==
  /\ lock' = [lock EXCEPT ![m] = "free"]
  /\ cmd' = [after EXCEPT !.pc = "next", !.todo = Tail(@)]

Refuse ==
  LET m == Head(cmd.todo)
      to == Target(m, New)
      outcome == Decide(disk, cmd.run, m, cmd.mem[m], to)
  IN  /\ cmd.pc = "decide" /\ outcome = "refused"
      /\ Leave(m, [cmd EXCEPT
           !.errors = @ + 1,
           !.run = Remember(disk, @, m, cmd.mem[m], to, outcome),
           !.reports = Append(@, Report(disk, cmd.run, m, to, outcome))])
      /\ UNCHANGED <<disk, row, downloaded, profile, mover, others, budget, kept>>

\* Already at its target, or moved there by a run that did not record it.
Accept ==
  LET m == Head(cmd.todo)
      to == Target(m, New)
      outcome == Decide(disk, cmd.run, m, cmd.mem[m], to)
  IN  /\ cmd.pc = "decide" /\ outcome \in {"in_place", "adopted"}
      /\ outcome = "adopted" => Writable
      /\ row' = IF outcome = "adopted" THEN [row EXCEPT ![m] = to] ELSE row
      /\ cmd' = [cmd EXCEPT
           !.pc = "sidecars",
           !.run = Remember(disk, @, m, cmd.mem[m], to, outcome),
           !.reports = Append(@, [outcome |-> outcome])]
      /\ UNCHANGED <<disk, downloaded, profile, lock, mover, others, budget, kept>>

StartRename ==
  LET m == Head(cmd.todo)
      to == Target(m, New)
  IN  /\ cmd.pc = "decide"
      /\ Decide(disk, cmd.run, m, cmd.mem[m], to) = "renamed"
      /\ mover' = [mover EXCEPT !["command"] =
           [Idle EXCEPT !.phase = "video", !.of = m, !.from = cmd.mem[m], !.to = to]]
      /\ cmd' = [cmd EXCEPT
           !.pc = "rename",
           !.after = Remember(disk, cmd.run, m, cmd.mem[m], to, "renamed")]
      /\ UNCHANGED <<disk, row, downloaded, profile, lock, others, budget, kept>>

\* rename_files() returned, and the media in memory says where its file is now:
\* if it could not be moved, the run remembers nothing of it.
EndRename ==
  LET m == Head(cmd.todo)
      refused == Report(disk, cmd.run, m, Target(m, New), "refused")
  IN  /\ cmd.pc = "rename" /\ mover["command"].phase \in {"end", "stayed"}
      /\ mover' = [mover EXCEPT !["command"] = Idle]
      /\ IF mover["command"].phase = "end"
         THEN /\ cmd' = [cmd EXCEPT
                   !.pc = "sidecars", !.run = cmd.after, !.after = NewRun({}),
                   !.reports = Append(@, [outcome |-> "renamed"])]
              /\ UNCHANGED lock
         ELSE Leave(m, [cmd EXCEPT !.errors = @ + 1, !.after = NewRun({}),
                          !.reports = Append(@, refused)])
      /\ UNCHANGED <<disk, row, downloaded, profile, others, budget, kept>>

\* _handle_episode_nfo and _handle_thumbnail.
Sidecars ==
  LET m == Head(cmd.todo)
      to == Target(m, New)
      last == Len(cmd.reports)
      report == Report(disk, cmd.run, m, to, cmd.reports[last].outcome)
      nfo == IF report.nfo = "written" THEN Put(Sidecar(to, "nfo"), Nfo(m)) ELSE disk
      thumb == Sidecar(to, "jpg")
  IN  /\ cmd.pc = "sidecars"
      /\ disk' = IF report.thumb
                 THEN [p \in DOMAIN nfo \cup {thumb} |->
                         IF p = thumb THEN Thumb(m) ELSE nfo[p]]
                 ELSE nfo
      /\ Leave(m, [cmd EXCEPT
           !.errors = @ + (IF report.nfo = "foreign" THEN 1 ELSE 0),
           !.reports[last] = report])
      /\ UNCHANGED <<row, downloaded, profile, mover, others, budget, kept>>

----------------------------------------------------------------------------
(* The command, at the end *)

\* _process_late_downloads: three times at most.
TakeLate ==
  LET late == downloaded \ cmd.seen
      bad == {m \in late : \E n \in Media \ {m} : Collide(disk, m, n, row, New)}
  IN  /\ cmd.pc = "next" /\ cmd.todo = <<>>
      /\ late # {} /\ cmd.round < 3
      /\ cmd' = [cmd EXCEPT
           !.round = @ + 1, !.seen = @ \cup late, !.errors = @ + Cardinality(bad),
           !.todo = Sorted(late \ bad),
           !.mem = [m \in Media |-> IF m \in late THEN row[m] ELSE @[m]],
           !.run.videos = @ \cup {row[m] : m \in late}]
      /\ UNCHANGED <<disk, row, downloaded, profile, lock, mover, others, budget, kept>>

\* There are no late ones, or too many rounds of them.
LateOver ==
  /\ cmd.pc = "next" /\ cmd.todo = <<>>
  /\ downloaded \subseteq cmd.seen \/ cmd.round = 3
  /\ cmd' = [cmd EXCEPT !.pc = "count"]
  /\ UNCHANGED <<disk, row, downloaded, profile, lock, mover, others, budget, kept>>

\* _count_in_flight, after a save.
CountInFlight ==
  /\ cmd.pc = "count"
  /\ cmd' = [cmd EXCEPT !.pc = "show",
                        !.busy = Changes /\ InFlight(Media \ downloaded) # {}]
  /\ UNCHANGED <<disk, row, downloaded, profile, lock, mover, others, budget, kept>>

\* _process_tvshow_and_images: a user's tvshow.nfo stays; then the exit status.
Finish ==
  LET mine == WriteNfo /\ (ShowNfo \in DOMAIN disk => disk[ShowNfo] = Show)
      good == cmd.errors = 0 /\ cmd.locked = 0 /\ ~cmd.busy
  IN  /\ cmd.pc = "show"
      /\ disk' = IF mine THEN Put(ShowNfo, Show) ELSE disk
      /\ cmd' = Over(IF good THEN "zero" ELSE "nonzero")
      /\ UNCHANGED <<row, downloaded, profile, lock, mover, others, budget, kept>>

\* tvshow.nfo cannot be written: an error.
ShowFails ==
  /\ cmd.pc = "show" /\ WriteNfo /\ Troubles < MaxTroubles
  /\ budget' = [budget EXCEPT !.failures = @ + 1]
  /\ cmd' = Over("nonzero")
  /\ UNCHANGED <<disk, row, downloaded, profile, lock, mover, others, kept>>

\* The process is killed: what it held stays held.
Kill ==
  /\ cmd.pc # "idle" /\ Troubles < MaxTroubles
  /\ budget' = [budget EXCEPT !.failures = @ + 1]
  /\ cmd' = Over("killed")
  /\ mover' = [mover EXCEPT !["command"] = Idle]
  /\ UNCHANGED <<disk, row, downloaded, profile, lock, others, kept>>

\* rename_files() raises, for the database is locked or a file cannot be
\* moved: an error of this media.
RenameRaises ==
  /\ mover["command"].phase \in {"row", "files"} /\ Troubles < MaxTroubles
  /\ budget' = [budget EXCEPT !.failures = @ + 1]
  /\ mover' = [mover EXCEPT !["command"] = Idle]
  /\ Leave(Head(cmd.todo), [cmd EXCEPT !.errors = @ + 1, !.after = NewRun({}),
                                       !.calm = FALSE])
  /\ UNCHANGED <<disk, row, downloaded, profile, others, kept>>

----------------------------------------------------------------------------
(* The others *)

\* rename_all_media_for_source, some time after the save.
CascadeBegin ==
  /\ cascade.queued
  /\ cascade' = [cascade EXCEPT !.queued = FALSE, !.todo = downloaded]
  /\ Disturb
  /\ UNCHANGED <<disk, row, downloaded, profile, lock, mover, dl, budget, kept>>

\* A media that is locked is left to rename_media, which tries again.
CascadeStart(m) ==
  /\ m \in cascade.todo /\ mover["cascade"].phase = "none" /\ lock[m] = "free"
  /\ lock' = [lock EXCEPT ![m] = "cascade"]
  /\ mover' = [mover EXCEPT !["cascade"] =
       [Idle EXCEPT !.phase = "video", !.of = m, !.from = row[m],
                    !.to = Target(m, profile)]]
  /\ Disturb
  /\ UNCHANGED <<disk, row, downloaded, profile, others, budget, kept>>

CascadeEnd ==
  LET m == mover["cascade"].of
  IN  /\ mover["cascade"].phase \in {"end", "stayed"}
      /\ mover' = [mover EXCEPT !["cascade"] = Idle]
      /\ lock' = [lock EXCEPT ![m] = "free"]
      /\ cascade' = [cascade EXCEPT !.todo = @ \ {m}]
      /\ Disturb
      /\ UNCHANGED <<disk, row, downloaded, profile, dl, budget, kept>>

\* The locks are long released when the transaction ends.
CascadeCommit ==
  /\ mover["cascade"].phase = "none" /\ ~Writable
  /\ row' = [m \in Media |-> IF cascade.rows[m] = NoPath THEN row[m] ELSE cascade.rows[m]]
  /\ cascade' = [cascade EXCEPT !.rows = NoRows]
  /\ Disturb
  /\ UNCHANGED <<disk, downloaded, profile, lock, mover, dl, budget, kept>>

\* It fails, or its worker is killed: no row is written, the files stay moved.
CascadeFails ==
  LET m == mover["cascade"].of
  IN  /\ mover["cascade"].phase \in {"row", "files"} \/ ~Writable
      /\ Troubles < MaxTroubles
      /\ budget' = [budget EXCEPT !.failures = @ + 1]
      /\ cascade' = [cascade EXCEPT !.queued = TRUE, !.todo = {}, !.rows = NoRows]
      /\ mover' = [mover EXCEPT !["cascade"] = Idle]
      /\ IF m \in Media THEN lock' \in {lock, [lock EXCEPT ![m] = "free"]} ELSE UNCHANGED lock
      /\ Disturb
      /\ UNCHANGED <<disk, row, downloaded, profile, dl, kept>>

\* download_media_file: the path is that of the source it read.
DownloadStart(m) ==
  /\ m \notin downloaded /\ dl[m].phase = "none" /\ lock[m] = "free"
  /\ lock' = [lock EXCEPT ![m] = "download"]
  /\ dl' = [dl EXCEPT ![m] = [phase |-> "file", path |-> Target(m, profile)]]
  /\ Disturb
  /\ UNCHANGED <<disk, row, downloaded, profile, mover, cascade, budget, kept>>

\* yt-dlp takes a file that is already there for a finished download.
DownloadFile(m) ==
  /\ dl[m].phase = "file"
  /\ IF dl[m].path \in DOMAIN disk THEN UNCHANGED <<disk, kept>>
     ELSE disk' = Put(dl[m].path, Video(m)) /\ kept' = kept \cup {Video(m)}
  /\ dl' = [dl EXCEPT ![m].phase = "row"]
  /\ Disturb
  /\ UNCHANGED <<row, downloaded, profile, lock, mover, cascade, budget>>

DownloadRow(m) ==
  /\ dl[m].phase = "row" /\ Writable
  /\ row' = [row EXCEPT ![m] = dl[m].path]
  /\ downloaded' = downloaded \cup {m}
  /\ dl' = [dl EXCEPT ![m].phase = "sidecars"]
  /\ Disturb
  /\ UNCHANGED <<disk, profile, lock, mover, cascade, budget, kept>>

\* rename_files() finds the video in place; copy_thumbnail and write_nfo_file
\* replace whatever has their name.
DownloadSidecars(m) ==
  LET nfo == Sidecar(dl[m].path, "nfo")
      jpg == Sidecar(dl[m].path, "jpg")
      made == (IF WriteNfo THEN {nfo} ELSE {})
                \cup (IF CopyThumbs THEN {jpg} ELSE {})
  IN  /\ dl[m].phase = "sidecars"
      /\ disk' = [p \in DOMAIN disk \cup made |->
                    IF p \notin made THEN disk[p]
                    ELSE IF p = nfo THEN Nfo(m) ELSE Thumb(m)]
      /\ dl' = [dl EXCEPT ![m] = [phase |-> "none", path |-> NoPath]]
      /\ lock' = [lock EXCEPT ![m] = "free"]
      /\ Disturb
      /\ UNCHANGED <<row, downloaded, profile, mover, cascade, budget, kept>>

Download(m) ==
  DownloadStart(m) \/ DownloadFile(m) \/ DownloadRow(m) \/ DownloadSidecars(m)

\* schedule_indexing clears the media locks of the source, held or not.
ClearLocks ==
  /\ Troubles < MaxTroubles
  /\ budget' = [budget EXCEPT !.clears = @ + 1]
  /\ lock' = [m \in Media |-> "free"]
  /\ Disturb
  /\ UNCHANGED <<disk, row, downloaded, profile, mover, others, kept>>

----------------------------------------------------------------------------
Init ==
  /\ \E layout \in Layouts :
       /\ disk = layout.disk /\ row = layout.row
       /\ downloaded = {m \in Media : layout.row[m] # NoPath}
       /\ kept = {layout.disk[p] : p \in DOMAIN layout.disk}
       /\ cascade = [on |-> layout.cascade, queued |-> FALSE,
                   todo |-> {}, rows |-> NoRows]
  /\ profile = Old
  /\ lock = [m \in Media |-> "free"]
  /\ cmd = Asleep
  /\ mover = [a \in Movers |-> Idle]
  /\ dl = [m \in Media |-> [phase |-> "none", path |-> NoPath]]
  /\ budget = [runs |-> 0, failures |-> 0, clears |-> 0]

Command ==
  \/ Begin \/ Gate \/ SaveOverlay
  \/ TakeMedia \/ Refuse \/ Accept \/ StartRename \/ EndRename \/ Sidecars
  \/ TakeLate \/ LateOver \/ CountInFlight \/ Finish

Next ==
  \/ Command \/ TurnAway \/ Kill \/ RenameRaises \/ ShowFails
  \/ \E a \in Movers : RenameFiles(a)
  \/ CascadeBegin \/ CascadeEnd \/ CascadeCommit \/ CascadeFails
  \/ ClearLocks
  \/ \E m \in Media : CascadeStart(m) \/ Download(m)

Spec == Init /\ [][Next]_vars

----------------------------------------------------------------------------
(* Properties *)

\* "Never deletes any file": neither the command, nor the cascade that its
\* save sets off, nor a download next to them replaces a file that is not the
\* same media's own NFO or thumbnail.
NothingLost == \A c \in kept : \E p \in DOMAIN disk : disk[p] = c

\* A row never names a file that is not its media's video, whatever was
\* killed or ran at the same time.
RowsOwn ==
  \A m \in downloaded :
    row[m] \in DOMAIN disk => disk[row[m]] = Video(m)

\* The same decisions lead --apply and the dry-run: when nobody else touched
\* the source, what was done to each media is what the gate's preflight, and
\* a dry-run, said.
ForecastHolds ==
  cmd.calm /\ cmd.exit \in {"zero", "nonzero"} /\ cmd.locked = 0 /\ cmd.reports # <<>> =>
    cmd.reports = cmd.forecast

\* A run that exits zero leaves every media it processed at its target with
\* its own video there, and none of its files under another name.  It processes
\* the late downloads it sees, and exits non-zero for those it counts in flight;
\* one that ends between these two looks is in neither, though _count_in_flight
\* says that a download that started before the save makes it exit non-zero.
CleanExit ==
  cmd.exit = "zero" /\ cmd.pc = "idle" /\ budget.clears = 0 =>
    \A m \in cmd.seen :
      LET to == Target(m, New)
      IN  /\ row[m] = to /\ to \in DOMAIN disk /\ disk[to] = Video(m)
          /\ \A p \in KeyFiles(disk, m) : p.dir = to.dir /\ IsPrefix(Stem(to.name), p.name)

\* "Resumable: a second --apply changes nothing": after a run that exited
\* zero, with nobody else about, no file, no row and no source is touched,
\* and the source is not even saved, which would set off the cascade.
SecondChangesNothing ==
  [][cmd.again /\ cmd.calm /\ cmd'.calm =>
       UNCHANGED <<disk, row, profile>> /\ cmd'.pc # "save"]_vars
=============================================================================
