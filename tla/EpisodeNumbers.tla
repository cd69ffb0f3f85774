--------------------------- MODULE EpisodeNumbers ---------------------------
(***************************************************************************)
(* The numbers {episode_mmddnn} gives the media of one source: the day of  *)
(* episode_date and a place within the day, kept by a file once its name   *)
(* carries it.  Media are indexed, dated, downloaded (one at a time, by    *)
(* the limited queue's only worker), renamed and removed in any order.     *)
(***************************************************************************)
EXTENDS Integers, FiniteSets

CONSTANTS
  Media,      \* media of the source
  Rank,       \* the order of their keys
  Dates,      \* what episode_date can be
  DayOf(_),   \* the day of a date
  Legacy,     \* media downloaded under a name without a number
  MaxChanges  \* bound: media indexed, dated and removed

ASSUME MediaAssumption ==
  /\ IsFiniteSet(Media) /\ "none" \notin Media
  /\ Legacy \subseteq Media
  /\ Rank \in [Media -> Nat] /\ \A m, n \in Media : Rank[m] = Rank[n] => m = n
  /\ MaxChanges \in Nat

VARIABLES
  rows,     \* media that have a row: date, stable, created, file
  job,      \* the download that is running
  changes,  \* how often the index changed
  overlap,  \* auxiliary: a file got its number while a download was running
  moved     \* auxiliary: media whose date left the day of their file's number

vars == <<rows, job, changes, overlap, moved>>

\* A file name: the day and the index it carries, or neither.
NoFile == [kind |-> "none", day |-> 0, index |-> 0]
Plain == [NoFile EXCEPT !.kind = "plain"]
Numbered(day, index) == [kind |-> "numbered", day |-> day, index |-> index]
NoJob == [of |-> "none", file |-> NoFile]

----------------------------------------------------------------------------
(* Numbers *)

Day(m) == DayOf(rows[m].date)
SameDay(m) == {n \in DOMAIN rows : n # m /\ Day(n) = Day(m)}

\* (episode_date, created, key)
Earlier(n, m) ==
  \/ rows[n].date < rows[m].date
  \/ rows[n].date = rows[m].date /\ rows[n].created < rows[m].created
  \/ rows[n].date = rows[m].date /\ rows[n].created = rows[m].created
       /\ Rank[n] < Rank[m]

\* _frozen_day_index: the name carries an index of the media's day.
Frozen(m) == rows[m].file.kind = "numbered" /\ rows[m].file.day = Day(m)

\* The i-th natural that is not taken.
NthFree(i, taken) ==
  CHOOSE n \in 1..(i + Cardinality(taken)) :
    n \notin taken /\ Cardinality((1..n) \ taken) = i

\* Mutants: the live place, whatever files carry; the file's own number not
\* looked at.
IndexLive(m) ==
  IF Frozen(m) THEN rows[m].file.index
  ELSE Cardinality({n \in SameDay(m) : Earlier(n, m)}) + 1
IndexRecounted(m) ==
  LET frozen == {n \in SameDay(m) : Frozen(n)}
      before == {n \in SameDay(m) : Earlier(n, m)}
  IN  NthFree(Cardinality(before \ frozen) + 1, {rows[n].file.index : n \in frozen})
\* _episode_day_index
Index(m) ==
  LET others == SameDay(m)
      frozen == {n \in others : Frozen(n)}
      before == {n \in others : Earlier(n, m)}
  IN  IF Frozen(m) THEN rows[m].file.index
      ELSE NthFree(Cardinality(before \ frozen) + 1,
                   {rows[n].file.index : n \in frozen})

NameOf(m) == Numbered(Day(m), Index(m))

\* nfo_episode_number and int(episode_mmddnn)
Number(mmdd, index) ==
  IF index <= 99 THEN mmdd * 100 + index
  ELSE 10000000 + mmdd * 10000 + index

\* _parse_episode_token: the index a token carries for a day, or 0.
TokenIndex(token, mmdd) ==
  LET rest == token - 10000000
  IN  IF token < 1000000
      THEN IF token \div 100 = mmdd /\ token % 100 >= 1 THEN token % 100 ELSE 0
      ELSE IF rest >= 0 /\ rest \div 10000 = mmdd /\ rest % 10000 > 99
           THEN rest % 10000 ELSE 0

----------------------------------------------------------------------------
(* What happens to media *)

\* Only a row whose metadata was never ingested can be dated anew; it has a
\* file if import-existing-media found one for it.
Dated(m, date) ==
  moved' = IF rows[m].file.kind = "numbered" /\ rows[m].file.day # DayOf(date)
           THEN moved \cup {m} ELSE moved

Set(m, row) == rows' = [n \in DOMAIN rows \cup {m} |-> IF n = m THEN row ELSE rows[n]]
Change == changes < MaxChanges /\ changes' = changes + 1
Clock == changes

\* index_source: a new row with an approximate date ...
IndexNew(m, date) ==
  /\ m \notin DOMAIN rows /\ Change
  /\ Set(m, [date |-> date, stable |-> FALSE, created |-> Clock, file |-> NoFile])
  /\ UNCHANGED <<job, overlap, moved>>

\* ... that every later listing may change, until metadata is ingested.
Redate(m, date) ==
  /\ m \in DOMAIN rows /\ ~rows[m].stable /\ rows[m].date # date /\ Change
  /\ Set(m, [rows[m] EXCEPT !.date = date])
  /\ Dated(m, date)
  /\ UNCHANGED <<job, overlap>>

Ingest(m, date) ==
  /\ m \in DOMAIN rows /\ ~rows[m].stable
  /\ Set(m, [rows[m] EXCEPT !.date = date, !.stable = TRUE])
  /\ Dated(m, date)
  /\ UNCHANGED <<job, changes, overlap>>

\* download_media_file renders the path when it starts.
StartDownload(m) ==
  /\ job = NoJob /\ m \in DOMAIN rows
  /\ rows[m].stable /\ rows[m].file = NoFile
  /\ job' = [of |-> m, file |-> NameOf(m)]
  /\ UNCHANGED <<rows, changes, overlap, moved>>

EndDownload ==
  /\ job # NoJob
  /\ rows' = IF job.of \in DOMAIN rows THEN [rows EXCEPT ![job.of].file = job.file]
             ELSE rows
  /\ job' = NoJob
  /\ UNCHANGED <<changes, overlap, moved>>

\* rename_files(): a file without a number of its media's day gets one.
Rename(m) ==
  /\ m \in DOMAIN rows /\ rows[m].file.kind # "none" /\ rows[m].file # NameOf(m)
  /\ Set(m, [rows[m] EXCEPT !.file = NameOf(m)])
  /\ overlap' = (overlap \/ job # NoJob)
  /\ moved' = moved \ {m}
  /\ UNCHANGED <<job, changes>>

\* Deleting a media leaves a skipped row with its key and date; that row may
\* be removed in its turn.
Delete(m) ==
  /\ m \in DOMAIN rows /\ m # job.of /\ Change
  /\ IF rows[m].file.kind = "none"
     THEN rows' = [n \in DOMAIN rows \ {m} |-> rows[n]]
     ELSE rows' = [rows EXCEPT ![m].file = NoFile]
  /\ moved' = moved \ {m}
  /\ UNCHANGED <<job, overlap>>

Init ==
  /\ \E dates \in [Legacy -> Dates], ingested \in SUBSET Legacy :
       rows = [m \in Legacy |-> [date |-> dates[m], stable |-> m \in ingested,
                                 created |-> 0, file |-> Plain]]
  /\ job = NoJob /\ changes = 0 /\ overlap = FALSE /\ moved = {}

Next ==
  \/ EndDownload
  \/ \E m \in Media :
       \/ StartDownload(m) \/ Rename(m) \/ Delete(m)
       \/ \E date \in Dates : IndexNew(m, date) \/ Redate(m, date) \/ Ingest(m, date)

Spec == Init /\ [][Next]_vars

----------------------------------------------------------------------------
(* Properties *)

Days == {0} \cup {DayOf(date) : date \in Dates}
FileType == [kind : {"none", "plain", "numbered"}, day : Days, index : Nat]
RowType == [date : Dates, stable : BOOLEAN, created : Nat, file : FileType]

TypeOK ==
  /\ \E known \in SUBSET Media : rows \in [known -> RowType]
  /\ job \in [of : Media, file : FileType] \cup {NoJob}
  /\ changes \in Nat
  /\ overlap \in BOOLEAN
  /\ moved \subseteq Media

\* No two files, nor a file and the download that is running, have the same
\* number, unless a file was renamed next to a download.  Left out are the
\* files whose media was dated to another day since: _episode_day_index no
\* longer counts them, until a rename gives them a number of that day.
FilesDistinct ==
  ~overlap =>
    /\ job # NoJob => \A n \in DOMAIN rows \ moved : rows[n].file # job.file
    /\ \A m, n \in DOMAIN rows \ moved :
         m # n /\ rows[m].file = rows[n].file => rows[m].file.kind # "numbered"

\* A file keeps its number, whatever else is indexed, dated, downloaded or
\* removed, unless its own media was dated to another day.
NumberKept ==
  [][\A m \in DOMAIN rows \ moved :
       m \in DOMAIN rows' /\ rows[m].file.kind = "numbered"
         /\ rows'[m].file.kind = "numbered" => rows'[m].file = rows[m].file]_vars

----------------------------------------------------------------------------
(* What these rest on *)

\* A number is one of the media's day, until the date leaves that day.
DatesSettled ==
  \A m \in DOMAIN rows \ moved : rows[m].file.kind = "numbered" => Frozen(m)

\* A media that is being downloaded keeps its row and date, and has no file.
JobSettled ==
  job # NoJob =>
    /\ job.of \in DOMAIN rows
    /\ rows[job.of].stable /\ rows[job.of].file = NoFile
    /\ job.file.kind = "numbered" /\ job.file.day = Day(job.of)

EpisodeInv == TypeOK /\ DatesSettled /\ JobSettled /\ FilesDistinct
=============================================================================
