-------------------------- MODULE MediaTasksProofs --------------------------
(***************************************************************************)
(* Proofs about MediaTasks, for any number of forms, failures, kills and   *)
(* restarts: the row of a download stays, a skipped media is left skipped, *)
(* and an automatic download does not write over a file.                   *)
(***************************************************************************)
EXTENDS MediaTasks, TLAPS

Tables == {"none", "stub", "empty", "formats"}
Calls == MediaCalls \cup {"save all", "remove"}

----------------------------------------------------------------------------
(* Rows *)

\* What a row made from its uuid and its columns is.
LEMMA RowFacts ==
  ASSUME NEW i \in 0..5, NEW set
  PROVE  /\ Row(i, set) \in RowType /\ Row(i, set).id = i
         /\ Row(i, set).there <=> "there" \in set
         /\ Row(i, set).manual <=> "manual" \in set
<1>1. Row(i, set).id = i
  BY DEF Row, Fields
<1>2. \A f \in Fields : Row(i, set)[f] = (f \in set)
  BY DEF Row, Fields
<1>3. DOMAIN Row(i, set) = Fields \cup {"id"}
      /\ Row(i, set) = [f \in Fields \cup {"id"} |-> Row(i, set)[f]]
  BY DEF Row
<1>4. \A f \in Fields : Row(i, set)[f] \in BOOLEAN
  <2> SUFFICES ASSUME NEW f \in Fields PROVE Row(i, set)[f] \in BOOLEAN
    OBVIOUS
  <2>1. (f \in set) \in BOOLEAN
    BY SMT
  <2>2. Row(i, set)[f] = (f \in set)
    BY <1>2
  <2> QED BY <2>1, <2>2, Zenon
<1>5. Row(i, set) \in RowType
  BY <1>1, <1>3, <1>4 DEF Fields, RowType
<1> QED BY <1>1, <1>2, <1>5 DEF Fields

LEMMA NoneFacts == None \in RowType /\ ~None.there
BY RowFacts DEF None

\* There is a uuid that nothing has.
LEMMA NewIdFacts ==
  ASSUME TypeOK
  PROVE  NewId \in 0..5 /\ NewId # row.id
<1> DEFINE Used == {row.id, worker.seen.id, view.seen.id, image.id}
<1>1. \E i \in 1..5 : i \notin Used
  OBVIOUS
<1>2. NewId \in 1..5 /\ NewId \notin Used
  <2> HIDE DEF Used
  <2>1. NewId = CHOOSE i \in 1..5 : i \notin Used
    BY DEF NewId, Used
  <2> QED BY <1>1, <2>1
<1> QED BY <1>2

\* Two rows are the same media, as far as uuid, being there and manual_skip go.
Same(r, q) == r.id = q.id /\ (r.there <=> q.there) /\ (r.manual <=> q.manual)

\* save() does not touch these columns ...
LEMMA CorrectedFacts ==
  ASSUME disk \in BOOLEAN, NEW r \in RowType
  PROVE  Corrected(r) \in RowType /\ Same(Corrected(r), r)
BY DEF Corrected, RowType, Same

\* ... and neither does media_post_save.
LEMMA PostSaveFacts ==
  ASSUME TypeOK, NEW r \in RowType, NEW t \in Tables, NEW f \in BOOLEAN,
         NEW running \in BOOLEAN
  PROVE  /\ PostSave(r, t, f, running).row \in RowType
         /\ Same(PostSave(r, t, f, running).row, r)
         /\ PostSave(r, t, f, running).calls \subseteq {"metadata", "download"}
<1> DEFINE has  == r.pointer /\ t \in {"empty", "formats"}
           can  == IF has THEN t = "formats" ELSE r.can
           skip == FilterMedia(r, has)
           r1   == IF r.down \/ running THEN r ELSE [r EXCEPT !.can = can, !.skip = skip]
           gone == ~f /\ ~running
           r2   == IF gone /\ r1.can /\ r1.down THEN [r1 EXCEPT !.skip = TRUE] ELSE r1
<1>1. PICK c \in BOOLEAN : c = can
  BY DEF RowType
<1>2. PICK s \in BOOLEAN : s = skip
  BY DEF RowType, FilterMedia, FilterPublished, FilterMaxCap, FilterText, FilterDuration
<1>3. r1 \in RowType /\ Same(r1, r)
  <2>1. [r EXCEPT !.can = c, !.skip = s] \in RowType
        /\ Same([r EXCEPT !.can = c, !.skip = s], r)
    BY DEF RowType, Same
  <2> HIDE DEF can, skip
  <2> QED BY <1>1, <1>2, <2>1 DEF Same
<1>4. r2 \in RowType /\ Same(r2, r)
  <2>1. [r1 EXCEPT !.skip = TRUE] \in RowType /\ Same([r1 EXCEPT !.skip = TRUE], r1)
    <3> HIDE DEF r1
    <3> QED BY <1>3 DEF RowType, Same
  <2> HIDE DEF r1
  <2> QED BY <1>3, <2>1 DEF Same
<1>5. PostSave(r, t, f, running).row = IF r.manual THEN r ELSE r2
  BY DEF PostSave
<1>6. PostSave(r, t, f, running).calls \subseteq {"metadata", "download"}
  BY DEF PostSave
<1> QED BY <1>4, <1>5, <1>6 DEF Same

\* A row that is saved is the media that was read.
LEMMA SaveFacts ==
  ASSUME TypeOK, NEW r \in RowType, NEW t \in Tables, NEW f \in BOOLEAN, NEW more,
         more.calls \subseteq Calls, Save(r, t, f, more)
  PROVE  row' \in RowType /\ Same(row', r) /\ queue' \subseteq Calls
<1>1. Corrected(r) \in RowType /\ Same(Corrected(r), r)
  BY CorrectedFacts DEF TypeOK
<1>2. Downloading \in BOOLEAN
  BY DEF Downloading, TypeOK
<1> DEFINE saved == PostSave(Corrected(r), t, f, Downloading)
<1>3. /\ saved.row \in RowType /\ Same(saved.row, Corrected(r))
      /\ saved.calls \subseteq {"metadata", "download"}
  BY <1>1, <1>2, PostSaveFacts
<1>4. row' = saved.row /\ queue' = (queue \ more.done) \cup saved.calls \cup more.calls
  BY DEF Save
<1> HIDE DEF saved
<1> QED BY <1>1, <1>3, <1>4 DEF Same, TypeOK, Calls, MediaCalls, LimitCalls, Metas, Downloads

LEMMA PlusFacts ==
  ASSUME NEW done, NEW calls
  PROVE  Plus(done, calls).done = done /\ Plus(done, calls).calls = calls
BY DEF Plus

\* A deleted media is gone, or is a skipped row under a new uuid.
LEMMA DeleteRowFacts ==
  ASSUME TypeOK, DeleteRow
  PROVE  /\ row' \in RowType /\ table' \in Tables /\ disk' \in BOOLEAN
         /\ disk' => disk
         /\ locks' = NoLocks /\ ghost' = FALSE
         /\ row'.there => row'.manual
<1> DEFINE left == Row(NewId, {"there", "manual", "skip", "pointer"})
<1>1. left \in RowType /\ left.manual
  BY NewIdFacts, RowFacts
<1>2. row.dated \in BOOLEAN
  BY DEF TypeOK, RowType
<1>3. [left EXCEPT !.dated = row.dated] \in RowType /\ [left EXCEPT !.dated = row.dated].manual
  <2> HIDE DEF left
  <2> QED BY <1>1, <1>2 DEF RowType
<1>4. row' \in {None, [left EXCEPT !.dated = row.dated]}
  BY DEF DeleteRow
<1>5. row' \in RowType /\ (row'.there => row'.manual)
  <2> HIDE DEF left
  <2> QED BY <1>3, <1>4, NoneFacts
<1> QED BY <1>5 DEF DeleteRow, TypeOK, Tables

----------------------------------------------------------------------------
(* The worker *)

\* What the properties of the steps say of one step.
RowHeld == locks.media = "worker" => row'.there /\ row'.id = row.id
SkipKept ==
  row.there /\ row.manual /\ row'.there /\ row'.id = row.id /\ ~row'.manual =>
    \/ view' # view
    \/ image' # image /\ ~image.manual
    \/ worker' # worker /\ (~worker.seen.manual \/ worker.task \in Downloads)
    \/ aired = "recent" /\ row.dated /\ ~HasMetadata(row)
FileKept ==
  worker.at = "works" /\ worker'.at = "wrote" /\ worker.task = "download" =>
    ~(worker.seen.down /\ disk)
StepHolds == MediaInv' /\ RowHeld /\ SkipKept /\ FileKept

\* A worker without a call.
LEMMA IdleFacts ==
  Idle \in WorkerType /\ Idle.task = "none" /\ Idle.at = "idle" /\ Idle.task \notin Downloads
BY NoneFacts DEF Idle, WorkerType, Downloads

\* The locks after a task has given its lock back, or lost it.
LEMMA UnlockedFacts ==
  ASSUME TypeOK, NEW l \in {"index", "media"}
  PROVE  /\ Unlocked(l) \in [index : Holders, media : Holders]
         /\ l = "index" => Unlocked(l).media = locks.media
         /\ l = "media" /\ Current(worker.seen) => Unlocked(l).media = "free"
         /\ ~Current(worker.seen) => Unlocked(l) = locks
BY DEF Unlocked, TypeOK, Holders

\* A step that leaves the worker idle, and the lock to nobody in particular.
LEMMA EndsStep ==
  ASSUME MediaInv, TypeOK', worker' = Idle, UNCHANGED <<view, image, disk>>,
         locks'.media # "worker",
         \/ row' = row
         \/ worker # Idle /\ (row'.manual \/ ~worker.seen.manual \/ worker.task \in Downloads),
         RowHeld
  PROVE  StepHolds
<1>1. LockHeld' /\ FileAwaited'
  BY IdleFacts DEF LockHeld, FileAwaited
<1>2. ReadsHeld'
  BY IdleFacts DEF MediaInv, ReadsHeld
<1>3. FileKept
  BY IdleFacts DEF FileKept
<1>4. SkipKept
  BY DEF SkipKept, Same
<1> QED BY <1>1, <1>2, <1>3, <1>4 DEF StepHolds, MediaInv

\* A call that begins has read the media as it is, and has looked for the file.
LEMMA BeginStep ==
  ASSUME MediaInv, NEW call \in LimitCalls, Begin(call)
  PROVE  StepHolds
<1>1. /\ worker = Idle /\ queue' = queue \ {call}
      /\ UNCHANGED <<row, table, disk, source, listed, aired, view, image, deleting,
                     locks, ghost, events>>
  BY DEF Begin
<1>2. locks.media # "worker"
  BY <1>1, IdleFacts DEF MediaInv, LockHeld
<1> DEFINE next == [task |-> call, at |-> "waits", seen |-> row]
<1>3. (worker' = next /\ Ready(call)) \/ worker' = Idle
  BY DEF Begin
<1>4. next \in WorkerType
  BY DEF WorkerType, MediaInv, TypeOK
<1>5. TypeOK'
  <2>1. worker' \in WorkerType /\ queue' \subseteq MediaCalls \cup {"save all", "remove"}
    BY <1>1, <1>3, <1>4, IdleFacts DEF MediaInv, TypeOK
  <2> QED BY <1>1, <2>1 DEF MediaInv, TypeOK
<1>6. LockHeld' /\ RowHeld /\ SkipKept /\ FileKept
  BY <1>1, <1>2, <1>3, IdleFacts DEF LockHeld, RowHeld, SkipKept, FileKept
<1>7. FileAwaited'
  <2>1. Ready(call) /\ call = "download" => ~(row.down /\ disk)
    BY DEF Ready, Checklist
  <2> QED BY <1>1, <1>3, <2>1, IdleFacts DEF FileAwaited
<1>8. ReadsHeld'
  <2>1. call # "none" /\ (Ready(call) => row.there)
    BY DEF LimitCalls, Metas, Downloads, Ready
  <2> QED BY <1>1, <1>3, <2>1, IdleFacts DEF MediaInv, ReadsHeld
<1> QED BY <1>5, <1>6, <1>7, <1>8 DEF StepHolds, MediaInv

\* The lock of a media goes to a download of the row that is there.
LEMMA LockStep ==
  ASSUME MediaInv, Lock
  PROVE  StepHolds
<1> DEFINE l == IF worker.task \in Metas THEN "index" ELSE "media"
           next == [worker EXCEPT !.at = "works"]
           taken == [locks EXCEPT ![l] = "worker"]
<1>1. /\ TypeOK /\ worker.at = "waits" /\ worker.task \in LimitCalls
      /\ UNCHANGED <<row, table, disk, source, listed, aired, view, image, deleting, ghost,
                     events>>
  BY DEF Lock, MediaInv, TypeOK, WorkerType, ReadsHeld
<1>2. locks.media # "worker"
  BY <1>1 DEF MediaInv, LockHeld
<1>3. next \in WorkerType /\ next.at = "works" /\ next.task = worker.task
      /\ next.seen = worker.seen
  BY <1>1 DEF TypeOK, WorkerType
<1>4. /\ taken \in [index : Holders, media : Holders]
      /\ taken.media = "worker" => worker.task \notin Metas
  BY <1>1, <1>2 DEF TypeOK, Holders
<1>5. \/ /\ worker' = next /\ queue' = queue
         /\ \/ locks' = locks
            \/ locks' = taken /\ worker.task # "refresh" /\ Current(worker.seen)
      \/ /\ worker' = Idle /\ locks' = locks
         /\ queue' = queue \cup {c \in {worker.task} : c # "download"}
  BY DEF Lock
<1>6. TypeOK'
  <2>1. worker' \in WorkerType /\ locks' \in [index : Holders, media : Holders]
    <3> HIDE DEF next, taken
    <3> QED BY <1>1, <1>3, <1>4, <1>5, IdleFacts DEF TypeOK
  <2>2. queue' \subseteq MediaCalls \cup {"save all", "remove"}
    BY <1>1, <1>5 DEF TypeOK, MediaCalls
  <2> QED BY <1>1, <2>1, <2>2 DEF TypeOK
<1> HIDE DEF next, taken
<1>7. LockHeld'
  <2> SUFFICES ASSUME locks'.media = "worker"
               PROVE  (/\ worker.task \in Downloads /\ worker.at \in {"works", "wrote"}
                       /\ Current(worker.seen))'
    BY DEF LockHeld
  <2>1. worker' = next /\ worker.task # "refresh" /\ Current(worker.seen)
        /\ worker.task \notin Metas
    BY <1>2, <1>4, <1>5
  <2>2. worker.task \in Downloads
    BY <1>1, <2>1 DEF LimitCalls
  <2> QED BY <1>1, <1>3, <2>1, <2>2 DEF Current
<1>8. FileAwaited'
  BY <1>1, <1>3, <1>5, IdleFacts DEF MediaInv, FileAwaited
<1>9. ReadsHeld'
  <2>1. worker.task # "none"
    BY <1>1 DEF MediaInv, ReadsHeld
  <2> QED BY <1>1, <1>3, <1>5, <2>1, IdleFacts DEF MediaInv, ReadsHeld
<1>10. RowHeld /\ SkipKept /\ FileKept
  BY <1>1, <1>2 DEF RowHeld, SkipKept, FileKept
<1> QED BY <1>6, <1>7, <1>8, <1>9, <1>10 DEF StepHolds, MediaInv

\* Events are counted.
LEMMA EventFacts ==
  ASSUME TypeOK, Event \/ UNCHANGED events
  PROVE  events' \in Nat
<1>1. events \in Nat
  BY DEF TypeOK
<1> QED BY <1>1 DEF Event

\* A task that is no download has not the media's lock.
LEMMA NotHeld ==
  ASSUME MediaInv, worker.task \notin Downloads
  PROVE  locks.media # "worker"
BY DEF MediaInv, LockHeld

\* A worker at work has a task, and it is one thing at a time.
LEMMA WorkFacts ==
  ASSUME MediaInv
  PROVE  /\ Metas \cap Downloads = {} /\ "refresh" \notin Metas \cup Downloads
         /\ worker.seen \in RowType
         /\ worker.at # "idle" => worker.seen.there
         /\ worker.at \in {"works", "wrote", "waits"} => worker # Idle /\ worker.task \in LimitCalls
         /\ worker.at = "wrote" => worker.task \in Downloads
BY IdleFacts DEF Metas, Downloads, MediaInv, TypeOK, WorkerType, ReadsHeld

\* Metadata, and what it says of the media, is saved as it was read.
LEMMA MetadataLandsStep ==
  ASSUME MediaInv, NEW t \in {"empty", "formats"}, MetadataLands(t)
  PROVE  StepHolds
<1> DEFINE seen == [worker.seen EXCEPT !.pointer = TRUE, !.dated = TRUE]
           r == IF t = "empty" THEN [seen EXCEPT !.can = FALSE, !.skip = TRUE] ELSE seen
           calls == {c \in {"download manually"} :
                       worker.task = "metadata manually" /\ IndexOnly
                         /\ PostSave(Corrected(r), t, disk, ghost).row.can}
           more == Plus({}, calls)
<1>1. /\ TypeOK /\ Works(Metas) /\ worker.seen \in RowType /\ worker # Idle
      /\ table' = t /\ worker' = Idle /\ locks' = Unlocked("index")
      /\ UNCHANGED <<disk, source, listed, aired, view, image, deleting, ghost>>
      /\ Save(r, t, disk, more)
  BY WorkFacts DEF MetadataLands, MediaInv, Works
<1>2. r \in RowType /\ Same(r, worker.seen)
  <2>1. seen \in RowType /\ Same(seen, worker.seen)
    BY <1>1 DEF RowType, Same
  <2> HIDE DEF seen
  <2>2. r \in RowType /\ Same(r, seen)
    BY <2>1 DEF RowType, Same
  <2> HIDE DEF r
  <2> QED BY <2>1, <2>2 DEF Same
<1>3. more.calls \subseteq Calls
  <2>1. calls \subseteq Calls
    <3>1. "download manually" \in Calls
      BY DEF Calls, MediaCalls, LimitCalls, Downloads
    <3> HIDE DEF r
    <3> QED BY <3>1
  <2> HIDE DEF calls
  <2> QED BY <2>1, PlusFacts
<1> HIDE DEF r, more
<1>4. row' \in RowType /\ Same(row', r) /\ queue' \subseteq Calls
  BY <1>1, <1>2, <1>3, SaveFacts DEF TypeOK, Tables
<1>5. events' \in Nat
  <2>1. Event \/ UNCHANGED events
    BY DEF MetadataLands
  <2> QED BY <1>1, <2>1, EventFacts
<1>6. locks.media # "worker" /\ locks'.media = locks.media
  BY <1>1, NotHeld, WorkFacts, UnlockedFacts DEF Works
<1>7. TypeOK'
  BY <1>1, <1>4, <1>5, IdleFacts, UnlockedFacts DEF TypeOK, Calls
<1>8. row'.manual \/ ~worker.seen.manual
  BY <1>2, <1>4 DEF Same
<1> QED BY <1>1, <1>6, <1>7, <1>8, EndsStep DEF RowHeld

\* A task that fails leaves the row.
LEMMA FailsStep ==
  ASSUME MediaInv, MetadataFails \/ IngestFails \/ RefreshFails
  PROVE  StepHolds
<1>1. /\ TypeOK /\ worker' = Idle /\ Works(Metas \cup {"refresh"})
      /\ UNCHANGED <<row, table, disk, source, listed, aired, view, image, deleting, ghost>>
  BY DEF MediaInv, MetadataFails, IngestFails, RefreshFails, Works
<1>2. events' \in Nat
  <2>1. Event \/ UNCHANGED events
    BY DEF MetadataFails, IngestFails, RefreshFails
  <2> QED BY <1>1, <2>1, EventFacts
<1>3. queue' \subseteq Calls
  <2>1. worker.task \in Calls
    BY <1>1 DEF Works, Calls, MediaCalls, LimitCalls
  <2>2. Again(worker.task)
    BY DEF MetadataFails, IngestFails, RefreshFails, Works
  <2> QED BY <1>1, <2>1, <2>2 DEF Again, TypeOK, Calls
<1>4. locks.media # "worker"
  BY <1>1, NotHeld, WorkFacts DEF Works
<1>5. locks' \in [index : Holders, media : Holders] /\ locks'.media = locks.media
  <2>1. \/ locks' = Unlocked("index")
        \/ locks' = locks
        \/ locks' = [locks EXCEPT !.index = "nobody"]
    BY DEF MetadataFails, IngestFails, RefreshFails
  <2>2. /\ [locks EXCEPT !.index = "nobody"] \in [index : Holders, media : Holders]
        /\ [locks EXCEPT !.index = "nobody"].media = locks.media
        /\ locks \in [index : Holders, media : Holders]
    BY <1>1 DEF TypeOK, Holders
  <2> QED BY <1>1, <2>1, <2>2, UnlockedFacts
<1>6. TypeOK'
  BY <1>1, <1>2, <1>3, <1>5, IdleFacts DEF TypeOK, Calls
<1> QED BY <1>1, <1>4, <1>5, <1>6, EndsStep DEF RowHeld

\* A premiere is skipped until it is there.
LEMMA PremieresStep ==
  ASSUME MediaInv, Premieres
  PROVE  StepHolds
<1> DEFINE r == [worker.seen EXCEPT !.dated = TRUE, !.manual = TRUE]
<1>1. /\ TypeOK /\ Works(Metas) /\ worker' = Idle /\ locks' = Unlocked("index")
      /\ worker.seen \in RowType /\ worker # Idle
      /\ UNCHANGED <<table, disk, source, listed, aired, view, image, deleting, ghost, events>>
  BY WorkFacts DEF Premieres, MediaInv, Works
<1>2. r \in RowType /\ r.manual
  BY <1>1 DEF RowType
<1>3. row' = r \/ row' = row
  BY DEF Premieres
<1>4. queue' \subseteq Calls
  <2>1. worker.task \in Calls /\ Again(worker.task)
    BY <1>1 DEF Premieres, Works, Calls, MediaCalls, LimitCalls
  <2> QED BY <1>1, <2>1 DEF Again, TypeOK, Calls
<1>5. locks.media # "worker" /\ locks'.media = locks.media
  BY <1>1, NotHeld, WorkFacts, UnlockedFacts DEF Works
<1>6. TypeOK'
  BY <1>1, <1>2, <1>3, <1>4, IdleFacts, UnlockedFacts DEF TypeOK, Calls
<1> HIDE DEF r
<1> QED BY <1>1, <1>2, <1>3, <1>5, <1>6, EndsStep DEF RowHeld

\* Refreshed formats are saved with the media that was read.
LEMMA RefreshLandsStep ==
  ASSUME MediaInv, NEW t \in {"empty", "formats"}, RefreshLands(t)
  PROVE  StepHolds
<1> DEFINE r == [worker.seen EXCEPT !.skip = FALSE]
<1>1. /\ TypeOK /\ Works({"refresh"}) /\ worker.seen \in RowType /\ worker # Idle
      /\ table' = t /\ worker' = Idle
      /\ UNCHANGED <<disk, source, listed, aired, view, image, deleting, locks, ghost>>
      /\ Save(r, t, disk, Plus({}, {}))
  BY WorkFacts DEF RefreshLands, MediaInv, Works
<1>2. r \in RowType /\ Same(r, worker.seen)
  BY <1>1 DEF RowType, Same
<1> HIDE DEF r
<1>3. row' \in RowType /\ Same(row', r) /\ queue' \subseteq Calls
  <2>1. Plus({}, {}).calls \subseteq Calls
    BY PlusFacts
  <2> QED BY <1>1, <1>2, <2>1, SaveFacts DEF TypeOK, Tables
<1>4. events' \in Nat
  <2>1. Event \/ UNCHANGED events
    BY DEF RefreshLands
  <2> QED BY <1>1, <2>1, EventFacts
<1>5. locks.media # "worker"
  BY <1>1, NotHeld, WorkFacts DEF Works
<1>6. TypeOK'
  BY <1>1, <1>3, <1>4, IdleFacts DEF TypeOK, Calls
<1>7. row'.manual \/ ~worker.seen.manual
  BY <1>2, <1>3 DEF Same
<1> QED BY <1>1, <1>5, <1>6, <1>7, EndsStep DEF RowHeld

\* Only an automatic download that found no file writes one.
LEMMA FileWrittenStep ==
  ASSUME MediaInv, FileWritten
  PROVE  StepHolds
<1> DEFINE next == [worker EXCEPT !.at = "wrote"]
<1>1. /\ TypeOK /\ Works(Downloads) /\ disk' = TRUE /\ worker' = next
      /\ UNCHANGED <<row, table, source, listed, aired, queue, view, image, deleting,
                     locks, ghost, events>>
  BY DEF FileWritten, MediaInv
<1>2. next \in WorkerType /\ next.at = "wrote" /\ next.task = worker.task
      /\ next.seen = worker.seen
  BY <1>1 DEF TypeOK, WorkerType
<1> HIDE DEF next
<1>3. TypeOK'
  BY <1>1, <1>2 DEF TypeOK
<1>4. LockHeld' /\ FileAwaited'
  BY <1>1, <1>2 DEF MediaInv, LockHeld, FileAwaited, Current
<1>5. ReadsHeld'
  <2>1. worker.task \in Downloads /\ worker.task # "none"
    BY <1>1 DEF Works, Downloads
  <2> QED BY <1>1, <1>2, <2>1 DEF MediaInv, ReadsHeld
<1>6. RowHeld /\ SkipKept /\ FileKept
  BY <1>1 DEF MediaInv, LockHeld, Current, FileAwaited, Works, RowHeld, SkipKept, FileKept
<1> QED BY <1>3, <1>4, <1>5, <1>6 DEF StepHolds, MediaInv

\* A download that ends leaves the lock of the media it had.
LEMMA DownloadEnds ==
  ASSUME MediaInv, worker.task \in Downloads
  PROVE  Unlocked("media").media # "worker"
BY UnlockedFacts DEF MediaInv, LockHeld

\* A download that fails leaves the row.
LEMMA DownloadFailsStep ==
  ASSUME MediaInv, NoFormat \/ DownloadFails
  PROVE  StepHolds
<1>1. /\ TypeOK /\ Works(Downloads) /\ worker' = Idle /\ locks' = Unlocked("media")
      /\ UNCHANGED <<row, disk, source, listed, aired, view, image, deleting, ghost>>
  BY DEF NoFormat, DownloadFails, MediaInv
<1>2. events' \in Nat
  <2>1. Event \/ UNCHANGED events
    BY DEF NoFormat, DownloadFails
  <2> QED BY <1>1, <2>1, EventFacts
<1>3. table' \in Tables
  BY <1>1 DEF NoFormat, DownloadFails, TypeOK, Tables
<1>4. queue' \subseteq Calls
  <2>1. worker.task \in Calls /\ "refresh" \in Calls
    BY <1>1 DEF Works, Calls, MediaCalls, LimitCalls
  <2>2. CASE NoFormat
    <3>1. PICK more \in SUBSET {"refresh"} :
            \/ queue' = queue \cup more
            \/ queue' = queue \cup more \cup {worker.task}
      BY <2>2 DEF NoFormat
    <3> QED BY <1>1, <2>1, <3>1 DEF TypeOK, Calls
  <2>3. CASE DownloadFails
    <3>1. \/ queue' = queue \cup {worker.task}
          \/ \E more \in {{}, {"refresh"}} :
               \/ queue' = queue \cup more
               \/ queue' = queue \cup more \cup {worker.task}
      BY <2>3 DEF DownloadFails
    <3> QED BY <1>1, <2>1, <3>1 DEF TypeOK, Calls
  <2> QED BY <2>2, <2>3
<1>5. locks'.media # "worker"
  BY <1>1, DownloadEnds DEF Works
<1>6. TypeOK'
  BY <1>1, <1>2, <1>3, <1>4, IdleFacts, UnlockedFacts DEF TypeOK, Calls, Tables
<1>7. RowHeld
  BY <1>1 DEF RowHeld, MediaInv, LockHeld, Current
<1> QED BY <1>1, <1>5, <1>6, <1>7, EndsStep

\* A download is saved into the row it was for.
LEMMA FinishStep ==
  ASSUME MediaInv, Finish
  PROVE  StepHolds
<1> DEFINE r == [worker.seen EXCEPT !.down = TRUE, !.file = TRUE, !.manual = FALSE, !.skip = FALSE]
<1>1. /\ TypeOK /\ worker.at = "wrote" /\ worker.seen \in RowType /\ worker # Idle
      /\ worker.task \in Downloads /\ worker' = Idle /\ locks' = Unlocked("media")
      /\ UNCHANGED <<table, disk, source, listed, aired, view, image, deleting, ghost, events>>
  BY WorkFacts DEF Finish, MediaInv
<1>2. r \in RowType /\ r.id = worker.seen.id /\ (r.there <=> worker.seen.there)
  BY <1>1 DEF RowType
<1>3. \/ CanSave(r) /\ Save(r, table, disk, Plus({}, {}))
      \/ UNCHANGED <<row, queue>>
  BY DEF Finish
<1> HIDE DEF r
<1>4. /\ row' \in RowType /\ queue' \subseteq Calls
      /\ \/ row' = row
         \/ Same(row', r) /\ (row.there => Current(r))
  <2>1. Plus({}, {}).calls \subseteq Calls
    BY PlusFacts
  <2> QED BY <1>1, <1>2, <1>3, <2>1, SaveFacts DEF TypeOK, Tables, CanSave, Calls
<1>5. locks'.media # "worker"
  BY <1>1, DownloadEnds
<1>6. TypeOK'
  BY <1>1, <1>4, IdleFacts, UnlockedFacts DEF TypeOK, Calls
<1>7. RowHeld
  <2> SUFFICES ASSUME locks.media = "worker" PROVE row'.there /\ row'.id = row.id
    BY DEF RowHeld
  <2>1. row.there /\ row.id = worker.seen.id
    BY DEF MediaInv, LockHeld, Current
  <2>2. CASE Same(row', r)
    BY <1>2, <2>1, <2>2, WorkFacts DEF Same, MediaInv, LockHeld, Current
  <2> QED BY <1>4, <2>1, <2>2
<1> QED BY <1>1, <1>5, <1>6, <1>7, EndsStep

\* The worker may be killed at any time; its lock goes or is nobody's.
LEMMA KillStep ==
  ASSUME MediaInv, NEW watchdog \in BOOLEAN, Kill(watchdog)
  PROVE  StepHolds
<1>1. /\ TypeOK /\ worker' = Idle /\ Event /\ ghost' = Downloading
      /\ UNCHANGED <<row, table, disk, source, listed, aired, queue, view, image, deleting>>
  BY DEF Kill, MediaInv
<1>2. events' \in Nat
  BY <1>1, EventFacts
<1>3. locks' \in [index : Holders, media : Holders] /\ locks'.media # "worker"
  <2>1. CASE watchdog
    <3>1. locks' = Unlocked("media") /\ worker.task \in Downloads
      BY <2>1 DEF Kill
    <3> QED BY <1>1, <3>1, UnlockedFacts, DownloadEnds
  <2>2. CASE ~watchdog
    <3>1. locks' = [l \in DOMAIN locks |-> IF locks[l] = "worker" THEN "nobody" ELSE locks[l]]
      BY <2>2 DEF Kill
    <3>2. DOMAIN locks = {"index", "media"} /\ locks.index \in Holders /\ locks.media \in Holders
      BY <1>1 DEF TypeOK
    <3>3. DOMAIN locks' = {"index", "media"}
          /\ locks' = [l \in {"index", "media"} |-> locks'[l]]
          /\ locks'.index \in Holders /\ locks'.media \in Holders \ {"worker"}
      BY <3>1, <3>2 DEF Holders
    <3> QED BY <3>3
  <2> QED BY <2>1, <2>2
<1>4. ghost' \in BOOLEAN
  BY <1>1 DEF Downloading, TypeOK
<1>5. TypeOK'
  BY <1>1, <1>2, <1>3, <1>4, IdleFacts DEF TypeOK
<1>6. RowHeld
  BY <1>1 DEF RowHeld, MediaInv, LockHeld, Current
<1> QED BY <1>1, <1>3, <1>5, <1>6, EndsStep

----------------------------------------------------------------------------
(* The others *)

\* A step next to the worker that brings no file, keeps what it reads and
\* leaves the row of a media that is locked.
LEMMA QuietStep ==
  ASSUME MediaInv, TypeOK', UNCHANGED worker,
         disk' => disk, locks'.media = "worker" => locks.media = "worker",
         image' # None => image'.there, view' # NoForm => view'.seen.there,
         RowHeld, SkipKept
  PROVE  StepHolds
<1>1. LockHeld' /\ FileAwaited' /\ FileKept
  BY DEF MediaInv, LockHeld, FileAwaited, FileKept, RowHeld, Current
<1>2. ReadsHeld'
  BY DEF MediaInv, ReadsHeld
<1> QED BY <1>1, <1>2 DEF StepHolds, MediaInv

\* Nothing but calls, settings and the like.
LEMMA RowLeftStep ==
  ASSUME MediaInv, TypeOK', UNCHANGED <<worker, row>>,
         disk' => disk, locks'.media = "worker" => locks.media = "worker",
         image' # None => image'.there, view' # NoForm => view'.seen.there
  PROVE  StepHolds
<1>1. RowHeld /\ SkipKept
  BY DEF RowHeld, SkipKept, MediaInv, LockHeld, Current
<1> QED BY <1>1, QuietStep

\* The locks with one of them changed.
LEMMA LockFacts ==
  ASSUME TypeOK, NEW l \in {"index", "media"}, NEW h \in Holders \ {"worker"}
  PROVE  /\ [locks EXCEPT ![l] = h] \in [index : Holders, media : Holders]
         /\ [locks EXCEPT ![l] = h].media = "worker" => locks.media = "worker"
         /\ NoLocks \in [index : Holders, media : Holders] /\ NoLocks.media # "worker"
BY DEF TypeOK, Holders, NoLocks

\* What waits, looks or passes by.
LEMMA WaitingStep ==
  ASSUME MediaInv,
         \/ GivesUp("migrate") \/ GivesUp("save") \/ SaveAll \/ DeleteStarts
         \/ ClearLocks \/ GhostExpires \/ EditSource \/ Unlist \/ FileVanishes \/ TimePasses
         \/ \E l \in {"index", "media"} : Restart(l)
  PROVE  StepHolds
<1>1. TypeOK /\ UNCHANGED <<worker, row, image, view, table>>
  BY DEF MediaInv, GivesUp, SaveAll, DeleteStarts, ClearLocks, GhostExpires, EditSource,
     Unlist, FileVanishes, TimePasses, Restart
<1>2. events' \in Nat
  <2>1. Event \/ UNCHANGED events
    BY DEF GivesUp, SaveAll, DeleteStarts, ClearLocks, GhostExpires, EditSource,
       Unlist, FileVanishes, TimePasses, Restart
  <2> QED BY <1>1, <2>1, EventFacts
<1>3. queue' \subseteq Calls
  <2>1. queue' \subseteq queue \cup {"refresh", "save", "save all"}
    BY DEF GivesUp, SaveAll, DeleteStarts, ClearLocks, GhostExpires, EditSource,
       Unlist, FileVanishes, TimePasses, Restart
  <2> QED BY <1>1, <2>1 DEF TypeOK, Calls, MediaCalls, LimitCalls
<1>4. /\ locks' \in [index : Holders, media : Holders]
      /\ locks'.media = "worker" => locks.media = "worker"
  <2>1. locks' = locks \/ \E l \in {"index", "media"} : locks' = [locks EXCEPT ![l] = "free"]
    BY DEF GivesUp, SaveAll, DeleteStarts, ClearLocks, GhostExpires, EditSource,
       Unlist, FileVanishes, TimePasses, Restart
  <2>2. "free" \in Holders \ {"worker"} /\ locks \in [index : Holders, media : Holders]
    BY <1>1 DEF TypeOK, Holders
  <2> QED BY <1>1, <2>1, <2>2, LockFacts
<1>5. disk' \in BOOLEAN /\ (disk' => disk)
  <2>1. disk' = disk \/ disk' = FALSE
    BY DEF GivesUp, SaveAll, DeleteStarts, ClearLocks, GhostExpires, EditSource,
       Unlist, FileVanishes, TimePasses, Restart
  <2>2. disk \in BOOLEAN
    BY <1>1 DEF TypeOK
  <2>3. CASE disk' = disk
    BY <2>2, <2>3
  <2>4. CASE disk' = FALSE
    BY <2>4
  <2> QED BY <2>1, <2>3, <2>4
<1>6. deleting' \in BOOLEAN /\ ghost' \in BOOLEAN
  BY <1>1 DEF TypeOK, GivesUp, SaveAll, DeleteStarts, ClearLocks, GhostExpires, EditSource,
     Unlist, FileVanishes, TimePasses, Restart
<1>7. aired' \in {"future", "recent", "past"}
  BY <1>1 DEF TypeOK, GivesUp, SaveAll, DeleteStarts, ClearLocks, GhostExpires, EditSource,
     Unlist, FileVanishes, TimePasses, Restart
<1>8. source' \in SourceType
  BY <1>1 DEF TypeOK, SourceType, GivesUp, SaveAll, DeleteStarts, ClearLocks, GhostExpires,
     EditSource, Unlist, FileVanishes, TimePasses, Restart
<1>9. listed' \in BOOLEAN
  BY <1>1 DEF TypeOK, GivesUp, SaveAll, DeleteStarts, ClearLocks, GhostExpires, EditSource,
     Unlist, FileVanishes, TimePasses, Restart
<1>10. TypeOK'
  BY <1>1, <1>2, <1>3, <1>4, <1>5, <1>8, <1>9, <1>6, <1>7 DEF TypeOK, Calls
<1> QED BY <1>1, <1>4, <1>5, <1>10, RowLeftStep DEF MediaInv, ReadsHeld

\* A form and a thumbnail read the row there is.
LEMMA ReadingStep ==
  ASSUME MediaInv, ImageStarts \/ \E form \in {"skip", "enable", "redownload"} : Open(form)
  PROVE  StepHolds
<1>1. /\ TypeOK /\ row.there /\ Event
      /\ UNCHANGED <<worker, row, table, disk, source, listed, aired, queue, deleting,
                     locks, ghost>>
  BY DEF MediaInv, ImageStarts, Open
<1>2. events' \in Nat
  BY <1>1, EventFacts
<1>3. CASE ImageStarts
  <2>1. image' = row /\ view' = view
    BY <1>3 DEF ImageStarts
  <2>2. TypeOK'
    BY <1>1, <1>2, <2>1 DEF TypeOK
  <2> QED BY <1>1, <2>1, <2>2, RowLeftStep DEF MediaInv, ReadsHeld
<1>4. ASSUME NEW form \in {"skip", "enable", "redownload"}, Open(form)
      PROVE  StepHolds
  <2>1. view' = [form |-> form, seen |-> row] /\ image' = image
    BY <1>4 DEF Open
  <2>2. view' \in ViewType /\ view'.seen.there
    BY <1>1, <2>1 DEF TypeOK, ViewType
  <2>3. TypeOK'
    BY <1>1, <1>2, <2>1, <2>2 DEF TypeOK
  <2> QED BY <1>1, <2>1, <2>2, <2>3, RowLeftStep DEF MediaInv, ReadsHeld
<1> QED BY <1>3, <1>4

\* Saving the row as it is, or with a column of it changed.
LEMMA SavesRow ==
  ASSUME MediaInv, NEW r \in RowType, r.id = row.id, r.there <=> row.there,
         NEW t \in Tables, NEW done, Save(r, t, disk, Plus(done, {}))
  PROVE  /\ row' \in RowType /\ Same(row', r) /\ queue' \subseteq Calls
         /\ RowHeld
<1>1. TypeOK /\ disk \in BOOLEAN
  BY DEF MediaInv, TypeOK
<1>2. Plus(done, {}).calls \subseteq Calls
  BY PlusFacts
<1>3. row' \in RowType /\ Same(row', r) /\ queue' \subseteq Calls
  BY <1>1, <1>2, SaveFacts
<1>4. RowHeld
  BY <1>3 DEF Same, RowHeld, MediaInv, LockHeld, Current
<1> QED BY <1>3, <1>4

\* An index finds the row or makes one, and the worker is idle meanwhile.
LEMMA IndexStep ==
  ASSUME MediaInv, Index
  PROVE  StepHolds
<1>1. /\ TypeOK /\ worker = Idle /\ locks.media # "worker"
      /\ UNCHANGED <<table, disk, source, listed, aired, worker, view, image, deleting,
                     ghost, events>>
  BY IdleFacts DEF Index, MediaInv, LockHeld
<1> DEFINE new == Row(NewId, {"there"})
<1>2. new \in RowType
  BY <1>1, NewIdFacts, RowFacts
<1>3. \/ row' = row
      \/ \E dated \in BOOLEAN : ~row.there /\ row' = [new EXCEPT !.dated = dated]
      \/ \E dated \in BOOLEAN : row' = [row EXCEPT !.dated = dated]
  <2>1. {row.there /\ row.dated, TRUE} \subseteq BOOLEAN
    BY <1>1 DEF TypeOK, RowType
  <2> QED BY <2>1 DEF Index
<1>4. row' \in RowType /\ (row.there => (row'.manual <=> row.manual))
  <2> HIDE DEF new
  <2> QED BY <1>1, <1>2, <1>3 DEF TypeOK, RowType
<1>5. /\ locks' \in [index : Holders, media : Holders]
      /\ locks'.media = locks.media
  <2>1. locks' = locks \/ \E h \in Holders : locks' = [locks EXCEPT !.index = h]
    BY <1>1 DEF Index, TypeOK, Holders
  <2> QED BY <1>1, <2>1 DEF TypeOK
<1>6. queue' \subseteq Calls
  BY <1>1 DEF Index, IndexCalls, TypeOK, Calls, MediaCalls, LimitCalls, Metas
<1>7. TypeOK'
  BY <1>1, <1>4, <1>5, <1>6 DEF TypeOK, Calls
<1>8. RowHeld /\ SkipKept
  BY <1>1, <1>4 DEF RowHeld, SkipKept
<1> QED BY <1>1, <1>5, <1>7, <1>8, QuietStep DEF MediaInv, ReadsHeld

\* migrate_to_metadata, save_media and upcoming_media save the row there is.
LEMMA MigrateStep ==
  ASSUME MediaInv, Migrate
  PROVE  StepHolds
<1>1. /\ TypeOK
      /\ UNCHANGED <<disk, source, listed, aired, worker, view, image, deleting, ghost, events>>
  BY DEF MediaInv, Migrate
<1> DEFINE t == IF table = "none" THEN "stub" ELSE table
           r == [row EXCEPT !.pointer = TRUE]
<1>2. r \in RowType /\ Same(r, row) /\ t \in Tables
  BY <1>1 DEF TypeOK, RowType, Same, Tables
<1>3. \/ queue' = queue \ {"migrate"} /\ UNCHANGED <<row, table>>
      \/ table' = t /\ Save(r, t, disk, Plus({"migrate"}, {}))
  BY DEF Migrate
<1> HIDE DEF r, t
<1>4. row' \in RowType /\ queue' \subseteq Calls /\ table' \in Tables /\ Same(row', row)
      /\ RowHeld
  <2>1. CASE queue' = queue \ {"migrate"} /\ UNCHANGED <<row, table>>
    BY <1>1, <2>1 DEF TypeOK, Calls, Tables, Same, RowHeld, MediaInv, LockHeld, Current
  <2>2. CASE table' = t /\ Save(r, t, disk, Plus({"migrate"}, {}))
    <3>1. r.id = row.id /\ (r.there <=> row.there)
      BY <1>2 DEF Same
    <3> QED BY <1>2, <2>2, <3>1, SavesRow DEF Same
  <2> QED BY <1>3, <2>1, <2>2
<1>5. /\ locks' \in [index : Holders, media : Holders]
      /\ locks'.media = "worker" => locks.media = "worker"
  <2>1. locks' = locks \/ locks' = [locks EXCEPT !.index = "free"]
    BY DEF Migrate
  <2> QED BY <1>1, <2>1 DEF TypeOK, Holders
<1>6. TypeOK'
  BY <1>1, <1>4, <1>5 DEF TypeOK, Calls, Tables
<1>7. SkipKept
  BY <1>4 DEF SkipKept, Same
<1> QED BY <1>1, <1>4, <1>5, <1>6, <1>7, QuietStep DEF MediaInv, ReadsHeld

LEMMA SaveMediaStep ==
  ASSUME MediaInv, SaveMedia
  PROVE  StepHolds
<1>1. /\ TypeOK
      /\ UNCHANGED <<table, disk, source, listed, aired, worker, view, image, deleting, locks,
                     ghost, events>>
  BY DEF MediaInv, SaveMedia
<1>2. \/ queue' = queue \ {"save"} /\ UNCHANGED row
      \/ Save(row, table, disk, Plus({"save"}, {}))
  BY DEF SaveMedia
<1>3. row' \in RowType /\ queue' \subseteq Calls /\ Same(row', row) /\ RowHeld
  <2>1. CASE queue' = queue \ {"save"} /\ UNCHANGED row
    BY <1>1, <2>1 DEF TypeOK, Calls, Same, RowHeld, MediaInv, LockHeld, Current
  <2>2. CASE Save(row, table, disk, Plus({"save"}, {}))
    BY <1>1, <2>2, SavesRow DEF TypeOK, Tables
  <2> QED BY <1>2, <2>1, <2>2
<1>4. TypeOK'
  BY <1>1, <1>3 DEF TypeOK, Calls
<1>5. SkipKept
  BY <1>3 DEF SkipKept, Same
<1> QED BY <1>1, <1>3, <1>4, <1>5, QuietStep DEF MediaInv, ReadsHeld

\* upcoming_media takes the skip of a premiere back, and of nothing else.
LEMMA UpcomingStep ==
  ASSUME MediaInv, UpcomingMedia
  PROVE  StepHolds
<1> DEFINE r == [row EXCEPT !.manual = FALSE, !.skip = FALSE]
<1>1. /\ TypeOK /\ row.there /\ row.dated /\ aired = "recent" /\ ~HasMetadata(row)
      /\ UNCHANGED <<table, disk, source, listed, aired, worker, view, image, deleting, locks,
                     ghost, events>>
      /\ Save(r, table, disk, Plus({}, {}))
  BY DEF MediaInv, UpcomingMedia
<1>2. r \in RowType /\ r.id = row.id /\ (r.there <=> row.there)
  BY <1>1 DEF TypeOK, RowType
<1> HIDE DEF r
<1>3. row' \in RowType /\ queue' \subseteq Calls /\ RowHeld
  BY <1>1, <1>2, SavesRow DEF TypeOK, Tables
<1>4. TypeOK'
  BY <1>1, <1>3 DEF TypeOK, Calls
<1>5. SkipKept
  BY <1>1 DEF SkipKept
<1> QED BY <1>1, <1>3, <1>4, <1>5, QuietStep DEF MediaInv, ReadsHeld

\* delete_media and the cleanups need the media's lock, or take it.
LEMMA DeletingStep ==
  ASSUME MediaInv, CleanupRemoved \/ CleanupOld \/ DeleteEnds
  PROVE  StepHolds
<1>1. /\ TypeOK /\ UNCHANGED <<source, listed, aired, worker, view, image>>
      /\ deleting' \in BOOLEAN
  BY DEF MediaInv, TypeOK, CleanupRemoved, CleanupOld, DeleteEnds
<1>2. events' \in Nat
  <2>1. Event \/ UNCHANGED events
    BY DEF CleanupRemoved, CleanupOld, DeleteEnds
  <2> QED BY <1>1, <2>1, EventFacts
<1>3. queue' \subseteq Calls
  <2>1. queue' \subseteq queue \cup {"delete"}
    BY DEF CleanupRemoved, CleanupOld, DeleteEnds
  <2> QED BY <1>1, <2>1 DEF TypeOK, Calls, MediaCalls
<1>4. CASE UNCHANGED <<row, table, disk, locks, ghost>>
  <2>1. TypeOK'
    BY <1>1, <1>2, <1>3, <1>4 DEF TypeOK, Calls
  <2> QED BY <1>1, <1>4, <2>1, RowLeftStep DEF MediaInv, ReadsHeld
<1>5. CASE DeleteRow /\ locks.media # "worker"
  <2>1. /\ row' \in RowType /\ table' \in Tables /\ disk' \in BOOLEAN /\ (disk' => disk)
        /\ locks' = NoLocks /\ ghost' = FALSE /\ (row'.there => row'.manual)
    BY <1>1, <1>5, DeleteRowFacts
  <2>2. NoLocks \in [index : Holders, media : Holders] /\ NoLocks.media # "worker"
    BY DEF NoLocks, Holders
  <2>3. TypeOK'
    BY <1>1, <1>2, <1>3, <2>1, <2>2 DEF TypeOK, Calls, Tables
  <2>4. RowHeld /\ SkipKept
    BY <1>5, <2>1 DEF RowHeld, SkipKept
  <2> QED BY <1>1, <2>1, <2>2, <2>3, <2>4, QuietStep DEF MediaInv, ReadsHeld
<1> QED BY <1>4, <1>5 DEF CleanupRemoved, CleanupOld, DeleteEnds, NoLocks

\* What a thumbnail or a form had read is saved, unless there is another row.
LEMMA HeldSave ==
  ASSUME MediaInv, NEW r \in RowType, r.there, row.there => Current(r),
         NEW f \in BOOLEAN, NEW calls \in SUBSET Calls, Save(r, table, f, Plus({}, calls))
  PROVE  row' \in RowType /\ queue' \subseteq Calls /\ Same(row', r) /\ RowHeld
<1>1. TypeOK /\ table \in Tables
  BY DEF MediaInv, TypeOK, Tables
<1>2. Plus({}, calls).calls \subseteq Calls
  BY PlusFacts
<1>3. row' \in RowType /\ Same(row', r) /\ queue' \subseteq Calls
  BY <1>1, <1>2, SaveFacts
<1>4. RowHeld
  BY <1>3 DEF Same, RowHeld, MediaInv, LockHeld, Current
<1> QED BY <1>3, <1>4

LEMMA ImageEndsStep ==
  ASSUME MediaInv, ImageEnds
  PROVE  StepHolds
<1>1. /\ TypeOK /\ image # None /\ image.there /\ image \in RowType /\ image' = None
      /\ UNCHANGED <<table, disk, source, listed, aired, worker, view, deleting, locks, ghost,
                     events>>
  BY DEF MediaInv, ReadsHeld, ImageEnds, TypeOK
<1>2. \/ (row.there => Current(image)) /\ Save(image, table, disk, Plus({}, {}))
      \/ UNCHANGED <<row, queue>>
  BY DEF ImageEnds, CanSave
<1>3. /\ row' \in RowType /\ queue' \subseteq Calls /\ RowHeld
      /\ row' = row \/ Same(row', image)
  <2>1. CASE UNCHANGED <<row, queue>>
    BY <1>1, <2>1 DEF TypeOK, Calls, RowHeld, MediaInv, LockHeld, Current
  <2>2. CASE (row.there => Current(image)) /\ Save(image, table, disk, Plus({}, {}))
    <3>1. disk \in BOOLEAN /\ {} \in SUBSET Calls
      BY <1>1 DEF TypeOK
    <3>2. row' \in RowType /\ queue' \subseteq Calls /\ Same(row', image) /\ RowHeld
      BY <1>1, <2>2, <3>1, HeldSave
    <3> QED BY <3>2
  <2> QED BY <1>2, <2>1, <2>2
<1>4. TypeOK'
  BY <1>1, <1>3, NoneFacts DEF TypeOK, Calls
<1>5. SkipKept
  BY <1>1, <1>3 DEF SkipKept, Same
<1> QED BY <1>1, <1>3, <1>4, <1>5, QuietStep DEF MediaInv, ReadsHeld

\* A form that is answered saves what it read; what it changes is its own.
LEMMA AnswerStep ==
  ASSUME MediaInv, Answer
  PROVE  StepHolds
<1> DEFINE seen == view.seen
           r == CASE view.form = "skip" -> Skipped(seen)
                  [] view.form = "redownload" -> Redownloaded(seen)
                  [] OTHER -> Enabled(seen)
           calls == IF view.form = "redownload" THEN RedownloadCalls(seen) ELSE {}
<1>1. /\ TypeOK /\ view # NoForm /\ seen.there /\ seen \in RowType /\ view' = NoForm
      /\ UNCHANGED <<table, source, listed, aired, worker, image, deleting, locks, ghost, events>>
  BY DEF MediaInv, ReadsHeld, Answer, TypeOK, ViewType
<1>2. disk' \in BOOLEAN /\ (disk' => disk)
  <2>1. disk' = (disk /\ ~(seen.file /\ view.form \in {"skip", "redownload"}))
    BY DEF Answer
  <2> QED BY <1>1, <2>1 DEF TypeOK
<1>3. r \in RowType /\ r.id = seen.id /\ (r.there <=> seen.there)
  <2>1. \A q \in {Skipped(seen), Redownloaded(seen), Enabled(seen)} :
          q \in RowType /\ q.id = seen.id /\ (q.there <=> seen.there)
    BY <1>1 DEF Skipped, Redownloaded, Enabled, RowType
  <2>2. r \in {Skipped(seen), Redownloaded(seen), Enabled(seen)}
    OBVIOUS
  <2> HIDE DEF r
  <2> QED BY <2>1, <2>2
<1>4. calls \in SUBSET Calls
  BY DEF RedownloadCalls, Calls, MediaCalls, LimitCalls, Metas, Downloads
<1>5. \/ (row.there => Current(r)) /\ Save(r, table, disk', Plus({}, calls))
      \/ row' = row /\ queue' = queue \cup calls
  BY DEF Answer, CanSave
<1> HIDE DEF r, calls, seen
<1>6. row' \in RowType /\ queue' \subseteq Calls /\ RowHeld
  <2>1. CASE row' = row /\ queue' = queue \cup calls
    BY <1>1, <1>4, <2>1 DEF TypeOK, Calls, RowHeld, MediaInv, LockHeld, Current
  <2>2. CASE (row.there => Current(r)) /\ Save(r, table, disk', Plus({}, calls))
    BY <1>1, <1>2, <1>3, <1>4, <2>2, HeldSave
  <2> QED BY <1>5, <2>1, <2>2
<1>7. NoForm \in ViewType
  BY NoneFacts DEF NoForm, ViewType
<1>8. TypeOK'
  BY <1>1, <1>2, <1>6, <1>7 DEF TypeOK, Calls
<1>9. SkipKept
  BY <1>1 DEF SkipKept
<1> QED BY <1>1, <1>2, <1>6, <1>8, <1>9, QuietStep DEF MediaInv, ReadsHeld

----------------------------------------------------------------------------
(* What follows *)

\* Whatever the worker, the other queues, the users and failures do.
LEMMA NextStep ==
  ASSUME MediaInv, Next
  PROVE  StepHolds
<1>1. CASE Work
  BY <1>1, BeginStep, LockStep, MetadataLandsStep, PremieresStep, RefreshLandsStep,
     FileWrittenStep, DownloadFailsStep, FinishStep, FailsStep DEF Work
<1>2. CASE Failures
  BY <1>2, MetadataLandsStep, FailsStep, RefreshLandsStep, DownloadFailsStep, KillStep,
     WaitingStep DEF Failures
<1>3. CASE Others
  BY <1>3, MigrateStep, WaitingStep, SaveMediaStep, DeletingStep, ReadingStep, ImageEndsStep
  DEF Others
<1>4. CASE Users
  BY <1>4, ReadingStep, WaitingStep DEF Users
<1> QED BY <1>1, <1>2, <1>3, <1>4, IndexStep, DeletingStep, UpcomingStep, AnswerStep DEF Next

LEMMA StutterStep ==
  ASSUME MediaInv, UNCHANGED vars
  PROVE  MediaInv'
<1>1. TypeOK'
  BY DEF vars, MediaInv, TypeOK
<1>2. LockHeld' /\ FileAwaited' /\ ReadsHeld'
  BY DEF vars, MediaInv, LockHeld, FileAwaited, ReadsHeld, Current
<1> QED BY <1>1, <1>2 DEF MediaInv

\* The lock of a media is held by the download of the row that is there, and
\* what is held of a media was read from a row.
THEOREM MediaInvariance == Spec => []MediaInv
<1>1. Init => MediaInv
  <2> SUFFICES ASSUME Init PROVE MediaInv
    OBVIOUS
  <2>1. TypeOK
    BY NoneFacts, IdleFacts
    DEF Init, TypeOK, SourceType, ViewType, NoForm, NoLocks, Holders
  <2>2. LockHeld /\ FileAwaited /\ ReadsHeld
    BY IdleFacts DEF Init, LockHeld, FileAwaited, ReadsHeld, NoLocks
  <2> QED BY <2>1, <2>2 DEF MediaInv
<1>2. MediaInv /\ [Next]_vars => MediaInv'
  BY NextStep, StutterStep DEF StepHolds
<1> QED BY <1>1, <1>2, PTL DEF Spec

\* While a download holds the media's lock the row stays, whoever deletes,
\* indexes, skips or saves the media meanwhile.
THEOREM RowStays == Spec => NotUnderneath
<1>1. MediaInv /\ [Next]_vars => [RowHeld]_vars
  BY NextStep DEF StepHolds
<1> QED BY <1>1, MediaInvariance, PTL DEF Spec, NotUnderneath, RowHeld

\* What the user skipped comes back only as SkipStays says.
THEOREM SkippedStays == Spec => SkipStays
<1>1. MediaInv /\ [Next]_vars => [SkipKept]_vars
  BY NextStep DEF StepHolds
<1> QED BY <1>1, MediaInvariance, PTL DEF Spec, SkipStays, SkipKept

\* No automatic download writes over a file that its media records.
THEOREM NotTwice == Spec => NotAgain
<1>1. MediaInv /\ [Next]_vars => [FileKept]_vars
  BY NextStep DEF StepHolds
<1> QED BY <1>1, MediaInvariance, PTL DEF Spec, NotAgain, FileKept
=============================================================================
