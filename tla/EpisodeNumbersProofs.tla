------------------------ MODULE EpisodeNumbersProofs ------------------------
(***************************************************************************)
(* Proofs about EpisodeNumbers, for any media, dates and number of         *)
(* changes: a file keeps its number, no two files have the same one, and a *)
(* token reads back as what it was made from.                              *)
(***************************************************************************)
EXTENDS EpisodeNumbers, FiniteSetTheorems, TLAPS

----------------------------------------------------------------------------
(* Free numbers *)

\* How many numbers up to n are free.
Free(n, taken) == Cardinality((1..n) \ taken)

\* One number more is one free number more, unless it is taken.
LEMMA FreeStep ==
  ASSUME NEW taken, NEW n \in Nat
  PROVE  /\ Free(0, taken) = 0 /\ Free(n, taken) \in Nat
         /\ Free(n + 1, taken) = Free(n, taken) + (IF n + 1 \in taken THEN 0 ELSE 1)
<1>1. IsFiniteSet((1..n) \ taken)
  <2>1. IsFiniteSet(1..n)
    BY FS_Interval
  <2> QED BY <2>1, FS_Difference
<1>2. Free(n, taken) \in Nat
  BY <1>1, FS_CardinalityType DEF Free
<1>3. Free(0, taken) = 0
  <2>1. (1..0) \ taken = {}
    OBVIOUS
  <2> QED BY <2>1, FS_EmptySet DEF Free
<1>4. CASE n + 1 \in taken
  <2>1. (1..(n + 1)) \ taken = (1..n) \ taken
    BY <1>4
  <2> QED BY <1>2, <1>3, <1>4, <2>1 DEF Free
<1>5. CASE n + 1 \notin taken
  <2>1. (1..(n + 1)) \ taken = ((1..n) \ taken) \cup {n + 1}
    BY <1>5
  <2>2. n + 1 \notin (1..n) \ taken
    OBVIOUS
  <2>3. Cardinality(((1..n) \ taken) \cup {n + 1}) = Cardinality((1..n) \ taken) + 1
    BY <1>1, <2>2, FS_AddElement
  <2> QED BY <1>2, <1>3, <1>5, <2>1, <2>3 DEF Free
<1> QED BY <1>4, <1>5

\* Among the first i numbers and as many more as are taken, i are free.
LEMMA EnoughFree ==
  ASSUME NEW taken, IsFiniteSet(taken), NEW i \in Nat
  PROVE  Free(i + Cardinality(taken), taken) >= i
<1> DEFINE all == 1..(i + Cardinality(taken))
<1>1. Cardinality(taken) \in Nat
  BY FS_CardinalityType
<1>2. IsFiniteSet(all) /\ Cardinality(all) = i + Cardinality(taken)
  <2>1. \A b \in Nat : IsFiniteSet(1..b) /\ Cardinality(1..b) = b
    BY FS_Interval
  <2>2. i + Cardinality(taken) \in Nat
    BY <1>1
  <2> QED BY <2>1, <2>2
<1>3. /\ IsFiniteSet(all \cap taken) /\ Cardinality(all \cap taken) <= Cardinality(taken)
      /\ Cardinality(all \cap taken) \in Nat
  <2>1. all \cap taken \subseteq taken
    OBVIOUS
  <2> QED BY <2>1, FS_Subset, FS_CardinalityType
<1>4. Cardinality(all \ taken) = Cardinality(all) - Cardinality(all \cap taken)
  BY <1>2, FS_Difference
<1> QED BY <1>1, <1>2, <1>3, <1>4 DEF Free

\* NthFree finds a number, and one that is not taken.
LEMMA NthFreeIsFree ==
  ASSUME NEW taken, IsFiniteSet(taken), NEW i \in Nat \ {0}
  PROVE  NthFree(i, taken) \in Nat \ {0} /\ NthFree(i, taken) \notin taken
<1> DEFINE enough == {n \in Nat : Free(n, taken) >= i}
<1>1. Cardinality(taken) \in Nat /\ i + Cardinality(taken) \in enough
  BY FS_CardinalityType, EnoughFree
<1>2. PICK n \in enough : \A k \in enough : ~(k < n)
  <2>1. PICK n \in enough : \A k \in enough : <<k, n>> \notin OpToRel(<, Nat)
    <3>1. enough \subseteq Nat /\ enough # {}
      BY <1>1
    <3>2. IsWellFoundedOn(OpToRel(<, Nat), Nat)
      BY NatLessThanWellFounded
    <3> HIDE DEF enough
    <3> QED BY <3>1, <3>2, WFMin
  <2> QED BY <2>1 DEF OpToRel
<1>3. n \in Nat /\ Free(n, taken) >= i /\ n # 0
  BY FreeStep
<1>4. Free(n - 1, taken) < i
  <2>1. n - 1 \in Nat /\ n - 1 < n
    BY <1>3
  <2>2. Free(n - 1, taken) \in Nat /\ n - 1 \notin enough
    BY <1>2, <2>1, FreeStep
  <2> QED BY <2>1, <2>2
<1>5. Free(n, taken) = i /\ n \notin taken
  <2>1. /\ n - 1 \in Nat /\ (n - 1) + 1 = n
        /\ Free(n - 1, taken) \in Nat
        /\ Free((n - 1) + 1, taken)
             = Free(n - 1, taken) + (IF (n - 1) + 1 \in taken THEN 0 ELSE 1)
    BY <1>3, FreeStep
  <2> QED BY <1>3, <1>4, <2>1
<1>6. n <= i + Cardinality(taken)
  BY <1>1, <1>2, <1>3
<1>7. n \in 1..(i + Cardinality(taken))
  BY <1>1, <1>3, <1>6
<1> DEFINE Fits(k) == k \notin taken /\ Cardinality((1..k) \ taken) = i
           upper == i + Cardinality(taken)
<1>8. \E k \in 1..upper : Fits(k)
  BY <1>5, <1>7 DEF Free
<1>9. NthFree(i, taken) = CHOOSE k \in 1..upper : Fits(k)
  BY DEF NthFree
<1>10. NthFree(i, taken) \in 1..upper /\ Fits(NthFree(i, taken))
  <2> HIDE DEF Fits, upper
  <2> QED BY <1>8, <1>9
<1>11. upper \in Nat
  BY <1>1
<1> QED BY <1>10, <1>11

----------------------------------------------------------------------------
(* Rows and names *)

\* The rows that exist are those of media.
LEMMA RowFacts ==
  ASSUME TypeOK
  PROVE  /\ rows \in [DOMAIN rows -> RowType] /\ DOMAIN rows \subseteq Media
         /\ IsFiniteSet(DOMAIN rows)
<1>1. PICK known \in SUBSET Media : rows \in [known -> RowType]
  BY DEF TypeOK
<1>2. DOMAIN rows = known
  BY <1>1
<1> QED BY <1>1, <1>2, MediaAssumption, FS_Subset

\* Rows that are typed are rows.
LEMMA RowsTyped ==
  ASSUME NEW known \in SUBSET Media, rows' \in [known -> RowType],
         job' \in [of : Media, file : FileType] \cup {NoJob},
         changes' \in Nat, overlap' \in BOOLEAN, moved' \subseteq Media
  PROVE  TypeOK'
BY DEF TypeOK

\* What a changed row is.
LEMMA SetFacts ==
  ASSUME TypeOK, NEW m \in Media, NEW row \in RowType, Set(m, row)
  PROVE  /\ DOMAIN rows' = DOMAIN rows \cup {m}
         /\ rows' \in [DOMAIN rows \cup {m} -> RowType]
         /\ rows'[m] = row
         /\ \A n \in DOMAIN rows \ {m} : rows'[n] = rows[n]
BY RowFacts DEF Set

\* The file of a new row.
LEMMA FileFacts ==
  /\ NoFile \in FileType /\ NoFile.kind = "none"
  /\ Plain \in FileType /\ Plain.kind = "plain"
  /\ NoJob.of \notin Media
BY MediaAssumption DEF NoFile, Plain, NoJob, FileType, Days

\* A name carries the media's day and an index that no other file of that day
\* has, unless it is the file's own.
LEMMA NameFacts ==
  ASSUME TypeOK, NEW m \in DOMAIN rows
  PROVE  /\ NameOf(m) \in FileType
         /\ NameOf(m).kind = "numbered" /\ NameOf(m).day = Day(m)
         /\ Frozen(m) => rows[m].file = NameOf(m)
         /\ ~Frozen(m) => \A n \in DOMAIN rows \ {m} :
                            Frozen(n) => rows[n].file # NameOf(m)
<1> DEFINE others == SameDay(m)
           frozen == {n \in others : Frozen(n)}
           before == {n \in others : Earlier(n, m)}
           place == Cardinality(before \ frozen) + 1
           index == [n \in frozen |-> rows[n].file.index]
           taken == {rows[n].file.index : n \in frozen}
<1>1. rows[m] \in RowType /\ Day(m) \in Days
  BY RowFacts DEF RowType, Day, Days
<1>2. IsFiniteSet(frozen) /\ IsFiniteSet(before)
  BY RowFacts, FS_Subset DEF SameDay
<1>3. IsFiniteSet(taken)
  <2>1. index \in Surjection(frozen, taken)
    BY DEF Surjection
  <2> HIDE DEF frozen, taken, index
  <2> QED BY <1>2, <2>1, FS_Surjection
<1>4. place \in Nat \ {0}
  <2>1. IsFiniteSet(before \ frozen)
    <3> HIDE DEF before, frozen
    <3> QED BY <1>2, FS_Difference
  <2>2. Cardinality(before \ frozen) \in Nat
    <3> HIDE DEF before, frozen
    <3> QED BY <2>1, FS_CardinalityType
  <2> QED BY <2>2
<1>5. Index(m) = IF Frozen(m) THEN rows[m].file.index ELSE NthFree(place, taken)
  BY DEF Index
<1>6. ASSUME ~Frozen(m)
      PROVE  Index(m) \in Nat /\ Index(m) \notin taken
  <2> HIDE DEF place, taken
  <2> QED BY <1>3, <1>4, <1>5, <1>6, NthFreeIsFree
<1>7. Index(m) \in Nat
  BY <1>1, <1>5, <1>6 DEF RowType, FileType
<1>8. ASSUME Frozen(m) PROVE rows[m].file = NameOf(m)
  <2>1. rows[m].file \in FileType
    BY <1>1 DEF RowType
  <2>2. Index(m) = rows[m].file.index
    BY <1>5, <1>8
  <2> QED BY <1>8, <2>1, <2>2 DEF FileType, Frozen, NameOf, Numbered
<1>9. ASSUME ~Frozen(m), NEW n \in DOMAIN rows \ {m}, Frozen(n)
      PROVE  rows[n].file # NameOf(m)
  <2>1. CASE Day(n) = Day(m)
    <3>1. rows[n].file.index \in taken
      BY <1>9, <2>1 DEF SameDay
    <3>2. rows[n].file.index # Index(m)
      BY <1>6, <1>9, <3>1
    <3> QED BY <3>2 DEF NameOf, Numbered
  <2>2. CASE Day(n) # Day(m)
    BY <1>9, <2>2 DEF NameOf, Numbered, Frozen
  <2> QED BY <2>1, <2>2
<1>10. NameOf(m) \in FileType /\ NameOf(m).kind = "numbered" /\ NameOf(m).day = Day(m)
  BY <1>1, <1>7 DEF NameOf, Numbered, FileType
<1> QED BY <1>8, <1>9, <1>10

----------------------------------------------------------------------------
(* Tokens *)

\* The day of a token, as month and day.
Mmdd == 101..1231

\* A token is read back as the index it was made from, for the day it was made
\* for, and is no token of any other day: two-digit places and longer ones
\* never meet.
THEOREM TokensReadBack ==
  ASSUME NEW mmdd \in Mmdd, NEW other \in Mmdd, NEW index \in 1..9999
  PROVE  TokenIndex(Number(mmdd, index), other) = IF other = mmdd THEN index ELSE 0
<1>1. CASE index <= 99
  <2>1. Number(mmdd, index) = mmdd * 100 + index /\ Number(mmdd, index) < 1000000
    BY <1>1, SMT DEF Number, Mmdd
  <2>2. (mmdd * 100 + index) \div 100 = mmdd /\ (mmdd * 100 + index) % 100 = index
    BY <1>1, SMT DEF Mmdd
  <2>3. TokenIndex(Number(mmdd, index), other) =
          IF Number(mmdd, index) \div 100 = other /\ Number(mmdd, index) % 100 >= 1
          THEN Number(mmdd, index) % 100 ELSE 0
    BY <2>1, SMT DEF TokenIndex
  <2>4. index >= 1 /\ Number(mmdd, index) % 100 = index
        /\ Number(mmdd, index) \div 100 = mmdd
    BY <2>1, <2>2
  <2> QED BY <2>3, <2>4, SMT
<1>2. CASE index > 99
  <2>1. /\ Number(mmdd, index) = 10000000 + mmdd * 10000 + index
        /\ ~(Number(mmdd, index) < 1000000)
        /\ Number(mmdd, index) - 10000000 = mmdd * 10000 + index
        /\ mmdd * 10000 + index >= 0
    BY <1>2, SMT DEF Number, Mmdd
  <2>2. /\ (mmdd * 10000 + index) \div 10000 = mmdd
        /\ (mmdd * 10000 + index) % 10000 = index
    <3>1. mmdd \in Nat /\ index \in 0..9999
      BY DEF Mmdd
    <3>2. (mmdd * 10000 + index) \div 10000 = mmdd
      BY <3>1, SMTT(60)
    <3>3. (mmdd * 10000 + index) % 10000 = index
      BY <3>1, SMTT(60)
    <3> QED BY <3>2, <3>3
  <2>3. TokenIndex(Number(mmdd, index), other) =
          IF /\ Number(mmdd, index) - 10000000 >= 0
             /\ (Number(mmdd, index) - 10000000) \div 10000 = other
             /\ (Number(mmdd, index) - 10000000) % 10000 > 99
          THEN (Number(mmdd, index) - 10000000) % 10000 ELSE 0
    BY <2>1, SMT DEF TokenIndex
  <2> QED BY <1>2, <2>1, <2>2, <2>3, SMT
<1> QED BY <1>1, <1>2

----------------------------------------------------------------------------
(* The steps *)

\* What an action does to one row, taking its file off or leaving it: indexing,
\* dating and deleting.  A date that leaves the day of the file's number is
\* remembered.
RowOnly(m, known) ==
  /\ UNCHANGED <<job, overlap>> /\ changes' \in Nat
  /\ rows' \in [known -> RowType]
  /\ known \subseteq Media
  /\ DOMAIN rows \ {m} \subseteq known /\ known \subseteq DOMAIN rows \cup {m}
  /\ \A n \in known \ {m} : rows'[n] = rows[n]
  /\ job # NoJob => m # job.of

\* The file of the row is off, or it is the one it was and the media is out of
\* account, or still of the day of its number.
FileLeft(m) ==
  \/ rows'[m].file = NoFile
  \/ /\ m \in DOMAIN rows /\ rows'[m].file = rows[m].file
     /\ m \in moved => m \in moved'
     /\ rows[m].file.kind = "numbered" => m \in moved' \/ (Frozen(m))'

\* Such an action gives no number away.
LEMMA RowStep ==
  ASSUME EpisodeInv, NEW m \in Media, NEW known, RowOnly(m, known),
         m \in known => FileLeft(m),
         moved' \subseteq Media, moved \ {m} = moved' \ {m}
  PROVE  EpisodeInv'
<1>1. TypeOK' /\ DOMAIN rows' = known
  BY RowsTyped DEF EpisodeInv, TypeOK, RowOnly
<1>2. m \in known => \/ rows'[m].file.kind = "none"
                     \/ m \in DOMAIN rows /\ rows'[m].file = rows[m].file
                        /\ (m \in moved => m \in moved')
  BY FileFacts DEF FileLeft
<1>3. \A n \in known \ {m} :
        /\ n \in DOMAIN rows /\ rows'[n] = rows[n] /\ (n \in moved <=> n \in moved')
        /\ (Frozen(n))' = Frozen(n)
  BY DEF Day, Frozen, RowOnly
<1>4. DatesSettled'
  <2> SUFFICES ASSUME NEW n \in known, n \notin moved', rows'[n].file.kind = "numbered"
               PROVE  (Frozen(n))'
    BY <1>1 DEF DatesSettled
  <2>1. CASE n = m
    BY <2>1, FileFacts DEF FileLeft
  <2>2. CASE n # m
    BY <1>3, <2>2 DEF EpisodeInv, DatesSettled
  <2> QED BY <2>1, <2>2
<1>5. JobSettled'
  <2> SUFFICES ASSUME job # NoJob PROVE JobSettled'
    BY DEF JobSettled, RowOnly
  <2>1. job' = job /\ job.of # m /\ job.of \in known /\ rows'[job.of] = rows[job.of]
    BY DEF EpisodeInv, JobSettled, RowOnly
  <2>2. (Day(job.of))' = Day(job.of)
    BY <2>1 DEF Day
  <2> QED BY <1>1, <2>1, <2>2 DEF EpisodeInv, JobSettled
<1>6. FilesDistinct'
  <2>1. FilesDistinct /\ job' = job /\ overlap' = overlap
    BY DEF EpisodeInv, RowOnly
  <2>2. \A n \in known \ moved' : rows'[n].file.kind = "numbered" =>
          n \in DOMAIN rows \ moved /\ rows'[n].file = rows[n].file
    BY <1>2, <1>3
  <2>3. job # NoJob => job.file.kind = "numbered"
    BY DEF EpisodeInv, JobSettled
  <2>4. ASSUME ~overlap, job # NoJob, NEW n \in known \ moved'
        PROVE  rows'[n].file # job.file
    BY <2>1, <2>2, <2>3, <2>4 DEF FilesDistinct
  <2>5. ASSUME ~overlap, NEW n \in known \ moved', NEW o \in known \ moved', n # o,
               rows'[n].file = rows'[o].file
        PROVE  rows'[n].file.kind # "numbered"
    BY <2>1, <2>2, <2>5 DEF FilesDistinct
  <2> QED BY <1>1, <2>1, <2>4, <2>5 DEF FilesDistinct
<1> QED BY <1>1, <1>4, <1>5, <1>6 DEF EpisodeInv

\* Indexing and dating touch only a row whose date is not settled.
LEMMA DatingStep ==
  ASSUME EpisodeInv, NEW m \in Media, NEW date \in Dates,
         IndexNew(m, date) \/ Redate(m, date) \/ Ingest(m, date)
  PROVE  EpisodeInv'
<1>1. /\ TypeOK /\ changes' \in Nat /\ UNCHANGED <<job, overlap>>
      /\ moved \subseteq Media
  BY DEF EpisodeInv, TypeOK, IndexNew, Redate, Ingest, Change
<1>2. DOMAIN rows \cup {m} \in SUBSET Media
  BY <1>1, RowFacts
<1>3. CASE IndexNew(m, date)
  <2> DEFINE row == [date |-> date, stable |-> FALSE, created |-> Clock, file |-> NoFile]
  <2>1. row \in RowType /\ row.file = NoFile
    BY <1>1, FileFacts DEF RowType, Clock, TypeOK
  <2>2. Set(m, row) /\ m \notin DOMAIN rows /\ moved' = moved
    BY <1>3 DEF IndexNew
  <2>3. job # NoJob => m # job.of
    BY <2>2 DEF EpisodeInv, JobSettled
  <2> HIDE DEF row
  <2>4. /\ rows' \in [DOMAIN rows \cup {m} -> RowType] /\ rows'[m] = row
        /\ \A n \in DOMAIN rows \ {m} : rows'[n] = rows[n]
    BY <1>1, <2>1, <2>2, SetFacts
  <2>5. RowOnly(m, DOMAIN rows \cup {m})
    BY <1>1, <1>2, <2>3, <2>4 DEF RowOnly
  <2>6. FileLeft(m)
    BY <2>1, <2>4 DEF FileLeft
  <2> QED BY <1>1, <2>2, <2>5, <2>6, RowStep
<1>4. ASSUME m \in DOMAIN rows, ~rows[m].stable, NEW row \in RowType, Set(m, row),
             row.file = rows[m].file, row.date = date, Dated(m, date)
      PROVE  EpisodeInv'
  <2>1. /\ rows' \in [DOMAIN rows \cup {m} -> RowType] /\ rows'[m] = row
        /\ \A n \in DOMAIN rows \ {m} : rows'[n] = rows[n]
    BY <1>1, <1>4, SetFacts
  <2>2. job # NoJob => m # job.of
    BY <1>4 DEF EpisodeInv, JobSettled
  <2>3. RowOnly(m, DOMAIN rows \cup {m})
    BY <1>1, <1>2, <2>1, <2>2 DEF RowOnly
  <2>4. /\ moved' \subseteq Media /\ moved \ {m} = moved' \ {m} /\ moved \subseteq moved'
        /\ rows[m].file.kind = "numbered" /\ rows[m].file.day # DayOf(date) => m \in moved'
    BY <1>1, <1>4 DEF Dated
  <2>5. rows[m].file.kind = "numbered" /\ rows[m].file.day = DayOf(date) => (Frozen(m))'
    BY <1>4, <2>1 DEF Frozen, Day
  <2>6. FileLeft(m)
    BY <1>4, <2>1, <2>4, <2>5 DEF FileLeft
  <2> QED BY <2>3, <2>4, <2>6, RowStep
<1>5. m \in DOMAIN rows => rows[m] \in RowType
  BY <1>1, RowFacts
<1>6. CASE Redate(m, date)
  <2> DEFINE row == [rows[m] EXCEPT !.date = date]
  <2>1. m \in DOMAIN rows /\ ~rows[m].stable /\ Set(m, row) /\ Dated(m, date)
    BY <1>6 DEF Redate
  <2>2. row \in RowType /\ row.file = rows[m].file /\ row.date = date
    BY <1>5, <2>1 DEF RowType
  <2> HIDE DEF row
  <2> QED BY <1>4, <2>1, <2>2
<1>7. CASE Ingest(m, date)
  <2> DEFINE row == [rows[m] EXCEPT !.date = date, !.stable = TRUE]
  <2>1. m \in DOMAIN rows /\ ~rows[m].stable /\ Set(m, row) /\ Dated(m, date)
    BY <1>7 DEF Ingest
  <2>2. row \in RowType /\ row.file = rows[m].file /\ row.date = date
    BY <1>5, <2>1 DEF RowType
  <2> HIDE DEF row
  <2> QED BY <1>4, <2>1, <2>2
<1> QED BY <1>3, <1>6, <1>7

\* Deleting takes a file, or a row without one, off.
LEMMA DeleteStep ==
  ASSUME EpisodeInv, NEW m \in Media, Delete(m)
  PROVE  EpisodeInv'
<1>1. TypeOK /\ changes' \in Nat /\ m \in DOMAIN rows /\ m # job.of
      /\ UNCHANGED <<job, overlap>> /\ moved' = moved \ {m} /\ moved \subseteq Media
  BY DEF EpisodeInv, TypeOK, Delete, Change
<1>2. /\ rows \in [DOMAIN rows -> RowType] /\ DOMAIN rows \subseteq Media
      /\ rows[m] \in RowType
  BY <1>1, RowFacts
<1>3. CASE rows[m].file.kind = "none"
  <2> DEFINE known == DOMAIN rows \ {m}
  <2>1. rows' = [n \in known |-> rows[n]]
    BY <1>3 DEF Delete
  <2>2. rows' \in [known -> RowType] /\ \A n \in known \ {m} : rows'[n] = rows[n]
    BY <1>2, <2>1
  <2>3. RowOnly(m, known)
    BY <1>1, <1>2, <2>2 DEF RowOnly
  <2> QED BY <1>1, <2>3, RowStep
<1>4. CASE rows[m].file.kind # "none"
  <2>1. rows' = [rows EXCEPT ![m].file = NoFile]
    BY <1>4 DEF Delete
  <2>2. [rows[m] EXCEPT !.file = NoFile] \in RowType
    BY <1>2, FileFacts DEF RowType
  <2>3. /\ rows' \in [DOMAIN rows -> RowType]
        /\ rows'[m].file = NoFile
        /\ \A n \in DOMAIN rows \ {m} : rows'[n] = rows[n]
    BY <1>1, <1>2, <2>1, <2>2 DEF RowType
  <2>4. RowOnly(m, DOMAIN rows) /\ FileLeft(m)
    BY <1>1, <1>2, <2>3 DEF RowOnly, FileLeft
  <2> QED BY <1>1, <2>4, RowStep
<1> QED BY <1>3, <1>4

\* A download starts with a number of its own.
LEMMA StartStep ==
  ASSUME EpisodeInv, NEW m \in Media, StartDownload(m)
  PROVE  EpisodeInv'
<1>1. /\ TypeOK /\ m \in DOMAIN rows /\ rows[m].stable /\ rows[m].file = NoFile
      /\ UNCHANGED <<rows, changes, overlap, moved>>
  BY DEF EpisodeInv, StartDownload
<1>2. ~Frozen(m)
  BY <1>1, FileFacts DEF Frozen
<1>3. NameOf(m) \in FileType /\ NameOf(m).kind = "numbered" /\ NameOf(m).day = Day(m)
  BY <1>1, NameFacts
<1>4. job' \in [of : Media, file : FileType] /\ job'.of = m /\ job'.file = NameOf(m)
  BY <1>3 DEF StartDownload
<1>5. TypeOK'
  BY <1>1, <1>4, RowFacts, RowsTyped DEF TypeOK
<1>6. DatesSettled'
  BY <1>1 DEF EpisodeInv, DatesSettled, Frozen, Day
<1>7. JobSettled'
  BY <1>1, <1>3, <1>4 DEF JobSettled, Day
<1>8. \A n \in DOMAIN rows \ moved : rows[n].file # NameOf(m)
  <2>1. \A n \in DOMAIN rows \ (moved \cup {m}) : rows[n].file.kind = "numbered" => Frozen(n)
    BY DEF EpisodeInv, DatesSettled
  <2>2. rows[m].file.kind # "numbered"
    BY <1>1, FileFacts
  <2> QED BY <1>1, <1>2, <1>3, <2>1, <2>2, NameFacts
<1>9. FilesDistinct'
  BY <1>1, <1>4, <1>8 DEF EpisodeInv, FilesDistinct
<1> QED BY <1>5, <1>6, <1>7, <1>9 DEF EpisodeInv

\* The number of a download goes to its media, which has none.
LEMMA EndStep ==
  ASSUME EpisodeInv, EndDownload
  PROVE  /\ EpisodeInv'
         /\ \A n \in DOMAIN rows : rows[n].file.kind = "numbered" => rows'[n] = rows[n]
<1> DEFINE m == job.of
           file == job.file
<1>1. /\ TypeOK /\ job # NoJob /\ job' = NoJob /\ UNCHANGED <<changes, overlap, moved>>
      /\ m \in DOMAIN rows /\ rows[m].stable /\ rows[m].file = NoFile
      /\ file.kind = "numbered" /\ file.day = Day(m)
  BY DEF EpisodeInv, JobSettled, EndDownload
<1>2. rows \in [DOMAIN rows -> RowType] /\ DOMAIN rows \subseteq Media /\ file \in FileType
  BY <1>1, RowFacts DEF TypeOK
<1>3. rows' = [rows EXCEPT ![m].file = file]
  BY <1>1 DEF EndDownload
<1>4. [rows[m] EXCEPT !.file = file] \in RowType
  BY <1>1, <1>2 DEF RowType
<1>5. /\ rows' \in [DOMAIN rows -> RowType] /\ DOMAIN rows' = DOMAIN rows
      /\ rows'[m].file = file /\ rows'[m].date = rows[m].date /\ rows'[m].stable
      /\ \A n \in DOMAIN rows \ {m} : rows'[n] = rows[n]
  BY <1>1, <1>2, <1>3, <1>4 DEF RowType
<1> HIDE DEF m, file
<1>6. TypeOK'
  BY <1>1, <1>2, <1>5, RowsTyped DEF TypeOK
<1>7. \A n \in DOMAIN rows : (Day(n))' = Day(n)
  BY <1>5 DEF Day
<1>8. DatesSettled'
  BY <1>1, <1>5, <1>7 DEF EpisodeInv, DatesSettled, Frozen
<1>9. JobSettled'
  BY <1>1 DEF JobSettled
<1>10. FilesDistinct'
  BY <1>1, <1>5 DEF EpisodeInv, FilesDistinct, m, file
<1>11. rows[m].file.kind # "numbered"
  BY <1>1, FileFacts
<1> QED BY <1>5, <1>6, <1>8, <1>9, <1>10, <1>11 DEF EpisodeInv

\* Renaming gives a number only to a file that has none of its media's day.
LEMMA RenameStep ==
  ASSUME EpisodeInv, NEW m \in Media, Rename(m)
  PROVE  /\ EpisodeInv'
         /\ \A n \in DOMAIN rows \ moved :
              rows[n].file.kind = "numbered" => rows'[n] = rows[n]
<1>1. /\ TypeOK /\ m \in DOMAIN rows /\ rows[m].file.kind # "none"
      /\ overlap' = (overlap \/ job # NoJob) /\ UNCHANGED <<job, changes>>
      /\ moved' = moved \ {m} /\ moved \subseteq Media
  BY DEF EpisodeInv, TypeOK, Rename
<1>2. /\ NameOf(m) \in FileType /\ NameOf(m).kind = "numbered" /\ NameOf(m).day = Day(m)
      /\ ~Frozen(m)
  BY <1>1, NameFacts DEF Rename
<1>3. rows \in [DOMAIN rows -> RowType] /\ DOMAIN rows \subseteq Media /\ rows[m] \in RowType
  BY <1>1, RowFacts
<1> DEFINE row == [rows[m] EXCEPT !.file = NameOf(m)]
<1>4. /\ row \in RowType /\ row.file = NameOf(m) /\ row.date = rows[m].date
  BY <1>2, <1>3 DEF RowType
<1>5. Set(m, row)
  BY DEF Rename
<1> HIDE DEF row
<1>6. /\ rows' \in [DOMAIN rows -> RowType] /\ DOMAIN rows' = DOMAIN rows
      /\ rows'[m].file = NameOf(m) /\ rows'[m].date = rows[m].date
      /\ \A n \in DOMAIN rows \ {m} : rows'[n] = rows[n]
  <2>1. DOMAIN rows \cup {m} = DOMAIN rows
    BY <1>1
  <2> QED BY <1>1, <1>3, <1>4, <1>5, <2>1, SetFacts
<1>7. TypeOK'
  BY <1>1, <1>3, <1>6, RowsTyped DEF TypeOK
<1>8. \A n \in DOMAIN rows : (Day(n))' = Day(n)
  BY <1>6 DEF Day
<1>9. DatesSettled'
  BY <1>1, <1>2, <1>6, <1>8 DEF EpisodeInv, DatesSettled, Frozen
<1>10. m \in moved \/ rows[m].file.kind # "numbered"
  BY <1>1, <1>2 DEF EpisodeInv, DatesSettled
<1>11. JobSettled'
  <2> SUFFICES ASSUME job # NoJob PROVE JobSettled'
    BY <1>1 DEF JobSettled
  <2>1. job.of \in DOMAIN rows /\ rows[job.of].file = NoFile
    BY DEF EpisodeInv, JobSettled
  <2>2. job.of # m
    BY <1>1, <2>1, FileFacts
  <2> QED BY <1>1, <1>6, <1>8, <2>1, <2>2 DEF EpisodeInv, JobSettled
<1>12. FilesDistinct'
  <2> SUFFICES ASSUME ~overlap, job = NoJob PROVE FilesDistinct'
    BY <1>1 DEF FilesDistinct
  <2>1. \A n \in DOMAIN rows \ (moved \cup {m}) :
          rows[n].file.kind = "numbered" => rows[n].file # NameOf(m)
    BY <1>1, <1>2, NameFacts DEF EpisodeInv, DatesSettled
  <2> QED BY <1>1, <1>6, <2>1 DEF EpisodeInv, FilesDistinct
<1> QED BY <1>6, <1>7, <1>9, <1>10, <1>11, <1>12 DEF EpisodeInv

----------------------------------------------------------------------------
(* What follows *)

\* A number is one of the media's day unless its date moved since, and such
\* numbers stay apart.
THEOREM Invariance == Spec => []EpisodeInv
<1>1. Init => EpisodeInv
  <2> SUFFICES ASSUME Init PROVE EpisodeInv
    OBVIOUS
  <2>1. PICK dates \in [Legacy -> Dates], ingested \in SUBSET Legacy :
          rows = [m \in Legacy |-> [date |-> dates[m], stable |-> m \in ingested,
                                    created |-> 0, file |-> Plain]]
    BY DEF Init
  <2>2. /\ rows \in [Legacy -> RowType] /\ DOMAIN rows = Legacy
        /\ \A m \in Legacy : rows[m].file = Plain
    BY <2>1, FileFacts DEF RowType
  <2>3. Legacy \in SUBSET Media
    BY MediaAssumption
  <2>4. TypeOK
    <3>1. job = NoJob /\ changes \in Nat /\ overlap \in BOOLEAN /\ moved \subseteq Media
      BY DEF Init
    <3> QED BY <2>2, <2>3, <3>1 DEF TypeOK
  <2>5. DatesSettled /\ JobSettled
    BY <2>2, FileFacts DEF DatesSettled, JobSettled, Init
  <2>6. FilesDistinct
    BY <2>2, FileFacts DEF Init, FilesDistinct
  <2> QED BY <2>4, <2>5, <2>6 DEF EpisodeInv
<1>2. EpisodeInv /\ [Next]_vars => EpisodeInv'
  <2> SUFFICES ASSUME EpisodeInv, [Next]_vars PROVE EpisodeInv'
    OBVIOUS
  <2>1. CASE UNCHANGED vars
    BY <2>1 DEF vars, EpisodeInv, TypeOK, DatesSettled, JobSettled, FilesDistinct,
       Frozen, Day
  <2> QED BY <2>1, DatingStep, DeleteStep, StartStep, EndStep, RenameStep DEF Next
<1> QED BY <1>1, <1>2, PTL DEF Spec

\* Whatever is indexed, dated, downloaded and removed, no two files nor the
\* running download share a number, unless a rename ran next to a download;
\* files whose media was dated to another day since are left out.
THEOREM NumbersApart == Spec => []FilesDistinct
<1>1. EpisodeInv => FilesDistinct
  BY DEF EpisodeInv
<1> QED BY <1>1, Invariance, PTL

\* A number, once given, is never given up for another one, unless the media
\* was dated to another day.
THEOREM NumbersKept == Spec => NumberKept
<1> DEFINE Kept ==
      \A m \in DOMAIN rows \ moved :
        m \in DOMAIN rows' /\ rows[m].file.kind = "numbered"
          /\ rows'[m].file.kind = "numbered" => rows'[m].file = rows[m].file
<1>1. EpisodeInv /\ [Next]_vars => [Kept]_vars
  <2> SUFFICES ASSUME EpisodeInv, Next, NEW m \in DOMAIN rows \ moved, m \in DOMAIN rows',
                      rows[m].file.kind = "numbered", rows'[m].file.kind = "numbered"
               PROVE  rows'[m].file = rows[m].file
    OBVIOUS
  <2>1. TypeOK /\ m \in DOMAIN rows /\ m \in Media /\ rows[m] \in RowType
    BY RowFacts DEF EpisodeInv
  <2>2. ASSUME NEW n \in Media, NEW date \in Dates,
               IndexNew(n, date) \/ Redate(n, date) \/ Ingest(n, date)
        PROVE  rows'[m].file = rows[m].file
    <3>1. CASE IndexNew(n, date)
      BY <2>1, <3>1 DEF IndexNew, Set
    <3>2. CASE Redate(n, date)
      <4>1. [rows[n] EXCEPT !.date = date].file = rows[n].file /\ n \in DOMAIN rows
        BY <2>1, <3>2, RowFacts DEF Redate, RowType
      <4> QED BY <2>1, <3>2, <4>1 DEF Redate, Set
    <3>3. CASE Ingest(n, date)
      <4>1. /\ [rows[n] EXCEPT !.date = date, !.stable = TRUE].file = rows[n].file
            /\ n \in DOMAIN rows
        BY <2>1, <3>3, RowFacts DEF Ingest, RowType
      <4> QED BY <2>1, <3>3, <4>1 DEF Ingest, Set
    <3> QED BY <2>2, <3>1, <3>2, <3>3
  <2>3. ASSUME NEW n \in Media, Delete(n)
        PROVE  rows'[m].file = rows[m].file
    <3>1. n # m
      <4> SUFFICES ASSUME n = m PROVE FALSE
        OBVIOUS
      <4>1. rows' = [rows EXCEPT ![m].file = NoFile]
        BY <2>3 DEF Delete
      <4>2. rows'[m].file = NoFile
        BY <2>1, <4>1 DEF RowType
      <4> QED BY <4>2, FileFacts
    <3> QED BY <2>1, <2>3, <3>1 DEF Delete
  <2>4. ASSUME NEW n \in Media, StartDownload(n)
        PROVE  rows'[m].file = rows[m].file
    BY <2>4 DEF StartDownload
  <2> QED BY <2>2, <2>3, <2>4, EndStep, RenameStep DEF Next
<1> QED BY <1>1, Invariance, PTL DEF Spec, NumberKept
=============================================================================
