---------------------------- MODULE BackfillPlan ----------------------------
(***************************************************************************)
(* What medianest_backfill_plex_sidecars decides about the media of one    *)
(* source: which files a rename would take along, which of them belong to  *)
(* another media, and whether the media is renamed, adopted, in place or   *)
(* refused.  A dry-run, the gate before a save and --apply all use this    *)
(* one decision, the first two on a disk that does not change.             *)
(*                                                                         *)
(* A path is a directory and a name; a name is a sequence of tokens, where *)
(* a dot is a token, so that stems, suffixes and "starts with" are those   *)
(* of pathlib.  A disk is a function from the paths that exist to what is  *)
(* in the file.  The tree holds regular files only: the command refuses a  *)
(* source whose tree holds anything else (_special_tree_entries).          *)
(***************************************************************************)
EXTENDS Naturals, Sequences, SequencesExt

CONSTANTS
  Home,          \* the directory of the source
  Media,         \* the media of the source
  KeyOf(_),      \* the video id, a token
  Target(_, _),  \* the path a media has under a profile
  WriteNfo,      \* the profile writes episode NFOs
  CopyThumbs,    \* the profile copies thumbnails
  HasThumb       \* media with a cached thumbnail

NoPath == [dir |-> "none", name |-> <<>>]

Video(m) == [kind |-> "video", of |-> m]
Nfo(m)   == [kind |-> "nfo", of |-> m]
Thumb(m) == [kind |-> "thumb", of |-> m]
Show  == [kind |-> "show", of |-> "source"]

\* What belongs to the source itself: the show's NFO and, as its profile
\* copies channel images, those; the poster stands for all of them.
ShowNfo == [dir |-> Home, name |-> <<"tvshow", ".", "nfo">>]
Poster  == [dir |-> Home, name |-> <<"poster", ".", "jpg">>]

----------------------------------------------------------------------------
(* Names *)

Dots(name) == {i \in DOMAIN name : name[i] = "."}

\* directory_and_stem: everything before the last dot, or before the first.
Stem(name) ==
  IF Dots(name) = {} THEN name
  ELSE SubSeq(name, 1, (CHOOSE i \in Dots(name) : \A j \in Dots(name) : j <= i) - 1)
FirstStem(name) ==
  IF Dots(name) = {} THEN name
  ELSE SubSeq(name, 1, (CHOOSE i \in Dots(name) : \A j \in Dots(name) : i <= j) - 1)

\* name[len(stem):]
After(name, stem) == SubSeq(name, Len(stem) + 1, Len(name))

\* Named after the video v: in its directory, its stem, a dot, suffixes.
Beside(path, v) ==
  /\ path.dir = v.dir
  /\ IsPrefix(Append(Stem(v.name), "."), path.name)

HasToken(name, token) == \E i \in DOMAIN name : name[i] = token

Sidecar(target, suffix) ==
  [dir |-> target.dir, name |-> Stem(target.name) \o <<".", suffix>>]

\* Where a file that starts with the old stem goes.
Restem(path, stem, target) ==
  [dir |-> target.dir, name |-> Stem(target.name) \o After(path.name, stem)]

----------------------------------------------------------------------------
(* What Media.rename_files() collects after it moved the video *)

OldStemFiles(disk, old) ==
  {p \in DOMAIN disk : p.dir = old.dir /\ IsPrefix(Stem(old.name), p.name)}

KeyFiles(disk, m) == {p \in DOMAIN disk : HasToken(p.name, KeyOf(m))}

----------------------------------------------------------------------------
(***************************************************************************)
(* A run keeps, per source: the videos the rows record (media_files) and   *)
(* recorded when it began, what its renames move to (destinations,         *)
(* targets) and away from (vacated), and the listing of the tree it took   *)
(* the first time it needed one (snapshot).                                *)
(***************************************************************************)
NoSnapshot == {NoPath}

NewRun(recorded) ==
  [videos |-> recorded, original |-> recorded, destinations |-> {},
   targets |-> {}, vacated |-> {}, snapshot |-> NoSnapshot]

Present(disk, run, p) == p \in DOMAIN disk /\ p \notin run.vacated

Reserved(run, current, target) ==
  (run.videos \ {current, target}) \cup run.destinations

ClaimedByOther(run, p, current, target) ==
  \/ p \in run.videos \ {current, target}
  \/ \E v \in (run.videos \cup run.original) \ {current, target} : Beside(p, v)

\* Not this media's own episode NFO (an empty or own one may be replaced).
ForeignNfo(disk, m, p) == p \in DOMAIN disk /\ disk[p] # Nfo(m)

\* The (file, destination) pairs of rename_files' first pass ...
SidecarMoves(disk, run, current, target) ==
  LET stem == Stem(current.name)
      near(p) == p.dir = current.dir /\ IsPrefix(stem, p.name)
      found == ({p \in DOMAIN disk : near(p)}
                  \cup {p \in run.destinations \cup run.targets : near(p)})
                 \ (run.vacated \cup {current})
  IN  {[from |-> p, to |-> Restem(p, stem, target)] : p \in found}

\* ... and those its {key} sweep would consider.
KeyCandidates(disk, run, m, current, target) ==
  LET moved == {s.from : s \in SidecarMoves(disk, run, current, target)}
      found == {p \in DOMAIN disk \cup run.destinations \cup run.targets :
                  HasToken(p.name, KeyOf(m))}
                 \ (run.vacated \cup moved \cup {current})
      moves == {[from |-> p, to |-> Restem(p, FirstStem(p.name), target)] : p \in found}
  IN  {k \in moves : k.from # k.to}

\* Of these, the ones whose destination is taken.
KeyCollisions(disk, run, m, current, target) ==
  LET candidates == KeyCandidates(disk, run, m, current, target)
      taken == {target} \cup Reserved(run, current, target)
                 \cup {s.to : s \in SidecarMoves(disk, run, current, target)}
  IN  {k \in candidates :
         \/ k.to \in taken \/ Present(disk, run, k.to)
         \/ \E other \in candidates : other # k /\ other.to = k.to}

\* Mutant: leftovers are not looked for.
StrayIgnored(snapshot, run, m, recorded, target) == {}

\* Files with the media's key elsewhere in the tree, left by an earlier run.
Stray(snapshot, run, m, recorded, target) ==
  {p \in snapshot \ run.vacated :
     /\ HasToken(p.name, KeyOf(m)) /\ p # target
     /\ ~Beside(p, target)
     /\ ~ClaimedByOther(run, p, recorded, target)}

\* _path_problem and _adoption_problem; in a tree of regular files only
\* a missing file is left of them.
PathProblem(disk, current) == current \notin DOMAIN disk
AdoptionProblem(disk, target) == target \notin DOMAIN disk

\* Mutant: only the video's own target is checked.
RenameProblemVideoOnly(disk, run, m, current, target) ==
  PathProblem(disk, current) \/ Present(disk, run, target)

\* Why the rename of a media must not happen.
RenameProblem(disk, run, m, current, target) ==
  LET moves == SidecarMoves(disk, run, current, target)
      keyMoves == KeyCandidates(disk, run, m, current, target)
      nfo == Sidecar(target, "nfo")
      incoming == {s \in moves \cup keyMoves : s.to = nfo}
  IN  \/ PathProblem(disk, current)
      \/ Present(disk, run, target)
      \/ target \in run.videos \cup run.destinations
      \/ \E s \in moves : s.to = target
      \/ KeyCollisions(disk, run, m, current, target) # {}
      \/ \E s \in moves \cup keyMoves : ClaimedByOther(run, s.from, current, target)
      \/ \E s \in moves : s.to # s.from /\
           (Present(disk, run, s.to) \/ s.to \in Reserved(run, current, target))
      \/ WriteNfo /\ incoming = {} /\ ForeignNfo(disk, m, nfo)
      \/ WriteNfo /\ \E s \in incoming : ForeignNfo(disk, m, s.from)

\* The listing a run decides from: taken once per source.
Listing(disk, run) == IF run.snapshot = NoSnapshot THEN DOMAIN disk ELSE run.snapshot

\* The target of a media whose file is gone belongs to another media ...
TakenTarget(disk, run, current, target) ==
  \/ target \in run.destinations
  \/ target \in DOMAIN disk /\ ClaimedByOther(run, target, current, target)

\* ... or holds what an earlier run moved there without recording it.
Adoptable(disk, run, current, target) ==
  /\ PathProblem(disk, current) /\ ~AdoptionProblem(disk, target)
  /\ target \notin run.videos \cup run.vacated
  /\ ~TakenTarget(disk, run, current, target)

\* The decisions that look for strays.
Settled(disk, run, current, target) ==
  IF current = target THEN current \in DOMAIN disk
  ELSE current # NoPath /\ Adoptable(disk, run, current, target)

\* _rename_media's decision.
Decide(disk, run, m, current, target) ==
  IF Settled(disk, run, current, target)
  THEN IF Stray(Listing(disk, run), run, m, current, target) # {} THEN "refused"
       ELSE IF current = target THEN "in_place" ELSE "adopted"
  ELSE IF \/ current \in {NoPath, target}
          \/ RenameProblem(disk, run, m, current, target)
       THEN "refused" ELSE "renamed"

\* What the run remembers of a decision.
Remember(disk, run, m, current, target, outcome) ==
  LET moves == SidecarMoves(disk, run, current, target)
                 \cup KeyCandidates(disk, run, m, current, target)
      tos == {s.to : s \in moves}
      videos == (run.videos \ {current}) \cup {target}
      listed == IF Settled(disk, run, current, target)
                THEN [run EXCEPT !.snapshot = Listing(disk, run)] ELSE run
  IN  CASE outcome = "adopted" -> [listed EXCEPT !.videos = videos]
        [] outcome = "renamed" ->
             [run EXCEPT
                !.videos = videos,
                !.destinations = @ \cup tos,
                !.vacated = (@ \cup {current} \cup {s.from : s \in moves})
                              \ (tos \cup {target}),
                !.targets = @ \cup {target}]
        [] OTHER -> listed

----------------------------------------------------------------------------
(* The sidecars of a media that is at its target *)

\* _handle_episode_nfo writes unless something foreign is there.
NfoOutcome(disk, m, target) ==
  IF ~WriteNfo THEN "none"
  ELSE IF ForeignNfo(disk, m, Sidecar(target, "nfo")) THEN "foreign" ELSE "written"

\* Mutant: what an earlier move brings is not foreseen.
CopiesThumbUnforeseen(disk, run, m, target) ==
  CopyThumbs /\ m \in HasThumb /\ Sidecar(target, "jpg") \notin DOMAIN disk

\* _handle_thumbnail copies a cached thumbnail unless something is there.
CopiesThumb(disk, run, m, target) ==
  /\ CopyThumbs /\ m \in HasThumb
  /\ Sidecar(target, "jpg") \notin DOMAIN disk \cup run.destinations

\* What the summary counts for a media.
Report(disk, run, m, target, outcome) ==
  IF outcome = "refused" THEN [outcome |-> outcome, nfo |-> "none", thumb |-> FALSE]
  ELSE [outcome |-> outcome, nfo |-> NfoOutcome(disk, m, target),
        thumb |-> CopiesThumb(disk, run, m, target)]

\* A dry-run over the media in their order: the disk stays as it is.
DryRun(disk, row, profile, order) ==
  LET visit(acc, m) ==
        LET to == Target(m, profile)
            outcome == Decide(disk, acc.run, m, row[m], to)
            run == Remember(disk, acc.run, m, row[m], to, outcome)
        IN  [run |-> run,
             reports |-> Append(acc.reports, Report(disk, run, m, to, outcome))]
      first == [run |-> NewRun({row[m] : m \in ToSet(order)} \ {NoPath}), reports |-> <<>>]
  IN  FoldLeft(visit, first, order).reports

----------------------------------------------------------------------------
(* Whether a source may be touched at all *)

\* Reasons outside the media's names.  The command, and who runs it:
RunOddities == {"invalid defaults", "linked storage", "not the owner", "no such source"}
\* the source's directory, and what is in it;
Special == {"special entry"}
TreeOddities ==
  Special \cup {"no profile for it", "not a directory", "linked directory", "outside the storage"}
\* the profile on this source, and the files an image job would write;
UnsafeImages == {"image is not a file", "directory outside the root"}
OverlayOddities == UnsafeImages \cup {"invalid profile"}
\* other sources whose files the globs and the sweep would reach.
ForeignRows == {"row of another source"}
Nested == {"source inside or around"}
FileOddities == ForeignRows \cup Nested \cup {"row through a link"}
Oddities == RunOddities \cup TreeOddities \cup OverlayOddities \cup FileOddities

\* _reserved_path_problems

\* The videos a media has or will have, and the files it makes or takes along.
OwnVideos(m, row, profile) == {Target(m, profile), row[m]} \ {NoPath}
OwnSidecars(disk, m, row, profile) ==
  LET target == Target(m, profile)
      run == NewRun({})
      moved == IF row[m] \in DOMAIN disk /\ row[m] # target
               THEN {s.to : s \in SidecarMoves(disk, run, row[m], target)
                              \cup (KeyCandidates(disk, run, m, row[m], target)
                                      \ KeyCollisions(disk, run, m, row[m], target))}
               ELSE {}
  IN  moved \cup (IF WriteNfo THEN {Sidecar(target, "nfo")} ELSE {})
            \cup (IF CopyThumbs THEN {Sidecar(target, "jpg")} ELSE {})

Collide(disk, m, n, row, profile) ==
  \/ Target(m, profile) = Target(n, profile)
  \/ row[m] = row[n] /\ row[m] # NoPath
  \/ OwnSidecars(disk, m, row, profile)
       \cap (OwnVideos(n, row, profile) \cup OwnSidecars(disk, n, row, profile)) # {}

\* The files of the show, and the video itself.
TakesReserved(disk, m, row, profile) ==
  LET target == Target(m, profile)
      mine == OwnVideos(m, row, profile) \cup OwnSidecars(disk, m, row, profile)
  IN  \/ WriteNfo /\ Sidecar(target, "nfo") \in {ShowNfo, target}
      \/ CopyThumbs /\ Sidecar(target, "jpg") = target
      \/ Poster \in mine

\* Mutant: downloads to come are not looked at.
PendingUnchecked(disk, m, profile) == FALSE

\* Not downloaded yet: what its download would take or replace.
PendingProblem(disk, m, profile) ==
  LET target == Target(m, profile)
  IN  \/ target \in DOMAIN disk
      \/ CopyThumbs /\ Sidecar(target, "jpg") \in DOMAIN disk
      \/ WriteNfo /\ ForeignNfo(disk, m, Sidecar(target, "nfo"))

SourceProblem(disk, row, downloaded, profile) ==
  \/ \E m \in Media : TakesReserved(disk, m, row, profile)
  \/ \E m, n \in Media : m # n /\ Collide(disk, m, n, row, profile)
  \/ \E m \in Media \ downloaded : PendingProblem(disk, m, profile)
=============================================================================
