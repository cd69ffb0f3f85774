-------------------------- MODULE ProfileTemplate --------------------------
(***************************************************************************)
(* What the backfill says about a media_format before it touches a source  *)
(* (_profile_problems), against what the format can render.                *)
(*                                                                         *)
(* A template is a sequence of pieces: the literals ".", "/" and words,    *)
(* and fields.  A field stands for the class the code sees in it:          *)
(*   key       the whole video id, the only value no two media share       *)
(*   date      always some text without dots ({yyyy}, {episode_mmddnn})    *)
(*   ext       the extension, fixed for a source                           *)
(*   hdr       dot-free text or nothing ({resolution}, {title}, ...)       *)
(*   title     anything without a slash ({title_full}, {key:.1}, a padded  *)
(*             field)                                                      *)
(*   uploader  anything, slashes included ({playlist_title}, a "/" fill)   *)
(* A rendered path is a sequence of names, a name a sequence of words and  *)
(* dots.  {source} and {source_full} are literals: they are the same for   *)
(* every media of the source.                                              *)
(***************************************************************************)
LOCAL INSTANCE Naturals
LOCAL INSTANCE Sequences
LOCAL INSTANCE SequencesExt

Dot == "."
ImageStems == {"poster", "banner"}

----------------------------------------------------------------------------
(* Rendering *)

\* Append a value: its first fragment goes on with the last name.
Extend(path, value) ==
  Front(path) \o <<Last(path) \o Head(value)>> \o Tail(value)

\* The example value of a piece: a field stands for itself.
Shown(piece) == IF piece = "/" THEN << <<>>, <<>> >> ELSE << <<piece>> >>
Skeleton(template) == FoldLeft(LAMBDA p, c : Extend(p, Shown(c)), << <<>> >>, template)

\* media_format.format(**format_dict)
Render(template, values) ==
  FoldLeft(LAMBDA p, c : Extend(p, IF c \in DOMAIN values THEN values[c] ELSE Shown(c)),
           << <<>> >>, template)

\* Where a path leads from the source directory.
Walk(path) ==
  FoldLeft(LAMBDA at, name :
             CASE name \in {<<>>, <<Dot>>} -> at
               [] name = <<Dot, Dot>> ->
                    IF at.dirs = <<>> THEN [at EXCEPT !.above = TRUE]
                    ELSE [at EXCEPT !.dirs = Front(@)]
               [] OTHER -> [at EXCEPT !.dirs = Append(@, name)],
           [above |-> FALSE, dirs |-> <<>>], path)

\* os.path.splitext: a leading dot starts no extension.
LastDot(name) ==
  {i \in DOMAIN name :
     /\ name[i] = Dot /\ \A j \in (i + 1)..Len(name) : name[j] # Dot
     /\ \E j \in 1..i : name[j] # Dot}
StemOf(name) == IF LastDot(name) = {} THEN name
                ELSE SubSeq(name, 1, (CHOOSE i \in LastDot(name) : TRUE) - 1)
ExtOf(name) == SubSeq(name, Len(StemOf(name)) + 1, Len(name))

\* The sidecar of a video, the path it replaces or creates.
WithExt(dirs, ext) == Append(Front(dirs), StemOf(Last(dirs)) \o <<Dot, ext>>)

----------------------------------------------------------------------------
(* What the code reads from the structure of a template *)

Fields == {"key", "date", "ext", "hdr", "title", "uploader"}
Anything == {"title", "uploader"}
Always == {"key", "date", "ext"}
Has(name, set) == \E i \in DOMAIN name : name[i] \in set
Literal(name) == SelectSeq(name, LAMBDA c : c \notin Fields)
OnlyDots(name) == \A i \in DOMAIN name : name[i] = Dot

\* It can render "", "." or ".." for some media.
Vague(name) ==
  /\ ~Has(name, Always)
  /\ \/ Has(name, Anything) /\ OnlyDots(Literal(name))
     \/ Literal(name) \in {<<>>, <<Dot>>, <<Dot, Dot>>}

\* Mutant: a ".." takes no directory off.
DirectoriesKept(template) ==
  [sure |-> Front(Skeleton(template)), vague |-> FALSE, climbing |-> FALSE,
   escaped |-> FALSE]

\* The directories the template is sure to have.
Directories(template) ==
  FoldLeft(LAMBDA at, name :
             CASE Has(name, Fields) /\ Vague(name) ->
                    [at EXCEPT !.vague = TRUE,
                       !.climbing = @ \/ Has(name, Anything)
                                      \/ Literal(name) = <<Dot, Dot>>]
               [] ~Has(name, Fields) /\ name \in {<<>>, <<Dot>>} -> at
               [] name = <<Dot, Dot>> ->
                    IF at.sure = <<>> THEN [at EXCEPT !.escaped = TRUE]
                    ELSE [at EXCEPT !.sure = Front(@)]
               [] OTHER -> [at EXCEPT !.sure = Append(@, name)],
           [sure |-> <<>>, vague |-> FALSE, climbing |-> FALSE, escaped |-> FALSE],
           Front(Skeleton(template)))

InSourceDir(template) ==
  LET d == Directories(template)
  IN  Len(Skeleton(template)) = 1 \/ d.vague \/ (d.sure = <<>> /\ ~d.escaped)

\* ".{ext}" or a literal extension at the end.
FixedSuffix(template) ==
  LET name == Last(Skeleton(template)) n == Len(name)
  IN  n > 1 /\ name[n - 1] = Dot /\ name[n] \notin (Fields \ {"ext"}) \cup {Dot}
NameStem(template) ==
  LET name == Last(Skeleton(template))
  IN  IF FixedSuffix(template) THEN SubSeq(name, 1, Len(name) - 2) ELSE name

\* Some media data makes this the stem of a file in the source directory.
CanRender(template, word) ==
  LET stem == NameStem(template)
      cut == SelectLastInSeq(stem, LAMBDA c : c = "uploader")
      rest == SubSeq(stem, cut + 1, Len(stem))
  IN  /\ InSourceDir(template) \/ cut > 0
      /\ ~Has(rest, {"key"})
      /\ \/ Literal(rest) = <<word>>
         \/ Literal(rest) = <<>> /\ Has(stem, Fields)

Problems(template, options) ==
  LET d == Directories(template)
      name == Last(Skeleton(template))
      stem == StemOf(name)
      suffix == ExtOf(name)
      picture == suffix = <<Dot, "jpg">> \/ "thumbs" \in options
  IN  {p \in {"above"} : Has(template, {"uploader"}) \/ d.climbing \/ d.escaped}
      \cup {p \in {"nameless"} : Vague(name)}
      \cup {p \in {"shared"} :
              ~Has(name, {"key"}) /\ \A i \in DOMAIN d.sure : ~Has(d.sure[i], {"key"})}
      \cup {p \in {"suffix"} : options # {} /\ ~FixedSuffix(template)}
      \cup {p \in {"nfo"} : "nfo" \in options /\
              (suffix = <<Dot, "nfo">> \/ CanRender(template, "tvshow"))}
      \cup {p \in {"thumb"} : "thumbs" \in options /\ suffix = <<Dot, "jpg">>}
      \cup {p \in {"image"} : "images" \in options /\ picture /\
              \E w \in ImageStems : CanRender(template, w)}

----------------------------------------------------------------------------
(* What can go wrong *)

\* One media, with its own data.
Harm(template, options, values) ==
  LET at == Walk(Render(template, values))
      video == at.dirs
      nfo == WithExt(video, "nfo")
      jpg == WithExt(video, "jpg")
      images == {<< <<w, Dot, "jpg">> >> : w \in ImageStems}
  IN  \/ at.above \/ video = <<>>
      \/ Last(Render(template, values)) \in {<<>>, <<Dot>>, <<Dot, Dot>>}
      \/ "nfo" \in options /\ nfo \in {video, << <<"tvshow", Dot, "nfo">> >>}
      \/ "thumbs" \in options /\ jpg = video
      \/ "images" \in options /\ video \in images
      \/ {"images", "thumbs"} \subseteq options /\ jpg \in images

\* The paths media with these data get.
Paths(template, V) == {Walk(Render(template, values)).dirs : values \in V}

\* A profile without a problem cannot harm any media, whatever their titles
\* and uploaders are.  V is what the data of one media can be, W of another.
Sound(template, options, V, W) ==
  Problems(template, options) = {} =>
    /\ \A values \in V : ~Harm(template, options, values)
    /\ Paths(template, V) \cap Paths(template, W) = {}
=============================================================================
