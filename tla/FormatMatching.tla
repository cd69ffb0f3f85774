--------------------------- MODULE FormatMatching ---------------------------
(***************************************************************************)
(* Which format a media is downloaded in (sync/matching.py and             *)
(* Media.get_format_str), against what the source's fallback choice means. *)
(*                                                                         *)
(* A format as yt-dlp describes it is                                      *)
(*   [height, note, vcodec, acodec, vbr, rate, hdr, sr, language, notes]   *)
(* where note holds the number of a label like 1080p60 HDR, and nothing    *)
(* for DASH; a codec is the sequence of its name's parts, none for no      *)
(* stream; codecs are numbers in the order of their names; and notes holds *)
(* "original" and "default".  formats is the sequence of what Parse makes  *)
(* of the formats.  A source is                                            *)
(*   [audio, height, vcodec, acodec, fps, hdr, fallback].                  *)
(* A choice is [exact, id], the id an index of formats, or Nothing.  Sets  *)
(* the code pops from make a choice one of several: the operators return   *)
(* the set of the choices the code can make.                               *)
(***************************************************************************)
EXTENDS Integers, Sequences, FiniteSetsExt

None == 0
Nothing == [exact |-> FALSE, id |-> 0]
Exactly(i) == [exact |-> TRUE, id |-> i]
Roughly(i) == [exact |-> FALSE, id |-> i]

MinHeight == 240    \* settings.VIDEO_HEIGHT_CUTOFF
HdHeight == 500     \* settings.VIDEO_HEIGHT_IS_HD

CanFallback(source) == source.fallback # "fail"
CanSwitchCodecs(source) == source.fallback \in {"hd", "next"}

----------------------------------------------------------------------------
(* parse_media_format *)

\* normalize_codec: the profile and the level behind the name are dropped.
Codec(name) == IF name = <<>> THEN None ELSE Head(name)

\* The label without 60 and HDR; a DASH format's is its height.
Label(raw) == IF raw.note = <<>> THEN raw.height ELSE Head(raw.note)

Parse(raw) ==
  [height |-> raw.height, label |-> Label(raw), vcodec |-> Codec(raw.vcodec),
   acodec |-> Codec(raw.acodec), vbr |-> raw.vbr, fps |-> raw.rate > 50, hdr |-> raw.hdr,
   sr |-> raw.sr, language |-> raw.language, notes |-> raw.notes]

FormatType ==
  [height : Nat, label : Nat, vcodec : Nat, acodec : Nat, vbr : Nat, fps : BOOLEAN,
   hdr : BOOLEAN, sr : BOOLEAN, language : STRING, notes : SUBSET STRING]

\* An audio source has the height 0 of the resolution "audio".
SourceType ==
  [audio : BOOLEAN, height : Nat, vcodec : Nat \ {None}, acodec : Nat \ {None},
   fps : BOOLEAN, hdr : BOOLEAN, fallback : {"fail", "codec", "hd", "next"}]

\* What has neither stream is a storyboard, and those are small: the second
\* pass of get_best_video_format tells them from a video by their height only.
StoryboardsSmall(formats) ==
  \A i \in DOMAIN formats :
    formats[i].vcodec = None /\ formats[i].acodec = None => formats[i].height < MinHeight

----------------------------------------------------------------------------
(* get_best_video_format *)

MatchedResolution(source, f) == f.label = source.height \/ f.height = source.height

VideoOnly(f) == f.acodec = None /\ ~f.sr

\* The first pass: the wished resolution, in a codec that may be taken.
AtResolution(source, formats) ==
  {i \in DOMAIN formats :
     /\ VideoOnly(formats[i])
     /\ formats[i].vcodec # None
     /\ MatchedResolution(source, formats[i])
     /\ CanSwitchCodecs(source) \/ formats[i].vcodec = source.vcodec}

\* The second pass: anything that is not too small or too large.
InRange(source, formats) ==
  {i \in DOMAIN formats :
     /\ VideoOnly(formats[i])
     /\ formats[i].height \in MinHeight..source.height}

\* A mutant: the two passes are one.
CandidatesTogether(source, formats) ==
  AtResolution(source, formats)
    \cup IF CanFallback(source) THEN InRange(source, formats) ELSE {}

Candidates(source, formats) ==
  IF AtResolution(source, formats) # {} THEN AtResolution(source, formats)
  ELSE IF CanFallback(source) THEN InRange(source, formats) ELSE {}

\* multi_key_sort(video_formats, sort_keys, True): height and vbr fall, the
\* codec's name rises, and of equals the later one is first.
Order(f, i) == <<f.height, 0 - f.vcodec, f.vbr, i>>
Before(formats, i, j) ==
  LET a == Order(formats[i], i)
      b == Order(formats[j], j)
  IN  \E k \in 1..4 : a[k] > b[k] /\ \A l \in 1..(k - 1) : a[l] = b[l]
FirstOf(formats, ids) ==
  CHOOSE i \in ids : \A j \in ids \ {i} : Before(formats, i, j)

\* What one of the tests asks of a format.
Meets(source, f, test) ==
  /\ "resolution" \in test => MatchedResolution(source, f)
  /\ "codec" \in test => f.vcodec = source.vcodec
  /\ "fps" \in test => f.fps
  /\ "slow" \in test => ~f.fps
  /\ "hdr" \in test => f.hdr
  /\ "sdr" \in test => ~f.hdr

\* The tests in the order they are tried, after the exact one.  Those without
\* the codec are skipped unless the source may switch codecs.
Tests(source) ==
  LET wish == {"resolution", "codec"} IN
  CASE source.fps /\ source.hdr ->
         << wish \cup {"fps", "hdr"},
            {"resolution", "hdr", "fps"}, {"codec", "hdr", "fps"},
            wish \cup {"fps"}, {"resolution", "hdr"}, {"resolution", "fps"},
            wish \cup {"hdr"}, wish, {"resolution"}, {"codec"}, {} >>
    [] source.fps /\ ~source.hdr ->
         << wish \cup {"fps", "sdr"},
            {"resolution", "fps", "sdr"}, {"codec", "fps", "sdr"}, {"codec", "fps"},
            wish \cup {"sdr"}, wish, {"resolution"}, {"codec"}, {} >>
    [] source.hdr /\ ~source.fps ->
         << wish \cup {"hdr"},
            {"resolution", "hdr", "slow"}, {"codec", "hdr", "slow"}, {"codec", "hdr"},
            wish \cup {"slow"}, wish, {"resolution"}, {"codec"}, {} >>
    [] OTHER ->
         << wish \cup {"slow", "sdr"},
            {"resolution", "sdr", "slow"}, {"codec", "sdr", "slow"},
            wish \cup {"sdr"}, wish \cup {"slow"}, wish,
            {"resolution", "sdr"}, {"resolution"}, {"codec"}, {} >>

\* A mutant: the height is not looked at.
GoodEnoughAnyHeight(source, f) ==
  source.fallback = "codec" => f.vcodec = source.vcodec

\* "Final check to see if the match we found was good enough"
GoodEnough(source, f) ==
  CASE source.fallback = "hd"    -> f.height >= HdHeight
    [] source.fallback = "codec" -> f.vcodec = source.vcodec
    [] source.fallback = "next"  -> TRUE
    [] OTHER                     -> FALSE

BestVideo(source, formats) ==
  LET tests == Tests(source)
      found(t) == {i \in Candidates(source, formats) : Meets(source, formats[i], tests[t])}
      tried == {t \in DOMAIN tests :
                  /\ t = 1 \/ CanFallback(source)
                  /\ t = 1 \/ "codec" \in tests[t] \/ CanSwitchCodecs(source)
                  /\ found(t) # {}}
      best == FirstOf(formats, found(Min(tried)))
  IN  IF source.audio \/ tried = {} THEN Nothing
      ELSE IF Min(tried) = 1 THEN Exactly(best)
      ELSE IF GoodEnough(source, formats[best]) THEN Roughly(best) ELSE Nothing

----------------------------------------------------------------------------
(* The audio and the combined formats *)

\* A dictionary filled in the order of the formats keeps the last one.
LastWith(formats, ids, note) ==
  LET noted == {i \in ids : note \in formats[i].notes}
  IN  IF noted = {} THEN {} ELSE {Max(noted)}

\* get_fallback_id: the default, else English, else any (set.pop).
FallbackIds(formats, ids) ==
  LET default == LastWith(formats, ids, "default")
      english == {i \in ids : formats[i].language = "en"}
  IN  IF default # {} THEN default
      ELSE IF english # {} THEN {Max(english)} ELSE ids

BestAudio(source, formats) ==
  LET audio == {i \in DOMAIN formats : formats[i].vcodec = None /\ formats[i].acodec # None}
      wished == {i \in audio : formats[i].acodec = source.acodec}
  IN  IF wished # {} THEN {Exactly(Max(wished))}
      ELSE IF audio = {} \/ ~CanFallback(source) THEN {Nothing}
      ELSE {Roughly(i) : i \in FallbackIds(formats, audio)}

BestCombined(source, formats) ==
  LET matches == {i \in DOMAIN formats :
                    /\ formats[i].height = source.height
                    /\ formats[i].vcodec = source.vcodec
                    /\ formats[i].acodec = source.acodec
                    /\ source.fps => formats[i].fps
                    /\ source.hdr => formats[i].hdr}
      original == LastWith(formats, matches, "original")
  IN  IF matches = {} THEN {Nothing}
      ELSE {Exactly(i) : i \in IF original # {} THEN original
                               ELSE FallbackIds(formats, matches)}

\* "last resort: any combined format", from the end of the list.
LastResort(source, formats) ==
  LET allowed == {i \in DOMAIN formats :
                    /\ formats[i].acodec # None /\ formats[i].vcodec # None
                    /\ CanFallback(source)
                    /\ GoodEnough(source, formats[i])}
  IN  IF allowed = {} THEN {} ELSE {Max(allowed)}

\* get_format_str: the ids joined by "+", {} for False.
Downloads(source, formats) ==
  LET audios == {c.id : c \in BestAudio(source, formats)} \ {0}
      combined == {c.id : c \in BestCombined(source, formats)} \ {0}
      video == BestVideo(source, formats).id
  IN  IF source.audio THEN IF audios = {} THEN {{}} ELSE {{a} : a \in audios}
      ELSE IF combined # {} THEN {{c} : c \in combined}
      ELSE IF video # 0 /\ audios # {} THEN {{video, a} : a \in audios}
      ELSE {LastResort(source, formats)}

----------------------------------------------------------------------------
(* What the fallback choices of a source mean (Fallback's labels) *)

\* Everything the source asks of a video, its preferences included.
AsWished(source, f) ==
  /\ MatchedResolution(source, f)
  /\ f.vcodec = source.vcodec
  /\ source.fps => f.fps
  /\ source.hdr => f.hdr

\* What a download may contain, and that nothing is wanting in it.
Permitted(source, formats, ids) ==
  /\ \E i \in ids : formats[i].acodec # None
  /\ ~source.audio => \E i \in ids : formats[i].vcodec # None
  /\ \A i \in ids :
       /\ source.fallback = "fail" /\ formats[i].acodec # None =>
            formats[i].acodec = source.acodec
       /\ formats[i].vcodec # None =>
            \/ AsWished(source, formats[i])
            \/ CASE source.fallback = "codec" -> formats[i].vcodec = source.vcodec
                 [] source.fallback = "hd"    -> formats[i].height >= HdHeight
                 [] source.fallback = "next"  -> TRUE
                 [] OTHER                     -> FALSE

\* "Resolution is treated as the most important factor to match."
ResolutionFirst(source, formats) ==
  LET best == BestVideo(source, formats) IN
  best.id # 0 /\ AtResolution(source, formats) # {} =>
    MatchedResolution(source, formats[best.id])

\* A source of videos whose fallback is the next best resolution, in any codec
\* ("next") or only the preferred one ("codec"), gets a candidate if and only if
\* there is one it may take.  The third such fallback, "hd" ("next best resolution,
\* any codec, but at least HD"), is not among them: the tests look for the preferred
\* codec and rates first, and the final check refuses what they find when it is too
\* small, with a larger candidate left untried.
NextBestFound(source, formats) ==
  ~source.audio /\ source.fallback \in {"next", "codec"} =>
    (BestVideo(source, formats) = Nothing <=>
       {i \in Candidates(source, formats) :
          source.fallback = "codec" => formats[i].vcodec = source.vcodec} = {})

\* Among the candidates with the chosen one's rate (60fps or not) and range (HDR
\* or not), none of its codec is larger; and none that fits the wished resolution
\* as it does has the wished codec when it has not.  The second half is not so
\* with both preferences: the code tries "resolution and hdr" before "resolution,
\* codec and hdr".
NoneBetter(source, formats) ==
  LET best == BestVideo(source, formats) IN
  best.id # 0 =>
    LET chosen == formats[best.id] IN
    \A i \in Candidates(source, formats) :
      LET other == formats[i] IN
      <<other.fps, other.hdr>> = <<chosen.fps, chosen.hdr>> =>
        /\ other.vcodec = chosen.vcodec => other.height <= chosen.height
        /\ /\ ~(source.fps /\ source.hdr)
           /\ MatchedResolution(source, other) = MatchedResolution(source, chosen)
           /\ other.vcodec = source.vcodec
           => chosen.vcodec = source.vcodec
=============================================================================
