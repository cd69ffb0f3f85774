---------------------------- MODULE MCDecisions ----------------------------
(***************************************************************************)
(* The program's pure decisions, each asked about bounded inputs: a state  *)
(* is one question, and an invariant compares the answer with what the     *)
(* decision is for.                                                        *)
(***************************************************************************)
EXTENDS Decisions, FiniteSets, TLC

Profile == INSTANCE ProfileTemplate

----------------------------------------------------------------------------
(* media_format templates: two directories at most, names of two pieces *)

Pieces == {".", "show", "key", "date", "hdr", "title", "uploader"}
NameOf == {<<p>> : p \in Pieces \cup {"tvshow", "poster"}}
            \cup {<<p, q>> : p \in Pieces, q \in {".", "show", "key", "title"}}
Directory == {<<>>} \cup {d \o <<"/">> : d \in {<<p>> : p \in Pieces} \cup
                            {<<p, q>> : p, q \in {".", "key", "title"}}}
               \cup {<<"show", "/", ".", ".", "/">>, <<"key", "/", ".", ".", "/">>,
                     <<"show", "/", "title", "/">>}
Suffix == {<<>>, <<".", "ext">>, <<".", "nfo">>, <<".", "jpg">>}
ProfileQuestions ==
  {[about |-> "profile", template |-> d \o n \o s, options |-> o] :
     d \in Directory, n \in NameOf, s \in Suffix,
     o \in {{}, {"nfo"}, {"nfo", "thumbs", "images"}}}

\* What titles and uploaders can be.
Titles == {<< <<>> >>, << <<".">> >>, << <<".", ".">> >>, << <<"text">> >>,
           << <<"tvshow">> >>, << <<"poster">> >>, << <<"text", ".", "jpg">> >>}
Uploaders == {<< <<"text">> >>, << <<>>, <<"poster">> >>, << <<".", ".">>, <<"text">> >>}
ValuesOf(key) ==
  {[key |-> <<key>>, title |-> t, uploader |-> u, hdr |-> h] :
     t \in Titles, u \in Uploaders, h \in {<< <<>> >>, << <<"hdr">> >>}}
KeyA == << "kA" >>
KeyB == << "kB" >>

\* A profile the backfill accepts puts no media outside its source's
\* directory, on a directory, on its own sidecars, on tvshow.nfo or a channel
\* image, nor two media on one path, whatever the data of the media are.
ProfileSound ==
  question.about = "profile" =>
    Profile!Sound(question.template, question.options, ValuesOf(KeyA), ValuesOf(KeyB))

----------------------------------------------------------------------------
(* Formats: up to two video formats for get_best_video_format, and up to   *)
(* two of all kinds for get_format_str                                     *)

Stream(v) == IF v = 0 THEN <<>> ELSE <<v, "profile">>
Raw(h, v, a) ==
  [height |-> h, note |-> <<>>, vcodec |-> Stream(v), acodec |-> Stream(a), vbr |-> 1,
   rate |-> 30, hdr |-> FALSE, sr |-> FALSE, language |-> "none", notes |-> {}]
\* Codec 2 is the wished one, 1080 the wished height; the odd ones are an
\* upright video, an upscaled one, a storyboard and a better bit rate.
VideoFormats ==
  {[Raw(h, v, 0) EXCEPT !.rate = s, !.hdr = c] :
     h \in {360, 720, 1080, 1440}, v \in {1, 2}, s \in {30, 60}, c \in BOOLEAN}
  \cup {[Raw(1920, 2, 0) EXCEPT !.note = <<1080>>], [Raw(1080, 2, 0) EXCEPT !.sr = TRUE],
        Raw(180, 0, 0), [Raw(720, 1, 0) EXCEPT !.vbr = 2]}
MixedFormats ==
  {Raw(720, v, a) : v \in {1, 2}, a \in {0, 1, 2}}
  \cup {Raw(0, 0, 1), Raw(0, 0, 2), Raw(180, 0, 0)}
  \cup {Raw(h, 2, a) : h \in {360, 1080}, a \in {0, 2}}
  \cup {[Raw(0, 0, 1) EXCEPT !.language = "en"], [Raw(0, 0, 1) EXCEPT !.notes = {"default"}],
        [Raw(1080, 2, 2) EXCEPT !.notes = {"original"}, !.hdr = TRUE]}
UpTo(n, S) == UNION {[1..k -> S] : k \in 0..n}
Sources(audio) ==
  [audio : audio, height : {1080}, vcodec : {2}, acodec : {2}, fps : BOOLEAN, hdr : BOOLEAN,
   fallback : {"fail", "codec", "hd", "next"}]
Parsed(S) == {Parse(f) : f \in S}
FormatQuestions ==
  [about : {"video"}, source : Sources({FALSE}), formats : UpTo(2, Parsed(VideoFormats))]
  \cup [about : {"download"}, source : Sources(BOOLEAN), formats : UpTo(2, Parsed(MixedFormats))]

Asked == ProfileQuestions \cup FormatQuestions

Process == [t \in Threads |-> "worker"]
=============================================================================
