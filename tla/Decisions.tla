----------------------------- MODULE Decisions -----------------------------
(***************************************************************************)
(* The decisions about one media or source, asked one question at a time   *)
(* beside the show title of TvshowNfo: which formats a media is downloaded *)
(* in, for any list of formats and any source.                             *)
(***************************************************************************)
EXTENDS TvshowNfo, FormatMatching

CONSTANT Questions    \* what is asked: about, and the data the decision reads

VARIABLE question

vars == <<question, showVars>>

\* yt-dlp's formats, of which only small storyboards have no stream at all, and
\* a source.
ASSUME QuestionAssumption ==
  \A q \in Questions : q.about \in {"video", "download"} =>
    /\ q.source \in SourceType
    /\ q.formats \in Seq(FormatType)
    /\ StoryboardsSmall(q.formats)

NoQuestion == [about |-> "nothing"]

Init == question = NoQuestion /\ ShowInit
Ask == question = NoQuestion /\ ShowInit /\ UNCHANGED showVars /\ question' \in Questions
Show == question = NoQuestion /\ ShowNext /\ UNCHANGED question
Next == Ask \/ Show
Spec == Init /\ [][Next]_vars /\ ShowFair

----------------------------------------------------------------------------
(* Properties *)

\* Whatever formats a media has, a download holds an audio and, for a video
\* source, a video stream, and each of them is one that the source's fallback
\* choice permits.
FallbackKept ==
  question.about = "download" =>
    \A ids \in Downloads(question.source, question.formats) :
      ids # {} => Permitted(question.source, question.formats, ids)

\* The tests of get_best_video_format never let a preference for a codec, HDR or
\* 60fps displace the wished resolution.  With the fallbacks "next" and "codec"
\* they come out empty-handed only when those permit none of the candidates;
\* with "hd" they may although an HD candidate is there, which its label ("next
\* best resolution, any codec, but at least HD") rules out.  They pass
\* over no larger candidate of the same codec, rate and range; nor over one of the
\* wished codec that is as good in the rest, unless the source prefers both 60fps
\* and HDR.
BestFits ==
  question.about = "video" =>
    /\ ResolutionFirst(question.source, question.formats)
    /\ NextBestFound(question.source, question.formats)
    /\ NoneBetter(question.source, question.formats)

\* ShowHeals, in the behaviours that ask no question.
ShowHealsHere == [](question = NoQuestion) => ShowHeals
=============================================================================
