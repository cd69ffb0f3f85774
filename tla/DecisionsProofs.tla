-------------------------- MODULE DecisionsProofs --------------------------
(***************************************************************************)
(* Proofs about Decisions: which formats are downloaded, for any source    *)
(* and any list of formats, and the show title, for any number of threads, *)
(* processes, renames, edits and failures.                                 *)
(***************************************************************************)
EXTENDS Decisions, WellFoundedInduction, TLAPS

----------------------------------------------------------------------------
(* The order of the formats *)

\* A nonempty set of numbers has a least one.
LEMMA LeastFound ==
  ASSUME NEW S, S \subseteq Nat, S # {}
  PROVE  Min(S) \in S /\ \A n \in S : Min(S) <= n
<1>1. PICK n \in S : \A k \in S : ~(k < n)
  <2>1. PICK n \in S : \A k \in S : <<k, n>> \notin OpToRel(<, Nat)
    <3>1. IsWellFoundedOn(OpToRel(<, Nat), Nat)
      BY NatLessThanWellFounded
    <3> QED BY <3>1, WFMin
  <2> QED BY <2>1 DEF OpToRel
<1>2. \A k \in S : n <= k
  BY <1>1
<1> QED BY <1>2 DEF Min

\* A nonempty set of indices of a list has a greatest one.
LEMMA GreatestFound ==
  ASSUME NEW n \in Nat, NEW S, S \subseteq 1..n, S # {}
  PROVE  Max(S) \in S /\ \A k \in S : Max(S) >= k
<1> DEFINE gaps == {n - k : k \in S}
<1>1. gaps \subseteq Nat /\ gaps # {}
  <2>1. \A k \in S : n - k \in Nat
    OBVIOUS
  <2> QED BY <2>1
<1>2. Min(gaps) \in gaps /\ \A g \in gaps : Min(gaps) <= g
  <2> HIDE DEF gaps
  <2> QED BY <1>1, LeastFound
<1>3. PICK m \in S : Min(gaps) = n - m
  BY <1>2
<1>4. \A k \in S : m >= k
  <2> TAKE k \in S
  <2>1. n - m <= n - k
    BY <1>2, <1>3
  <2> QED BY <2>1
<1> QED BY <1>4 DEF Max

\* The parts of a format that are counted.
LEMMA FormatFacts ==
  ASSUME NEW formats \in Seq(FormatType)
  PROVE  /\ Len(formats) \in Nat /\ DOMAIN formats = 1..Len(formats)
         /\ \A i \in DOMAIN formats :
              /\ i \in Nat \ {0}
              /\ formats[i].height \in Nat /\ formats[i].vcodec \in Nat
              /\ formats[i].vbr \in Nat
<1>1. \A f \in FormatType : f.height \in Nat /\ f.vcodec \in Nat /\ f.vbr \in Nat
  BY DEF FormatType
<1>2. \A i \in DOMAIN formats : formats[i] \in FormatType /\ i \in Nat \ {0}
  OBVIOUS
<1> QED BY <1>1, <1>2

\* What multi_key_sort compares, one key after the other.
Precedes(f, i, g, j) ==
  \/ f.height > g.height
  \/ f.height = g.height /\ f.vcodec < g.vcodec
  \/ f.height = g.height /\ f.vcodec = g.vcodec /\ f.vbr > g.vbr
  \/ f.height = g.height /\ f.vcodec = g.vcodec /\ f.vbr = g.vbr /\ i > j

LEMMA BeforeIs ==
  ASSUME NEW formats \in Seq(FormatType), NEW i \in DOMAIN formats, NEW j \in DOMAIN formats
  PROVE  Before(formats, i, j) <=> Precedes(formats[i], i, formats[j], j)
<1> DEFINE f == formats[i]
           g == formats[j]
           a == Order(f, i)
           b == Order(g, j)
           Greater(k) == a[k] > b[k] /\ \A l \in 1..(k - 1) : a[l] = b[l]
<1>2. /\ a[1] = f.height /\ a[2] = 0 - f.vcodec /\ a[3] = f.vbr /\ a[4] = i
      /\ b[1] = g.height /\ b[2] = 0 - g.vcodec /\ b[3] = g.vbr /\ b[4] = j
  BY DEF Order
<1>3. Before(formats, i, j) <=> \E k \in 1..4 : Greater(k)
  BY DEF Before
<1>4. Greater(1) <=> a[1] > b[1]
  OBVIOUS
<1>5. Greater(2) <=> a[2] > b[2] /\ a[1] = b[1]
  OBVIOUS
<1>6. Greater(3) <=> a[3] > b[3] /\ a[1] = b[1] /\ a[2] = b[2]
  OBVIOUS
<1>7. Greater(4) <=> a[4] > b[4] /\ a[1] = b[1] /\ a[2] = b[2] /\ a[3] = b[3]
  OBVIOUS
<1>8. (\E k \in 1..4 : Greater(k)) <=> Greater(1) \/ Greater(2) \/ Greater(3) \/ Greater(4)
  <2> HIDE DEF Greater
  <2> QED OBVIOUS
<1>9. /\ i \in Nat /\ j \in Nat
      /\ f.height \in Nat /\ f.vcodec \in Nat /\ f.vbr \in Nat
      /\ g.height \in Nat /\ g.vcodec \in Nat /\ g.vbr \in Nat
  BY FormatFacts
<1> HIDE DEF Greater, a, b
<1> QED BY <1>2, <1>3, <1>4, <1>5, <1>6, <1>7, <1>8, <1>9 DEF Precedes

\* Of two formats one comes first, and what comes before the first of two comes
\* before the second.
LEMMA BeforeOrders ==
  ASSUME NEW formats \in Seq(FormatType), NEW i \in DOMAIN formats, NEW j \in DOMAIN formats,
         NEW k \in DOMAIN formats
  PROVE  /\ i # j => Before(formats, i, j) \/ Before(formats, j, i)
         /\ Before(formats, i, j) /\ Before(formats, j, k) => Before(formats, i, k)
<1>1. \A n \in DOMAIN formats :
        /\ n \in Nat
        /\ formats[n].height \in Nat /\ formats[n].vcodec \in Nat /\ formats[n].vbr \in Nat
  BY FormatFacts
<1>2. /\ Before(formats, i, j) <=> Precedes(formats[i], i, formats[j], j)
      /\ Before(formats, j, i) <=> Precedes(formats[j], j, formats[i], i)
      /\ Before(formats, j, k) <=> Precedes(formats[j], j, formats[k], k)
      /\ Before(formats, i, k) <=> Precedes(formats[i], i, formats[k], k)
  BY BeforeIs
<1>3. i # j => Before(formats, i, j) \/ Before(formats, j, i)
  BY <1>1, <1>2 DEF Precedes
<1>4. Before(formats, i, j) /\ Before(formats, j, k) => Before(formats, i, k)
  BY <1>1, <1>2 DEF Precedes
<1> QED BY <1>3, <1>4

\* Any of the formats have a first one: the highest of them.
LEMMA FirstFound ==
  ASSUME NEW formats \in Seq(FormatType), NEW ids, ids \subseteq DOMAIN formats, ids # {}
  PROVE  /\ FirstOf(formats, ids) \in ids
         /\ \A j \in ids : formats[j].height <= formats[FirstOf(formats, ids)].height
<1> DEFINE IsFirst(i, S) == \A j \in S \ {i} : Before(formats, i, j)
           bad == {n \in 0..Len(formats) :
                     \E S \in SUBSET (1..n) : S # {} /\ \A i \in S : ~IsFirst(i, S)}
<1>1. bad = {}
  <2> SUFFICES ASSUME bad # {} PROVE FALSE
    OBVIOUS
  <2> DEFINE n == Min(bad)
  <2>1. n \in bad /\ \A k \in bad : n <= k
    <3>1. bad \subseteq Nat
      OBVIOUS
    <3> HIDE DEF bad
    <3> QED BY <3>1, LeastFound
  <2> HIDE DEF n
  <2>2. PICK S \in SUBSET (1..n) : S # {} /\ \A i \in S : ~IsFirst(i, S)
    BY <2>1
  <2>3. n \in Nat \ {0} /\ n <= Len(formats) /\ n - 1 \notin bad /\ n - 1 \in 0..Len(formats)
    <3>1. n \in 0..Len(formats) /\ Len(formats) \in Nat
      BY <2>1, FormatFacts
    <3>2. n # 0
      <4>1. n = 0 => 1..n = {}
        OBVIOUS
      <4> HIDE DEF bad, IsFirst
      <4> QED BY <2>2, <4>1
    <3>3. n - 1 \notin bad
      <4> HIDE DEF bad
      <4> QED BY <2>1, <3>1
    <3>4. n \in Nat \ {0} /\ n <= Len(formats) /\ n - 1 \in 0..Len(formats)
      <4> HIDE DEF bad, IsFirst
      <4> QED BY <3>1, <3>2
    <3> QED BY <3>3, <3>4
  <2>4. S \subseteq DOMAIN formats /\ DOMAIN formats = 1..Len(formats)
    <3> HIDE DEF bad, IsFirst
    <3> QED BY <2>3, FormatFacts
  <2>5. ASSUME NEW R \in SUBSET (1..(n - 1)), R # {} PROVE \E i \in R : IsFirst(i, R)
    <3> HIDE DEF IsFirst
    <3> QED BY <2>3, <2>5
  <2>6. n \in S
    <3> HIDE DEF bad, IsFirst
    <3>1. n \notin S => S \in SUBSET (1..(n - 1))
      BY <2>3
    <3> QED BY <2>2, <2>5, <3>1
  <2>7. PICK i \in S \ {n} : IsFirst(i, S \ {n})
    <3> HIDE DEF bad
    <3>1. S \ {n} \in SUBSET (1..(n - 1))
      BY <2>3
    <3>2. S \ {n} # {}
      BY <2>2, <2>6
    <3> HIDE DEF IsFirst
    <3> QED BY <2>5, <3>1, <3>2
  <2>8. CASE Before(formats, i, n)
    <3>1. IsFirst(i, S)
      BY <2>7, <2>8
    <3> QED BY <2>2, <2>7, <3>1
  <2>9. CASE Before(formats, n, i)
    <3>1. ASSUME NEW j \in S \ {n} PROVE Before(formats, n, j)
      BY <2>4, <2>6, <2>7, <2>9, BeforeOrders
    <3> QED BY <2>2, <2>6, <3>1
  <2> QED BY <2>4, <2>6, <2>7, <2>8, <2>9, BeforeOrders
<1>2. \E i \in ids : IsFirst(i, ids)
  <2>1. Len(formats) \in 0..Len(formats) /\ ids \in SUBSET (1..Len(formats))
    BY FormatFacts
  <2> QED BY <1>1, <2>1
<1>3. FirstOf(formats, ids) \in ids /\ IsFirst(FirstOf(formats, ids), ids)
  BY <1>2 DEF FirstOf
<1>4. ASSUME NEW i \in ids, NEW j \in ids, IsFirst(i, ids)
      PROVE  formats[j].height <= formats[i].height
  <2>1. formats[i].height \in Nat /\ formats[j].height \in Nat
    BY FormatFacts
  <2>2. i # j => Before(formats, i, j)
    BY <1>4
  <2> QED BY <2>1, <2>2, BeforeIs DEF Precedes
<1> HIDE DEF IsFirst
<1> QED BY <1>3, <1>4

----------------------------------------------------------------------------
(* get_best_video_format *)

\* The candidates that meet one of the tests, and the tests that are met.
Meeting(source, formats, t) ==
  {i \in Candidates(source, formats) : Meets(source, formats[i], Tests(source)[t])}

Tried(source, formats) ==
  {t \in DOMAIN Tests(source) :
     /\ t = 1 \/ CanFallback(source)
     /\ t = 1 \/ "codec" \in Tests(source)[t] \/ CanSwitchCodecs(source)
     /\ Meeting(source, formats, t) # {}}

LEMMA BestVideoIs ==
  ASSUME NEW source, NEW formats
  PROVE  BestVideo(source, formats) =
           LET first == Min(Tried(source, formats))
               best == FirstOf(formats, Meeting(source, formats, first))
           IN  IF source.audio \/ Tried(source, formats) = {} THEN Nothing
               ELSE IF first = 1 THEN Exactly(best)
               ELSE IF GoodEnough(source, formats[best]) THEN Roughly(best) ELSE Nothing
BY DEF BestVideo, Tried, Meeting

\* The first test asks for everything the source wishes.
LEMMA TestsStart ==
  ASSUME NEW source \in SourceType
  PROVE  /\ DOMAIN Tests(source) \subseteq Nat \ {0} /\ 1 \in DOMAIN Tests(source)
         /\ {"resolution", "codec"} \subseteq Tests(source)[1]
         /\ source.fps => "fps" \in Tests(source)[1]
         /\ source.hdr => "hdr" \in Tests(source)[1]
<1>1. source.fps \in BOOLEAN /\ source.hdr \in BOOLEAN
  BY DEF SourceType
<1>2. CASE source.fps /\ source.hdr
  BY <1>1, <1>2 DEF Tests
<1>3. CASE source.fps /\ ~source.hdr
  BY <1>1, <1>3 DEF Tests
<1>4. CASE source.hdr /\ ~source.fps
  BY <1>1, <1>4 DEF Tests
<1>5. CASE ~source.hdr /\ ~source.fps
  BY <1>1, <1>5 DEF Tests
<1> QED BY <1>1, <1>2, <1>3, <1>4, <1>5

\* The last tests ask for the codec alone, and for nothing.
LEMMA TestsEnd ==
  ASSUME NEW source \in SourceType
  PROVE  \E t \in DOMAIN Tests(source) :
           /\ t # 1 /\ t - 1 \in DOMAIN Tests(source) /\ t - 1 # 1
           /\ Tests(source)[t] = {} /\ Tests(source)[t - 1] = {"codec"}
<1>1. source.fps \in BOOLEAN /\ source.hdr \in BOOLEAN
  BY DEF SourceType
<1>2. CASE source.fps /\ source.hdr
  <2>1. 11 \in DOMAIN Tests(source) /\ Tests(source)[11] = {}
    BY <1>1, <1>2 DEF Tests
  <2>2. 10 \in DOMAIN Tests(source) /\ Tests(source)[10] = {"codec"}
    BY <1>1, <1>2 DEF Tests
  <2> QED BY <2>1, <2>2
<1>3. CASE source.fps /\ ~source.hdr
  <2>1. 9 \in DOMAIN Tests(source) /\ Tests(source)[9] = {}
    BY <1>1, <1>3 DEF Tests
  <2>2. 8 \in DOMAIN Tests(source) /\ Tests(source)[8] = {"codec"}
    BY <1>1, <1>3 DEF Tests
  <2> QED BY <2>1, <2>2
<1>4. CASE source.hdr /\ ~source.fps
  <2>1. 9 \in DOMAIN Tests(source) /\ Tests(source)[9] = {}
    BY <1>1, <1>4 DEF Tests
  <2>2. 8 \in DOMAIN Tests(source) /\ Tests(source)[8] = {"codec"}
    BY <1>1, <1>4 DEF Tests
  <2> QED BY <2>1, <2>2
<1>5. CASE ~source.hdr /\ ~source.fps
  <2>1. 10 \in DOMAIN Tests(source) /\ Tests(source)[10] = {}
    BY <1>1, <1>5 DEF Tests
  <2>2. 9 \in DOMAIN Tests(source) /\ Tests(source)[9] = {"codec"}
    BY <1>1, <1>5 DEF Tests
  <2> QED BY <2>1, <2>2
<1> QED BY <1>1, <1>2, <1>3, <1>4, <1>5

\* A test without the codec comes after the same one with it.
LEMMA CodecFirst ==
  ASSUME NEW source \in SourceType, ~(source.fps /\ source.hdr),
         NEW t \in DOMAIN Tests(source), "codec" \notin Tests(source)[t]
  PROVE  \E u \in DOMAIN Tests(source) :
           /\ u < t /\ "codec" \in Tests(source)[u]
           /\ Tests(source)[u] \subseteq Tests(source)[t] \cup {"codec"}
<1> DEFINE Same(u, v) ==
             /\ u < v /\ "codec" \in Tests(source)[u]
             /\ Tests(source)[u] \subseteq Tests(source)[v] \cup {"codec"}
<1>1. source.fps \in BOOLEAN /\ source.hdr \in BOOLEAN
  BY DEF SourceType
<1>2. CASE source.fps /\ ~source.hdr
  <2>1. /\ DOMAIN Tests(source) = 1..9
        /\ \A v \in 1..9 : "codec" \notin Tests(source)[v] => v \in {2, 7, 9}
    BY <1>1, <1>2 DEF Tests
  <2>2. Same(1, 2) /\ Same(6, 7) /\ Same(8, 9)
    BY <1>1, <1>2 DEF Tests
  <2> QED BY <2>1, <2>2
<1>3. CASE source.hdr /\ ~source.fps
  <2>1. /\ DOMAIN Tests(source) = 1..9
        /\ \A v \in 1..9 : "codec" \notin Tests(source)[v] => v \in {2, 7, 9}
    BY <1>1, <1>3 DEF Tests
  <2>2. Same(1, 2) /\ Same(6, 7) /\ Same(8, 9)
    BY <1>1, <1>3 DEF Tests
  <2> QED BY <2>1, <2>2
<1>4. CASE ~source.hdr /\ ~source.fps
  <2>1. /\ DOMAIN Tests(source) = 1..10
        /\ \A v \in 1..10 : "codec" \notin Tests(source)[v] => v \in {2, 7, 8, 10}
    BY <1>1, <1>4 DEF Tests
  <2>2. Same(1, 2) /\ Same(4, 7) /\ Same(6, 8) /\ Same(9, 10)
    BY <1>1, <1>4 DEF Tests
  <2> QED BY <2>1, <2>2
<1> QED BY <1>1, <1>2, <1>3, <1>4

\* A candidate is a format with a picture and no sound.  If the first pass found
\* any it has the wished resolution; if not, it has another one or a codec that
\* may not be taken.
LEMMA CandidateFacts ==
  ASSUME NEW source \in SourceType, NEW formats \in Seq(FormatType),
         StoryboardsSmall(formats), NEW i \in Candidates(source, formats)
  PROVE  /\ i \in DOMAIN formats
         /\ formats[i].acodec = None /\ formats[i].vcodec # None
         /\ AtResolution(source, formats) # {} => MatchedResolution(source, formats[i])
         /\ AtResolution(source, formats) = {} /\ MatchedResolution(source, formats[i]) =>
              ~CanSwitchCodecs(source) /\ formats[i].vcodec # source.vcodec
<1>1. CASE AtResolution(source, formats) # {}
  <2>1. i \in AtResolution(source, formats)
    BY <1>1 DEF Candidates
  <2> QED BY <1>1, <2>1 DEF AtResolution, VideoOnly
<1>2. CASE AtResolution(source, formats) = {}
  <2>1. i \in InRange(source, formats)
    BY <1>2 DEF Candidates
  <2>2. i \in DOMAIN formats /\ VideoOnly(formats[i]) /\ formats[i].height \in MinHeight..source.height
    BY <2>1 DEF InRange
  <2>3. source.height \in Nat /\ formats[i].height >= MinHeight
    BY <2>2 DEF SourceType, MinHeight
  <2>4. formats[i].acodec = None /\ formats[i].vcodec # None
    BY <2>2, <2>3, FormatFacts DEF VideoOnly, StoryboardsSmall, MinHeight
  <2>5. i \notin AtResolution(source, formats)
    BY <1>2
  <2>6. MatchedResolution(source, formats[i]) =>
          ~CanSwitchCodecs(source) /\ formats[i].vcodec # source.vcodec
    BY <2>2, <2>4, <2>5 DEF AtResolution
  <2> QED BY <1>2, <2>2, <2>4, <2>6
<1> QED BY <1>1, <1>2

\* Once a test is met, the answer is the highest candidate that meets the first
\* such test, if that is good enough.
LEMMA BestOfFirstTest ==
  ASSUME NEW source \in SourceType, NEW formats \in Seq(FormatType),
         StoryboardsSmall(formats), ~source.audio, Tried(source, formats) # {}
  PROVE  \E t \in Tried(source, formats), best \in DOMAIN formats :
           /\ \A u \in Tried(source, formats) : t <= u
           /\ best \in Meeting(source, formats, t)
           /\ \A j \in Meeting(source, formats, t) : formats[j].height <= formats[best].height
           /\ BestVideo(source, formats) =
                IF t = 1 THEN Exactly(best)
                ELSE IF GoodEnough(source, formats[best]) THEN Roughly(best) ELSE Nothing
<1> DEFINE tried == Tried(source, formats)
           t == Min(tried)
           met == Meeting(source, formats, t)
           best == FirstOf(formats, met)
<1>1. t \in tried /\ \A u \in tried : t <= u
  <2>1. tried \subseteq Nat
    BY TestsStart DEF Tried
  <2> QED BY <2>1, LeastFound
<1>2. met # {} /\ met \subseteq DOMAIN formats
  BY <1>1, CandidateFacts DEF Tried, Meeting
<1>3. best \in met /\ \A j \in met : formats[j].height <= formats[best].height
  <2> HIDE DEF met
  <2> QED BY <1>2, FirstFound
<1>4. BestVideo(source, formats) =
        IF t = 1 THEN Exactly(best)
        ELSE IF GoodEnough(source, formats[best]) THEN Roughly(best) ELSE Nothing
  BY BestVideoIs
<1>5. best \in DOMAIN formats
  BY <1>2, <1>3
<1> HIDE DEF t, best
<1> QED BY <1>1, <1>3, <1>4, <1>5

\* What the operators say of an answer: its test, and that it is good enough.
LEMMA BestAnswer ==
  ASSUME NEW source \in SourceType, NEW formats \in Seq(FormatType),
         StoryboardsSmall(formats), BestVideo(source, formats).id # 0
  PROVE  LET best == BestVideo(source, formats).id IN
         /\ ~source.audio /\ best \in Candidates(source, formats)
         /\ \E t \in Tried(source, formats) :
              /\ \A u \in Tried(source, formats) : t <= u
              /\ best \in Meeting(source, formats, t)
              /\ \A j \in Meeting(source, formats, t) :
                   formats[j].height <= formats[best].height
              /\ t = 1 \/ GoodEnough(source, formats[best])
<1>1. ~source.audio /\ Tried(source, formats) # {}
  BY BestVideoIs DEF Nothing
<1>2. PICK t \in Tried(source, formats), best \in DOMAIN formats :
        /\ \A u \in Tried(source, formats) : t <= u
        /\ best \in Meeting(source, formats, t)
        /\ \A j \in Meeting(source, formats, t) : formats[j].height <= formats[best].height
        /\ BestVideo(source, formats) =
             IF t = 1 THEN Exactly(best)
             ELSE IF GoodEnough(source, formats[best]) THEN Roughly(best) ELSE Nothing
  BY <1>1, BestOfFirstTest
<1>3. BestVideo(source, formats).id = best /\ (t = 1 \/ GoodEnough(source, formats[best]))
  BY <1>2 DEF Exactly, Roughly, Nothing
<1>4. best \in Candidates(source, formats)
  BY <1>2 DEF Meeting
<1> QED BY <1>1, <1>2, <1>3, <1>4

LEMMA ResolutionIsFirst ==
  ASSUME NEW source \in SourceType, NEW formats \in Seq(FormatType), StoryboardsSmall(formats)
  PROVE  ResolutionFirst(source, formats)
BY BestAnswer, CandidateFacts DEF ResolutionFirst

LEMMA NextBestIsFound ==
  ASSUME NEW source \in SourceType, NEW formats \in Seq(FormatType), StoryboardsSmall(formats)
  PROVE  NextBestFound(source, formats)
<1> DEFINE best == BestVideo(source, formats)
           fitting == {i \in Candidates(source, formats) :
                         source.fallback = "codec" => formats[i].vcodec = source.vcodec}
<1> SUFFICES ASSUME ~source.audio, source.fallback \in {"next", "codec"}
             PROVE  best = Nothing <=> fitting = {}
  BY DEF NextBestFound
<1>1. \A t \in Tried(source, formats) : source.fallback = "codec" => "codec" \in Tests(source)[t]
  BY TestsStart DEF Tried, CanSwitchCodecs
<1>2. ASSUME NEW i \in fitting PROVE best # Nothing
  <2>1. PICK t \in DOMAIN Tests(source) :
          /\ t # 1 /\ t - 1 \in DOMAIN Tests(source) /\ t - 1 # 1
          /\ Tests(source)[t] = {} /\ Tests(source)[t - 1] = {"codec"}
    BY TestsEnd
  <2>2. source.fallback = "next" => t \in Tried(source, formats)
    <3>1. i \in Meeting(source, formats, t)
      BY <2>1 DEF Meeting, Meets
    <3> QED BY <2>1, <3>1 DEF Tried, CanFallback, CanSwitchCodecs
  <2>3. source.fallback = "codec" => t - 1 \in Tried(source, formats)
    <3>1. source.fallback = "codec" => i \in Meeting(source, formats, t - 1)
      BY <2>1 DEF Meeting, Meets
    <3> QED BY <2>1, <3>1 DEF Tried, CanFallback, CanSwitchCodecs
  <2>4. Tried(source, formats) # {}
    BY <2>2, <2>3
  <2>5. PICK u \in Tried(source, formats), first \in DOMAIN formats :
          /\ first \in Meeting(source, formats, u)
          /\ best = IF u = 1 THEN Exactly(first)
                     ELSE IF GoodEnough(source, formats[first]) THEN Roughly(first) ELSE Nothing
    BY <2>4, BestOfFirstTest
  <2>6. GoodEnough(source, formats[first])
    BY <1>1, <2>5 DEF GoodEnough, Meeting, Meets
  <2>7. first # 0
    BY FormatFacts
  <2> HIDE DEF best
  <2> QED BY <2>5, <2>6, <2>7 DEF Exactly, Roughly, Nothing
<1>3. ASSUME best # Nothing PROVE fitting # {}
  <2>1. Tried(source, formats) # {}
    BY <1>3, BestVideoIs
  <2>2. PICK u \in Tried(source, formats) : Meeting(source, formats, u) # {}
    BY <2>1 DEF Tried
  <2>3. Meeting(source, formats, u) \subseteq fitting
    BY <1>1, <2>2 DEF Meeting, Meets
  <2> QED BY <2>2, <2>3
<1> QED BY <1>2, <1>3

LEMMA NoneIsBetter ==
  ASSUME NEW source \in SourceType, NEW formats \in Seq(FormatType), StoryboardsSmall(formats)
  PROVE  NoneBetter(source, formats)
<1> DEFINE best == BestVideo(source, formats).id
           chosen == formats[best]
<1> SUFFICES ASSUME best # 0, NEW i \in Candidates(source, formats),
                    <<formats[i].fps, formats[i].hdr>> = <<chosen.fps, chosen.hdr>>
             PROVE  /\ formats[i].vcodec = chosen.vcodec => formats[i].height <= chosen.height
                    /\ /\ ~(source.fps /\ source.hdr)
                       /\ MatchedResolution(source, formats[i]) = MatchedResolution(source, chosen)
                       /\ formats[i].vcodec = source.vcodec
                       => chosen.vcodec = source.vcodec
  BY DEF NoneBetter
<1>1. PICK t \in Tried(source, formats) :
        /\ \A u \in Tried(source, formats) : t <= u
        /\ best \in Meeting(source, formats, t)
        /\ \A j \in Meeting(source, formats, t) : formats[j].height <= chosen.height
  BY BestAnswer
<1>2. best \in Candidates(source, formats) /\ Meets(source, chosen, Tests(source)[t])
  BY <1>1 DEF Meeting
<1>3. formats[i].fps = chosen.fps /\ formats[i].hdr = chosen.hdr
  OBVIOUS
<1> HIDE DEF best
<1>4. ASSUME formats[i].vcodec = chosen.vcodec PROVE formats[i].height <= chosen.height
  <2>1. "resolution" \in Tests(source)[t] => MatchedResolution(source, formats[i])
    <3>1. ASSUME "resolution" \in Tests(source)[t] PROVE AtResolution(source, formats) # {}
      <4>1. MatchedResolution(source, chosen)
        BY <1>2, <3>1 DEF Meets
      <4>2. ~CanSwitchCodecs(source) => chosen.vcodec = source.vcodec
        BY <1>1, <1>2, TestsStart DEF Tried, Meets
      <4> QED BY <1>2, <4>1, <4>2, CandidateFacts
    <3> QED BY <3>1, CandidateFacts
  <2>2. i \in Meeting(source, formats, t)
    BY <1>2, <1>3, <1>4, <2>1 DEF Meeting, Meets
  <2> QED BY <1>1, <2>2
<1>5. ASSUME ~(source.fps /\ source.hdr), formats[i].vcodec = source.vcodec,
             MatchedResolution(source, formats[i]) = MatchedResolution(source, chosen)
      PROVE  chosen.vcodec = source.vcodec
  <2>1. CASE "codec" \in Tests(source)[t]
    BY <1>2, <2>1 DEF Meets
  <2>2. CASE "codec" \notin Tests(source)[t]
    <3>1. t \in DOMAIN Tests(source)
      BY DEF Tried
    <3>2. PICK u \in DOMAIN Tests(source) :
            /\ u < t /\ "codec" \in Tests(source)[u]
            /\ Tests(source)[u] \subseteq Tests(source)[t] \cup {"codec"}
      BY <1>5, <2>2, <3>1, CodecFirst
    <3>3. Meets(source, formats[i], Tests(source)[u])
      BY <1>2, <1>3, <1>5, <3>2 DEF Meets
    <3>4. t # 1 /\ CanFallback(source)
      BY <2>2, TestsStart DEF Tried
    <3>5. u \in Tried(source, formats)
      BY <3>2, <3>3, <3>4 DEF Tried, Meeting
    <3>6. t \in Nat /\ u \in Nat
      BY <3>1, TestsStart
    <3> QED BY <1>1, <3>2, <3>5, <3>6
  <2> QED BY <2>1, <2>2
<1> QED BY <1>4, <1>5

----------------------------------------------------------------------------
(* get_format_str *)

\* The last of some formats, and the fallback among them, are of them.
LEMMA FallbackFacts ==
  ASSUME NEW formats \in Seq(FormatType), NEW ids, ids \subseteq DOMAIN formats
  PROVE  /\ \A note : LastWith(formats, ids, note) \subseteq ids
         /\ ids # {} => Max(ids) \in ids
         /\ FallbackIds(formats, ids) \subseteq ids
<1>1. ASSUME NEW S, S \subseteq ids, S # {} PROVE Max(S) \in S
  <2>1. S \subseteq 1..Len(formats) /\ Len(formats) \in Nat
    BY <1>1, FormatFacts
  <2> QED BY <1>1, <2>1, GreatestFound
<1>2. ASSUME NEW note PROVE LastWith(formats, ids, note) \subseteq ids
  <2> DEFINE noted == {i \in ids : note \in formats[i].notes}
  <2>1. noted # {} => Max(noted) \in noted
    <3>1. noted \subseteq ids
      OBVIOUS
    <3> HIDE DEF noted
    <3> QED BY <1>1, <3>1
  <2> QED BY <2>1 DEF LastWith
<1>3. FallbackIds(formats, ids) \subseteq ids
  <2> DEFINE english == {i \in ids : formats[i].language = "en"}
  <2>1. english # {} => Max(english) \in english
    <3>1. english \subseteq ids
      OBVIOUS
    <3> HIDE DEF english
    <3> QED BY <1>1, <3>1
  <2>2. LastWith(formats, ids, "default") \subseteq ids
    BY <1>2
  <2> QED BY <2>1, <2>2 DEF FallbackIds
<1> QED BY <1>1, <1>2, <1>3

LEMMA AudioSound ==
  ASSUME NEW source \in SourceType, NEW formats \in Seq(FormatType),
         NEW c \in BestAudio(source, formats), c.id # 0
  PROVE  /\ c.id \in DOMAIN formats
         /\ formats[c.id].vcodec = None /\ formats[c.id].acodec # None
         /\ source.fallback = "fail" => formats[c.id].acodec = source.acodec
<1> DEFINE audio == {i \in DOMAIN formats : formats[i].vcodec = None /\ formats[i].acodec # None}
           wished == {i \in audio : formats[i].acodec = source.acodec}
<1>1. audio \subseteq DOMAIN formats /\ wished \subseteq DOMAIN formats
  OBVIOUS
<1>2. CASE wished # {}
  <2>1. c.id = Max(wished)
    BY <1>2 DEF BestAudio, Exactly
  <2>2. Max(wished) \in wished
    <3> HIDE DEF wished
    <3> QED BY <1>1, <1>2, FallbackFacts
  <2> QED BY <2>1, <2>2
<1>3. CASE wished = {}
  <2>1. /\ CanFallback(source) /\ audio # {}
        /\ c \in {Roughly(i) : i \in FallbackIds(formats, audio)}
    BY <1>3 DEF BestAudio, Nothing
  <2>2. c.id \in FallbackIds(formats, audio)
    BY <2>1 DEF Roughly
  <2>3. FallbackIds(formats, audio) \subseteq audio
    <3> HIDE DEF audio
    <3> QED BY <1>1, FallbackFacts
  <2> QED BY <2>1, <2>2, <2>3 DEF CanFallback
<1> QED BY <1>2, <1>3

LEMMA CombinedSound ==
  ASSUME NEW source \in SourceType, NEW formats \in Seq(FormatType),
         NEW c \in BestCombined(source, formats), c.id # 0
  PROVE  /\ c.id \in DOMAIN formats
         /\ formats[c.id].vcodec # None /\ formats[c.id].acodec # None
         /\ formats[c.id].acodec = source.acodec
         /\ AsWished(source, formats[c.id])
<1> DEFINE matches == {i \in DOMAIN formats :
                         /\ formats[i].height = source.height
                         /\ formats[i].vcodec = source.vcodec
                         /\ formats[i].acodec = source.acodec
                         /\ source.fps => formats[i].fps
                         /\ source.hdr => formats[i].hdr}
           original == LastWith(formats, matches, "original")
           chosen == IF original # {} THEN original ELSE FallbackIds(formats, matches)
<1>1. BestCombined(source, formats) =
        IF matches = {} THEN {Nothing} ELSE {Exactly(i) : i \in chosen}
  BY DEF BestCombined
<1>2. c.id \in chosen
  <2> HIDE DEF chosen, matches
  <2>1. c \in {Exactly(i) : i \in chosen}
    BY <1>1 DEF Nothing
  <2> QED BY <2>1 DEF Exactly
<1>3. matches \subseteq DOMAIN formats
  OBVIOUS
<1>4. chosen \subseteq matches
  <2> HIDE DEF matches
  <2> QED BY <1>3, FallbackFacts
<1>5. c.id \in matches
  BY <1>2, <1>4
<1>6. source.vcodec # None /\ source.acodec # None
  BY DEF SourceType
<1> QED BY <1>5, <1>6 DEF AsWished, MatchedResolution

LEMMA VideoSound ==
  ASSUME NEW source \in SourceType, NEW formats \in Seq(FormatType),
         StoryboardsSmall(formats), BestVideo(source, formats).id # 0
  PROVE  LET video == BestVideo(source, formats).id IN
         /\ video \in DOMAIN formats
         /\ formats[video].vcodec # None /\ formats[video].acodec = None
         /\ AsWished(source, formats[video]) \/ GoodEnough(source, formats[video])
<1> DEFINE video == BestVideo(source, formats).id
<1>1. video \in Candidates(source, formats)
  BY BestAnswer
<1>2. PICK t \in Tried(source, formats) :
        video \in Meeting(source, formats, t) /\ (t = 1 \/ GoodEnough(source, formats[video]))
  BY BestAnswer
<1> HIDE DEF video
<1>3. t = 1 => AsWished(source, formats[video])
  BY <1>2, TestsStart DEF Meeting, Meets, AsWished
<1>4. /\ video \in DOMAIN formats
      /\ formats[video].vcodec # None /\ formats[video].acodec = None
  BY <1>1, CandidateFacts
<1> QED BY <1>2, <1>3, <1>4 DEF video

LEMMA LastResortSound ==
  ASSUME NEW source \in SourceType, NEW formats \in Seq(FormatType),
         NEW i \in LastResort(source, formats)
  PROVE  /\ i \in DOMAIN formats
         /\ formats[i].vcodec # None /\ formats[i].acodec # None
         /\ source.fallback # "fail" /\ GoodEnough(source, formats[i])
<1> DEFINE allowed == {j \in DOMAIN formats :
                         /\ formats[j].acodec # None /\ formats[j].vcodec # None
                         /\ CanFallback(source)
                         /\ GoodEnough(source, formats[j])}
<1>1. allowed # {} /\ i = Max(allowed)
  BY DEF LastResort
<1>2. Max(allowed) \in allowed
  <2>1. allowed \subseteq DOMAIN formats
    OBVIOUS
  <2> HIDE DEF allowed
  <2> QED BY <1>1, <2>1, FallbackFacts
<1> QED BY <1>1, <1>2 DEF CanFallback

\* A download that is given is one the source permits.
LEMMA DownloadsPermitted ==
  ASSUME NEW source \in SourceType, NEW formats \in Seq(FormatType),
         StoryboardsSmall(formats), NEW ids \in Downloads(source, formats), ids # {}
  PROVE  Permitted(source, formats, ids)
<1> DEFINE Allowed(i) ==
             /\ source.fallback = "fail" /\ formats[i].acodec # None =>
                  formats[i].acodec = source.acodec
             /\ formats[i].vcodec # None =>
                  AsWished(source, formats[i]) \/ GoodEnough(source, formats[i])
           audios == {c.id : c \in BestAudio(source, formats)} \ {0}
           combined == {c.id : c \in BestCombined(source, formats)} \ {0}
           video == BestVideo(source, formats).id
<1>1. SUFFICES /\ \E i \in ids : formats[i].acodec # None
               /\ ~source.audio => \E i \in ids : formats[i].vcodec # None
               /\ \A i \in ids : Allowed(i)
  BY DEF Permitted, GoodEnough
<1>2. ASSUME NEW a \in audios
      PROVE  Allowed(a) /\ formats[a].acodec # None
  <2>1. PICK c \in BestAudio(source, formats) : a = c.id /\ c.id # 0
    BY <1>2
  <2> QED BY <2>1, AudioSound
<1>3. ASSUME NEW a \in combined
      PROVE  Allowed(a) /\ formats[a].acodec # None /\ formats[a].vcodec # None
  <2>1. PICK c \in BestCombined(source, formats) : a = c.id /\ c.id # 0
    BY <1>3
  <2> QED BY <2>1, CombinedSound
<1>4. video # 0 => Allowed(video) /\ formats[video].vcodec # None
  BY VideoSound
<1>5. ASSUME NEW i \in LastResort(source, formats)
      PROVE  Allowed(i) /\ formats[i].acodec # None /\ formats[i].vcodec # None
  BY LastResortSound
<1>6. ids \in IF source.audio THEN IF audios = {} THEN {{}} ELSE {{a} : a \in audios}
              ELSE IF combined # {} THEN {{c} : c \in combined}
              ELSE IF video # 0 /\ audios # {} THEN {{video, a} : a \in audios}
              ELSE {LastResort(source, formats)}
  BY DEF Downloads
<1> HIDE DEF Allowed, audios, combined, video
<1>7. CASE source.audio
  BY <1>2, <1>6, <1>7
<1>8. CASE ~source.audio /\ combined # {}
  BY <1>3, <1>6, <1>8
<1>9. CASE ~source.audio /\ combined = {} /\ video # 0 /\ audios # {}
  BY <1>2, <1>4, <1>6, <1>9
<1>10. CASE ~source.audio /\ combined = {} /\ ~(video # 0 /\ audios # {})
  BY <1>5, <1>6, <1>10
<1> QED BY <1>7, <1>8, <1>9, <1>10

----------------------------------------------------------------------------
(* The theorems about the formats *)

\* Every question is one of the constant's, or none was asked yet.
LEMMA QuestionAsked == Spec => [](question = NoQuestion \/ question \in Questions)
<1>1. Init => question = NoQuestion
  BY DEF Init
<1>2. (question = NoQuestion \/ question \in Questions) /\ [Next]_vars =>
        (question = NoQuestion \/ question \in Questions)'
  BY DEF Next, Ask, Show, vars
<1> QED BY <1>1, <1>2, PTL DEF Spec

\* Whatever the source and however many formats of whatever kind a media has,
\* what is downloaded has every stream the source wants, each in a form that
\* its fallback choice permits.
THEOREM FallbackIsKept == Spec => []FallbackKept
<1>1. question = NoQuestion \/ question \in Questions => FallbackKept
  <2> SUFFICES ASSUME question = NoQuestion \/ question \in Questions,
                      question.about = "download",
                      NEW ids \in Downloads(question.source, question.formats), ids # {}
               PROVE  Permitted(question.source, question.formats, ids)
    BY DEF FallbackKept
  <2>1. question \in Questions
    BY DEF NoQuestion
  <2>2. /\ question.source \in SourceType /\ question.formats \in Seq(FormatType)
        /\ StoryboardsSmall(question.formats)
    BY <2>1, QuestionAssumption
  <2> QED BY <2>2, DownloadsPermitted
<1> QED BY <1>1, QuestionAsked, PTL

\* Whatever the formats, get_best_video_format prefers the wished resolution;
\* with the fallbacks "next" and "codec" it finds a format if these permit one;
\* it passes over no larger format of the same codec, rate and range, and, but
\* for a source that prefers both 60fps and HDR, over none of the wished codec
\* that is as good in the rest.
THEOREM BestAlwaysFits == Spec => []BestFits
<1>1. question = NoQuestion \/ question \in Questions => BestFits
  <2> SUFFICES ASSUME question = NoQuestion \/ question \in Questions, question.about = "video"
               PROVE  /\ ResolutionFirst(question.source, question.formats)
                      /\ NextBestFound(question.source, question.formats)
                      /\ NoneBetter(question.source, question.formats)
    BY DEF BestFits
  <2>1. question \in Questions
    BY DEF NoQuestion
  <2>2. /\ question.source \in SourceType /\ question.formats \in Seq(FormatType)
        /\ StoryboardsSmall(question.formats)
    BY <2>1, QuestionAssumption
  <2> QED BY <2>2, ResolutionIsFirst, NextBestIsFound, NoneIsBetter
<1> QED BY <1>1, QuestionAsked, PTL

----------------------------------------------------------------------------
(* The show: facts *)

\* The numbers that stand for no channel title are below every one that does.
LEMMA TitleFacts ==
  /\ UserTitle \in TitleType \ Nat /\ NoTitle \in TitleType \ Nat
  /\ TitleType \subseteq Int /\ Nat \subseteq TitleType
  /\ \A n \in Nat : UserTitle <= n /\ NoTitle <= n
BY DEF TitleType, UserTitle, NoTitle

\* A thread that has nothing to do.
LEMMA IdleFacts ==
  /\ Idle \in ThreadType
  /\ Idle.at = "idle" /\ Idle.title = NoTitle
BY TitleFacts DEF Idle, ThreadType, Places

\* A thread that goes on keeps what it was told of others.
LEMMA GoesFacts ==
  ASSUME thread \in [Threads -> ThreadType], NEW t \in Threads,
         NEW at \in Places, NEW title \in TitleType, Goes(t, at, title)
  PROVE  /\ thread' \in [Threads -> ThreadType]
         /\ thread'[t].at = at /\ thread'[t].title = title
         /\ thread'[t].touched = thread[t].touched /\ thread'[t].old = thread[t].old
         /\ \A u \in Threads \ {t} : thread'[u] = thread[u]
BY DEF Goes, ThreadType

\* A thread that finishes forgets everything.
LEMMA FinishesFacts ==
  ASSUME thread \in [Threads -> ThreadType], NEW t \in Threads, Finishes(t)
  PROVE  /\ thread' \in [Threads -> ThreadType]
         /\ thread'[t] = Idle
         /\ \A u \in Threads \ {t} : thread'[u] = thread[u]
BY IdleFacts DEF Finishes

\* Every thread's process is one.
LEMMA ProcessFacts == \A t \in Threads : ProcessOf[t] \in Processes
BY DEF Processes

\* Nothing is known at the start.
LEMMA InitShowInv == ShowInit => ShowInv
<1> SUFFICES ASSUME ShowInit PROVE ShowInv
  OBVIOUS
<1>1. TypeOK
  BY TitleFacts, IdleFacts DEF ShowInit, TypeOK, Absent
<1>2. TitlesCurrent
  BY TitleFacts, IdleFacts, ProcessFacts DEF ShowInit, TitlesCurrent, Found, CacheCurrent, Absent
<1>3. WriterLooked
  BY IdleFacts DEF ShowInit, WriterLooked
<1> QED BY <1>1, <1>2, <1>3 DEF ShowInv

----------------------------------------------------------------------------
(* write_tvshow_nfo *)

\* Building the file and looking at the one that is there.
LEMMA WriterSteps ==
  ASSUME ShowInv, NEW t \in Threads, Build(t) \/ LookAtFile(t)
  PROVE  ShowInv'
<1>1. /\ UNCHANGED <<name, nfo, cache, told, refreshed, events>>
      /\ thread \in [Threads -> ThreadType]
      /\ name \in TitleType /\ name <= name
      /\ thread[t].title \in TitleType /\ thread[t].title <= name
  BY TitleFacts DEF Build, LookAtFile, ShowInv, TypeOK, TitlesCurrent, ThreadType
<1>2. PICK at \in {"built", "keep", "replace"}, title \in {name, thread[t].title} :
        Goes(t, at, title) /\ (at = "replace" => ~Foreign)
  BY DEF Build, LookAtFile
<1>3. /\ thread' \in [Threads -> ThreadType]
      /\ thread'[t].at = at /\ thread'[t].title = title
      /\ \A u \in Threads \ {t} : thread'[u] = thread[u]
  BY <1>1, <1>2, GoesFacts DEF Places
<1>4. TypeOK'
  BY <1>1, <1>3 DEF ShowInv, TypeOK
<1>5. TitlesCurrent'
  BY <1>1, <1>3 DEF ShowInv, TitlesCurrent, Found, CacheCurrent
<1>6. WriterLooked'
  BY <1>1, <1>2, <1>3 DEF ShowInv, WriterLooked, Foreign
<1> QED BY <1>4, <1>5, <1>6 DEF ShowInv

\* Dropping the entry moves the generation for the lookups that are under way.
LEMMA InvalidateStep ==
  ASSUME ShowInv, NEW t \in Threads, Invalidate(t)
  PROVE  ShowInv'
<1> DEFINE p == ProcessOf[t]
<1>1. /\ UNCHANGED <<name, nfo, told, events>>
      /\ thread \in [Threads -> ThreadType] /\ p \in Processes
      /\ thread[t].title \in TitleType /\ thread[t].title <= name
  BY ProcessFacts DEF Invalidate, ShowInv, TypeOK, TitlesCurrent, ThreadType
<1>2. /\ cache' \in [Processes -> TitleType] /\ cache'[p] = NoTitle
      /\ \A q \in Processes \ {p} : cache'[q] = cache[q]
  BY <1>1, TitleFacts DEF Invalidate, ShowInv, TypeOK
<1>3. /\ refreshed' \in [Processes -> TitleType]
      /\ refreshed'[p] \in {refreshed[p], thread[t].title}
      /\ \A q \in Processes \ {p} : refreshed'[q] = refreshed[q]
  BY <1>1 DEF Invalidate, ShowInv, TypeOK
<1>4. /\ thread'[t] \in ThreadType /\ thread'[t].at \in {"idle", "write"}
      /\ thread'[t].title \in {thread[t].title, NoTitle}
      /\ thread'[t].at = "write" =>
           thread[t].at = "replace" /\ thread'[t].touched = thread[t].touched
  <2>1. thread'[t] = Idle \/ /\ thread[t].at = "replace"
                             /\ thread'[t] = [thread[t] EXCEPT !.at = "write"]
    BY DEF Invalidate
  <2> QED BY <1>1, <2>1, IdleFacts DEF ThreadType, Places
<1>5. ASSUME NEW u \in Threads \ {t}
      PROVE  /\ thread'[u] \in ThreadType
             /\ thread'[u].at = thread[u].at /\ thread'[u].title = thread[u].title
             /\ thread'[u].touched = thread[u].touched
             /\ thread'[u].at = "found" /\ ~thread'[u].old =>
                  ~thread[u].old /\ ProcessOf[u] # p
  <2>1. PICK old \in BOOLEAN :
          /\ thread'[u] = [thread[u] EXCEPT !.old = old]
          /\ thread[u].at = "found" /\ ~old => ~thread[u].old /\ ProcessOf[u] # p
    BY <1>1, <1>5 DEF Invalidate, ThreadType
  <2> QED BY <1>1, <2>1 DEF ThreadType
<1>6. thread' = [u \in Threads |-> thread'[u]]
  BY DEF Invalidate
<1>7. TypeOK'
  <2>1. thread' \in [Threads -> ThreadType]
    BY <1>4, <1>5, <1>6
  <2> QED BY <1>1, <1>2, <1>3, <2>1 DEF ShowInv, TypeOK
<1> HIDE DEF p
<1>8. TitlesCurrent'
  <2>1. \A q \in Processes : refreshed'[q] <= name'
    BY <1>1, <1>3 DEF ShowInv, TitlesCurrent
  <2>2. CacheCurrent'
    BY <1>2, <1>3, TitleFacts DEF ShowInv, TitlesCurrent, CacheCurrent
  <2>3. ASSUME NEW u \in Threads PROVE thread'[u].title <= name' /\ Found(u)'
    <3>1. CASE u = t
      BY <1>1, <1>4, <3>1, TitleFacts DEF Found, ShowInv, TypeOK
    <3>2. CASE u # t
      <4>1. thread[u].title <= name /\ Found(u) /\ ProcessOf[u] \in Processes
        BY ProcessFacts DEF ShowInv, TitlesCurrent
      <4> QED BY <1>1, <1>3, <1>5, <3>2, <4>1 DEF Found
    <3> QED BY <3>1, <3>2
  <2> QED BY <1>1, <2>1, <2>2, <2>3 DEF ShowInv, TitlesCurrent
<1>9. WriterLooked'
  BY <1>1, <1>4, <1>5 DEF ShowInv, WriterLooked, Foreign
<1> QED BY <1>7, <1>8, <1>9 DEF ShowInv

\* Threads that stop, having written the file or not.
LEMMA StopSteps ==
  ASSUME ShowInv, NEW t \in Threads, WriteFile(t) \/ WriteFails(t) \/ LookupFails(t)
  PROVE  ShowInv'
<1>1. /\ UNCHANGED <<name, cache, refreshed>> /\ Finishes(t)
      /\ told' \in [Processes -> TitleType] /\ events' \in Nat
  BY ProcessFacts, TitleFacts
  DEF WriteFile, WriteFails, LookupFails, Event, ShowInv, TypeOK
<1>2. /\ thread' \in [Threads -> ThreadType]
      /\ thread'[t] = Idle
      /\ \A u \in Threads \ {t} : thread'[u] = thread[u]
  BY <1>1, FinishesFacts DEF ShowInv, TypeOK
<1>3. /\ nfo' \in [is : {"absent", "own", "theirs", "opaque"}, title : TitleType]
      /\ nfo' = nfo \/ nfo'.is = "own"
  BY DEF WriteFile, WriteFails, LookupFails, Own, ShowInv, TypeOK, ThreadType
<1>4. TypeOK'
  BY <1>1, <1>2, <1>3 DEF ShowInv, TypeOK
<1>5. TitlesCurrent'
  BY <1>1, <1>2, <1>3, IdleFacts, TitleFacts
  DEF ShowInv, TitlesCurrent, Found, CacheCurrent, TypeOK
<1>6. WriterLooked'
  BY <1>2, <1>3, IdleFacts DEF ShowInv, WriterLooked, Foreign
<1> QED BY <1>4, <1>5, <1>6 DEF ShowInv

----------------------------------------------------------------------------
(* resolve_show_title *)

\* A lookup that goes on: what it finds is the file's title, or the newest.
LEMMA LookupSteps ==
  ASSUME ShowInv, NEW t \in Threads, StartLookup(t) \/ LookForeign(t) \/ ReadData(t)
  PROVE  ShowInv'
<1>1. /\ UNCHANGED <<name, nfo, cache, refreshed, events>>
      /\ thread \in [Threads -> ThreadType] /\ name \in Nat
      /\ told' \in [Processes -> TitleType]
  BY ProcessFacts DEF StartLookup, LookForeign, ReadData, ShowInv, TypeOK
<1>2. CASE UNCHANGED thread
  BY <1>1, <1>2 DEF ShowInv, TypeOK, TitlesCurrent, Found, CacheCurrent, WriterLooked, Foreign
<1>3. ASSUME NEW at \in {"asked", "data", "found"}, NEW title \in {NoTitle, UserTitle, name},
             Goes(t, at, title), at = "found" => title \in {UserTitle, name}
      PROVE  ShowInv'
  <2>1. title \in TitleType /\ title <= name /\ (title \in Nat => title = name)
    BY <1>1, TitleFacts
  <2>2. /\ thread' \in [Threads -> ThreadType]
        /\ thread'[t].at = at /\ thread'[t].title = title
        /\ \A u \in Threads \ {t} : thread'[u] = thread[u]
    BY <1>1, <1>3, <2>1, GoesFacts DEF Places
  <2>3. TypeOK'
    BY <1>1, <2>2 DEF ShowInv, TypeOK
  <2>4. refreshed[ProcessOf[t]] <= name
    BY ProcessFacts DEF ShowInv, TitlesCurrent
  <2>5. TitlesCurrent'
    BY <1>1, <2>1, <2>2, <2>4 DEF ShowInv, TitlesCurrent, Found, CacheCurrent
  <2>6. WriterLooked'
    BY <1>1, <2>2 DEF ShowInv, WriterLooked, Foreign
  <2> QED BY <2>3, <2>5, <2>6 DEF ShowInv
<1>4. CASE StartLookup(t)
  BY <1>2, <1>3, <1>4 DEF StartLookup
<1>5. CASE LookForeign(t)
  <2>1. nfo.is = "theirs" => nfo.title = UserTitle
    BY DEF ShowInv, TitlesCurrent, Theirs
  <2> QED BY <1>3, <1>5, <2>1 DEF LookForeign
<1>6. CASE ReadData(t)
  BY <1>3, <1>6 DEF ReadData
<1> QED BY <1>4, <1>5, <1>6

\* Only a lookup whose generation is still the cache's stores its title.
LEMMA StoreStep ==
  ASSUME ShowInv, NEW t \in Threads, Store(t)
  PROVE  ShowInv'
<1>1. /\ UNCHANGED <<name, nfo, refreshed, events>> /\ Finishes(t)
      /\ thread \in [Threads -> ThreadType] /\ ProcessOf[t] \in Processes
      /\ thread[t].title \in TitleType
  BY ProcessFacts DEF Store, ShowInv, TypeOK, ThreadType
<1>2. /\ thread' \in [Threads -> ThreadType]
      /\ thread'[t] = Idle
      /\ \A u \in Threads \ {t} : thread'[u] = thread[u]
  BY <1>1, FinishesFacts
<1>3. TypeOK'
  BY <1>1, <1>2 DEF Store, ShowInv, TypeOK
<1>4. CacheCurrent'
  BY <1>1 DEF Store, ShowInv, TypeOK, TitlesCurrent, Found, CacheCurrent
<1>5. TitlesCurrent'
  BY <1>1, <1>2, <1>4, IdleFacts, TitleFacts DEF ShowInv, TitlesCurrent, Found, TypeOK
<1>6. WriterLooked'
  BY <1>1, <1>2, IdleFacts DEF ShowInv, WriterLooked, Foreign
<1> QED BY <1>3, <1>5, <1>6 DEF ShowInv

----------------------------------------------------------------------------
(* The world *)

\* The entry expires, the channel takes a name, the process dies.
LEMMA WorldSteps ==
  ASSUME ShowInv, Rename \/ \E p \in Processes : Expire(p) \/ Die(p)
  PROVE  ShowInv'
<1>1. CASE Rename
  <2>1. /\ UNCHANGED <<nfo, thread, cache, told, refreshed, events>>
        /\ name \in Nat /\ name' \in Nat /\ name <= name'
    BY <1>1 DEF Rename, ShowInv, TypeOK
  <2>2. \A n \in TitleType : n <= name => n <= name'
    BY <2>1, TitleFacts
  <2>3. TitlesCurrent'
    BY <2>1, <2>2 DEF ShowInv, TypeOK, ThreadType, TitlesCurrent, Found, CacheCurrent
  <2> QED BY <2>1, <2>3 DEF ShowInv, TypeOK, WriterLooked, Foreign
<1>2. ASSUME NEW p \in Processes, Expire(p) PROVE ShowInv'
  BY <1>2, TitleFacts
  DEF Expire, ShowInv, TypeOK, TitlesCurrent, Found, CacheCurrent, WriterLooked, Foreign
<1>3. ASSUME NEW p \in Processes, Die(p) PROVE ShowInv'
  <2>1. /\ UNCHANGED <<name, nfo, told>> /\ events' \in Nat
        /\ \A t \in Threads :
             thread'[t] = Idle \/ (thread'[t] = thread[t] /\ ProcessOf[t] # p)
        /\ thread' = [t \in Threads |-> thread'[t]]
    BY <1>3 DEF Die, Event, ShowInv, TypeOK
  <2>2. /\ cache' \in [Processes -> TitleType] /\ refreshed' \in [Processes -> TitleType]
        /\ cache'[p] = NoTitle /\ refreshed'[p] = NoTitle
        /\ \A q \in Processes \ {p} : cache'[q] = cache[q] /\ refreshed'[q] = refreshed[q]
    BY <1>3, TitleFacts DEF Die, ShowInv, TypeOK
  <2>3. TypeOK'
    BY <2>1, <2>2, IdleFacts DEF ShowInv, TypeOK
  <2>4. TitlesCurrent'
    BY <2>1, <2>2, IdleFacts, TitleFacts, ProcessFacts
    DEF ShowInv, TypeOK, TitlesCurrent, Found, CacheCurrent
  <2>5. WriterLooked'
    BY <2>1, IdleFacts DEF ShowInv, WriterLooked, Foreign
  <2> QED BY <2>3, <2>4, <2>5 DEF ShowInv
<1> QED BY <1>1, <1>2, <1>3

\* The user's edit is one that the writers under way have not seen.
LEMMA EditStep ==
  ASSUME ShowInv, Edit
  PROVE  ShowInv'
<1>1. /\ UNCHANGED <<name, cache, told, refreshed>> /\ events' \in Nat
      /\ nfo' \in {Theirs, Opaque, Absent}
      /\ thread \in [Threads -> ThreadType]
  BY DEF Edit, Event, ShowInv, TypeOK
<1>2. ASSUME NEW t \in Threads
      PROVE  /\ thread'[t] \in ThreadType
             /\ thread'[t].at = thread[t].at /\ thread'[t].title = thread[t].title
             /\ thread'[t].old = thread[t].old
             /\ thread'[t].at \in {"replace", "write"} => thread'[t].touched
  <2>1. PICK touched \in BOOLEAN :
          /\ thread'[t] = [thread[t] EXCEPT !.touched = touched]
          /\ thread[t].at \in {"replace", "write"} => touched
    BY <1>1 DEF Edit, ThreadType
  <2> QED BY <1>1, <2>1 DEF ThreadType
<1>3. thread' = [t \in Threads |-> thread'[t]]
  BY DEF Edit
<1>4. TypeOK'
  <2>1. thread' \in [Threads -> ThreadType]
    BY <1>2, <1>3
  <2> QED BY <1>1, <2>1, TitleFacts DEF ShowInv, TypeOK, Theirs, Opaque, Absent
<1>5. TitlesCurrent'
  BY <1>1, <1>2 DEF ShowInv, TitlesCurrent, Found, CacheCurrent, Theirs, Opaque, Absent
<1>6. WriterLooked'
  BY <1>2 DEF WriterLooked
<1> QED BY <1>4, <1>5, <1>6 DEF ShowInv

----------------------------------------------------------------------------
(* The theorems about the show *)

\* The invariant holds in every reachable state.
THEOREM ShowInvariance == ShowSpec => []ShowInv
<1>1. ShowInv /\ [ShowNext]_showVars => ShowInv'
  <2> SUFFICES ASSUME ShowInv, [ShowNext]_showVars PROVE ShowInv'
    OBVIOUS
  <2>1. CASE UNCHANGED showVars
    BY <2>1 DEF showVars, ShowInv, TypeOK, TitlesCurrent, Found, CacheCurrent,
       WriterLooked, Foreign
  <2> QED BY <2>1, WriterSteps, InvalidateStep, StopSteps, LookupSteps, StoreStep,
             WorldSteps, EditStep DEF ShowNext, GoesOn
<1> QED BY <1>1, InitShowInv, PTL DEF ShowSpec

\* Whatever overlaps, a process that rebuilt the show never again has a title
\* in its cache that is older than the one it rebuilt it with.
THEOREM NoOlderTitle == ShowSpec => []CacheCurrent
<1>1. ShowInv => CacheCurrent
  BY DEF ShowInv, TitlesCurrent
<1> QED BY <1>1, ShowInvariance, PTL

\* Whatever overlaps, a writer replaces a file of the user's only if the user
\* put it there after the writer had looked.
THEOREM UserFileSafe == ShowSpec => UserFileKept
<1> DEFINE Kept ==
      nfo.is \in {"theirs", "opaque"} /\ nfo'.is = "own" =>
        \E t \in Threads : thread[t].at = "write" /\ thread[t].touched /\ thread'[t] # thread[t]
<1>1. ShowInv /\ [ShowNext]_showVars => [Kept]_showVars
  <2> SUFFICES ASSUME ShowInv, ShowNext, nfo.is \in {"theirs", "opaque"}, nfo'.is = "own"
               PROVE  \E t \in Threads : /\ thread[t].at = "write" /\ thread[t].touched
                                         /\ thread'[t] # thread[t]
    OBVIOUS
  <2>1. ~Edit
    BY DEF Edit, Theirs, Opaque, Absent
  <2>2. PICK t \in Threads : WriteFile(t)
    BY <2>1 DEF ShowNext, GoesOn, Build, LookAtFile, Invalidate, WriteFails, StartLookup,
       LookForeign, ReadData, Store, LookupFails, Expire, Die, Rename
  <2>3. thread'[t].at = "idle" /\ thread[t].at = "write"
    BY <2>2, FinishesFacts, IdleFacts DEF WriteFile, ShowInv, TypeOK
  <2>4. thread[t].touched
    BY <2>3 DEF ShowInv, WriterLooked, Foreign
  <2> QED BY <2>3, <2>4
<1> QED BY <1>1, ShowInvariance, PTL DEF ShowSpec, UserFileKept

\* Beside the questions the show goes on as ever: what is proved of ShowSpec
\* holds of Spec.
LEMMA ShowWithin == Spec => ShowSpec
<1>1. Init => ShowInit
  BY DEF Init
<1>2. [Next]_vars => [ShowNext]_showVars
  BY DEF Next, Ask, Show, vars, showVars
<1> QED BY <1>1, <1>2, PTL DEF Spec, ShowSpec
=============================================================================
