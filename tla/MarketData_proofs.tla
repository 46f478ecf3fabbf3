------------------------- MODULE MarketData_proofs -------------------------
(***************************************************************************)
(* Proofs about MarketData: the frames a load passes on have integer time  *)
(* stamps, the folds cut from them do not touch, what a load answers is    *)
(* one version of a source,   the rolls of the continuous series do not    *)
(* look ahead, gap reports count what is missing, and resampling in steps  *)
(* is resampling at once.                                                  *)
(***************************************************************************)
EXTENDS MarketData, DataLemmas

(***************************************************************************)
(* Arithmetic of the folds.                                                *)
(***************************************************************************)
\* A product with a percentage lies between nothing and a hundred times.
LEMMA PercentBounds ==
  ASSUME NEW x \in Int, NEW p \in 0 .. 100
  PROVE  /\ x * p \in Int
         /\ x >= 0 => 0 <= x * p /\ x * p <= 100 * x
         /\ x <= 0 => 100 * x <= x * p /\ x * p <= 0
  OBVIOUS

\* A rounded hundredth of a whole number of hundredths' multiples stays within
\* them.
LEMMA RoundingBounds ==
  ASSUME NEW x \in Int, NEW y \in Int
  PROVE  /\ DivideAndRound(y, 100) \in Int
         /\ (0 <= y /\ y <= 100 * x) => (0 <= DivideAndRound(y, 100) /\ DivideAndRound(y, 100) <= x)
         /\ (100 * x <= y /\ y <= 0) => (x <= DivideAndRound(y, 100) /\ DivideAndRound(y, 100) <= 0)
  BY DEF DivideAndRound

\* Segments follow one another.
LEMMA SegmentsFollow ==
  ASSUME NEW first \in Int, NEW span \in Nat, NEW i \in Nat, NEW j \in Nat, i < j
  PROVE  /\ SegEnd(first, span, i) \in Int /\ SegStart(first, span, j) \in Int
         /\ SegEnd(first, span, i) <= SegStart(first, span, j)
<1>1. PICK d \in Nat : j = (i + 1) + d  OBVIOUS
<1>2. span * j = span * (i + 1) + span * d  BY <1>1
<1>3. span * d \in Nat  OBVIOUS
<1> QED  BY <1>2, <1>3 DEF SegEnd, SegStart

\* The training part of a segment lies in it, whichever way the segment runs.
LEMMA TrainWithinSegment ==
  ASSUME NEW first \in Int, NEW span \in Int, NEW i \in Nat
  PROVE  /\ SegStart(first, span, i) \in Int /\ SegEnd(first, span, i) \in Int
         /\ TrainEnd(first, span, i) \in Int
         /\ SegEnd(first, span, i) = SegStart(first, span, i) + span
         /\ span >= 0 => SegStart(first, span, i) <= TrainEnd(first, span, i)
         /\ span <= 0 => SegEnd(first, span, i) <= TrainEnd(first, span, i)
<1> DEFINE share == DivideAndRound(span * TrainPercent, 100)
<1>1. /\ share \in Int
      /\ span >= 0 => 0 <= share
      /\ span <= 0 => span <= share
  <2>1. /\ span * TrainPercent \in Int
        /\ span >= 0 => 0 <= span * TrainPercent /\ span * TrainPercent <= 100 * span
        /\ span <= 0 => 100 * span <= span * TrainPercent /\ span * TrainPercent <= 0
    BY PercentBounds, WalkForwardAssumption
  <2> QED  BY <2>1, RoundingBounds
<1>2. span * i \in Int /\ span * (i + 1) = span * i + span  OBVIOUS
<1> HIDE DEF share
<1>3. TrainEnd(first, span, i) = SegStart(first, span, i) + share  BY DEF TrainEnd, share
<1> QED  BY <1>1, <1>2, <1>3 DEF SegStart, SegEnd

(***************************************************************************)
(* The folds of a study.                                                   *)
(***************************************************************************)
\* All folds are cut from one beginning, in segments of one length.
IsFold(f, first, span) ==
  /\ f.index \in Nat
  /\ f.trainStart = SegStart(first, span, f.index)
  /\ f.trainEnd = TrainEnd(first, span, f.index)
  /\ f.testStart = TestStart(first, span, f.index)
  /\ f.testEnd = SegEnd(first, span, f.index)
  /\ f.testStart < f.testEnd
  /\ f.tested \subseteq f.testStart .. f.testEnd

StudyInv == \E first, span \in Int : \A f \in study : IsFold(f, first, span)

\* The window of a fold is after the embargo, in a segment that runs forward.
LEMMA WindowBounds ==
  ASSUME NEW first \in Int, NEW span \in Int, NEW f, IsFold(f, first, span)
  PROVE  /\ span > 0
         /\ f.trainStart \in Int /\ f.trainEnd \in Int /\ f.testStart \in Int /\ f.testEnd \in Int
         /\ f.testStart = f.trainEnd + EmbargoBars * UnitsPerMinute
         /\ f.trainStart < f.testStart
         /\ EmbargoBars * UnitsPerMinute \in Nat \ {0}
<1>1. f.index \in Nat  BY DEF IsFold
<1>2. EmbargoBars * UnitsPerMinute \in Nat \ {0}  BY WalkForwardAssumption
<1>3. /\ f.trainStart \in Int /\ f.testEnd \in Int /\ f.trainEnd \in Int
      /\ span >= 0 => f.trainStart <= f.trainEnd
      /\ span <= 0 => f.testEnd <= f.trainEnd
  BY <1>1, TrainWithinSegment DEF IsFold
<1>4. f.testStart = f.trainEnd + EmbargoBars * UnitsPerMinute  BY DEF IsFold, TestStart
<1>5. f.testStart < f.testEnd  BY DEF IsFold
<1> QED  BY <1>2, <1>3, <1>4, <1>5

\* Folds cut from one beginning in equal segments do not touch.
LEMMA FoldsTestOnce ==
  ASSUME StudyInv
  PROVE  EachBarTestedOnce
<1>1. PICK first \in Int, span \in Int : \A f \in study : IsFold(f, first, span)  BY DEF StudyInv
<1>2. ASSUME NEW f \in study, NEW g \in study, f.index < g.index
      PROVE  f.tested \cap g.tested = {}
  <2>1. IsFold(f, first, span) /\ IsFold(g, first, span)  BY <1>1
  <2>2. span > 0 /\ f.testEnd \in Int /\ g.testStart \in Int /\ g.trainStart \in Int
        /\ f.testStart \in Int /\ g.testEnd \in Int /\ g.trainStart < g.testStart
    BY <2>1, WindowBounds
  <2>3. f.index \in Nat /\ g.index \in Nat
        /\ f.testEnd = SegEnd(first, span, f.index) /\ g.trainStart = SegStart(first, span, g.index)
    BY <2>1 DEF IsFold
  <2>4. span \in Nat /\ first \in Int  BY <1>1, <2>2
  <2>5. SegEnd(first, span, f.index) <= SegStart(first, span, g.index)
    BY <1>2, <2>3, <2>4, SegmentsFollow
  <2>6. f.testEnd <= g.trainStart  BY <2>3, <2>5
  <2>7. f.tested \subseteq f.testStart .. f.testEnd /\ g.tested \subseteq g.testStart .. g.testEnd
    BY <2>1 DEF IsFold
  <2> QED  BY <2>2, <2>6, <2>7
<1>3. ASSUME NEW f \in study, NEW x \in f.tested, NEW y \in f.trainStart .. f.trainEnd
      PROVE  x - y >= EmbargoBars * UnitsPerMinute
  <2>1. IsFold(f, first, span)  BY <1>1
  <2>2. f.trainEnd \in Int /\ f.trainStart \in Int /\ f.testStart \in Int /\ f.testEnd \in Int
        /\ f.testStart = f.trainEnd + EmbargoBars * UnitsPerMinute
        /\ EmbargoBars * UnitsPerMinute \in Nat
    BY <2>1, WindowBounds
  <2>3. x \in f.testStart .. f.testEnd  BY <2>1 DEF IsFold
  <2> QED  BY <2>2, <2>3
<1>4. \A f \in study : f.index \in Nat  BY <1>1 DEF IsFold
<1>5. ASSUME NEW f \in study, NEW g \in study, f.index # g.index
      PROVE  f.tested \cap g.tested = {}
  <2>1. CASE f.index < g.index  BY <1>2, <2>1
  <2>2. CASE g.index < f.index  BY <1>2, <2>2
  <2> QED  BY <1>4, <1>5, <2>1, <2>2
<1> QED  BY <1>3, <1>5 DEF EachBarTestedOnce

(***************************************************************************)
(* Frames: finite tables whose rows have an integer time stamp.            *)
(***************************************************************************)
Stamped(S) == IsFiniteSet(S) /\ \A r \in S : r.ts \in Int
Frame(f) == \E S : f \in Seq(S) /\ Stamped(S)

\* Fewer rows are stamped as well.
LEMMA SubsetsAreStamped ==
  ASSUME NEW S, Stamped(S), NEW T \in SUBSET S
  PROVE  Stamped(T)
  BY FS_Subset DEF Stamped

\* The values of a function on a finite set.
LEMMA ImagesAreFinite ==
  ASSUME NEW D, IsFiniteSet(D), NEW f, f = [x \in D |-> f[x]]
  PROVE  IsFiniteSet({f[x] : x \in D})
<1> DEFINE T == {f[x] : x \in D}
<1>1. f \in Surjection(D, T)  BY DEF Surjection
<1> QED  BY <1>1, FS_Surjection

\* A sequence of stamped rows is a frame.
LEMMA RowsAreStamped ==
  ASSUME NEW S, NEW f \in Seq(S), \A r \in S : r.ts \in Int
  PROVE  /\ Stamped(ToSet(f)) /\ Frame(f)
         /\ f = <<>> \/ (f[1].ts \in Int /\ f[Len(f)].ts \in Int)
         /\ \A i \in DOMAIN f : f[i].ts \in Int
<1>0. f \in [1 .. Len(f) -> S] /\ Len(f) \in Nat  OBVIOUS
<1>1. DOMAIN f = 1 .. Len(f) /\ Len(f) \in Nat  BY <1>0
<1>2. IsFiniteSet(DOMAIN f)  BY <1>1, FS_Interval
<1>3. IsFiniteSet({f[i] : i \in DOMAIN f})
  <2>1. f = [i \in 1 .. Len(f) |-> f[i]]  BY <1>0
  <2> QED  BY <1>1, <1>2, <2>1, ImagesAreFinite
<1>4. ToSet(f) = {f[i] : i \in DOMAIN f}  BY DEF ToSet
<1>5. \A i \in DOMAIN f : f[i] \in S  BY <1>1
<1>6. Stamped(ToSet(f))  BY <1>3, <1>4, <1>5 DEF Stamped
<1>7. f \in Seq(ToSet(f))  BY <1>1, <1>4
<1>8. f = <<>> \/ (1 \in DOMAIN f /\ Len(f) \in DOMAIN f)  BY <1>1
<1> QED  BY <1>5, <1>6, <1>7, <1>8 DEF Frame

\* And a frame has stamped rows.
LEMMA FramesAreStamped ==
  ASSUME NEW f, Frame(f)
  PROVE  /\ Stamped(ToSet(f))
         /\ f = <<>> \/ (f[1].ts \in Int /\ f[Len(f)].ts \in Int)
         /\ \A i \in DOMAIN f : f[i].ts \in Int
  BY RowsAreStamped DEF Frame, Stamped

\* Every arrangement of a finite set of rows.
LEMMA ArrangementsAreFrames ==
  ASSUME NEW S, Stamped(S), NEW f \in SetToSeqs(S)
  PROVE  Frame(f)
<1>1. Cardinality(S) \in Nat  BY FS_CardinalityType DEF Stamped
<1>2. f \in [1 .. Cardinality(S) -> S]  BY DEF SetToSeqs
<1>3. f \in Seq(S)  BY <1>1, <1>2
<1> QED  BY <1>3 DEF Frame

\* So every sorted form is a frame.
LEMMA SortsAreFrames ==
  ASSUME NEW S, Stamped(S), NEW f \in SortsOf(S)
  PROVE  Frame(f)
  BY ArrangementsAreFrames DEF SortsOf

\* What the loaders make of a source.
LEMMA ParsedAreFrames ==
  ASSUME NEW rows, Frame(rows), NEW f \in Parsed(rows)
  PROVE  Frame(f)
<1>1. Stamped(ToSet(rows))  BY FramesAreStamped
<1>2. \A S \in SUBSET ToSet(rows) : \A U \in UniquesOf(S) : Stamped(U)
  <2>1. \A S \in SUBSET ToSet(rows) : \A U \in UniquesOf(S) : U \in SUBSET ToSet(rows)
    BY DEF UniquesOf
  <2> QED  BY <1>1, <2>1, SubsetsAreStamped
<1>3. Timed(rows) \in SUBSET ToSet(rows)  BY DEF Timed, ToSet
<1>4. CASE loader = CME
  <2>1. f \in Continuous(rows)  BY <1>4, MarketAssumption DEF Parsed
  <2> DEFINE kept == {rows[i] : i \in OfFamily(rows)}
             rolls == {front \in [DaysOf(kept) -> {r.sym : r \in kept}] :
                        \A d \in DaysOf(kept) : front[d] \in FrontMonths(rows, d)}
             joined(lead) == {r \in kept : r.sym = lead[DayOf(r.ts)]}
  <2>2. PICK front \in rolls : f \in UNION {SortsOf(U) : U \in UniquesOf(joined(front))}
    BY <2>1 DEF Continuous
  <2>3. PICK U \in UniquesOf(joined(front)) : f \in SortsOf(U)  BY <2>2
  <2>4. joined(front) \in SUBSET ToSet(rows)  BY DEF OfFamily, ToSet
  <2>5. Stamped(U)  BY <1>2, <2>3, <2>4
  <2> QED  BY <2>3, <2>5, SortsAreFrames
<1>5. CASE loader # CME /\ loader = OHLCV
  <2>1. f \in Normalized(rows)  BY <1>5 DEF Parsed
  <2>2. PICK U \in UniquesOf(Timed(rows)) : f \in SetToSeqs(U)  BY <2>1 DEF Normalized
  <2>3. Stamped(U)  BY <1>2, <1>3, <2>2
  <2> QED  BY <2>2, <2>3, ArrangementsAreFrames
<1>6. CASE loader # CME /\ loader # OHLCV
  <2>1. f \in SortsOf(Timed(rows))  BY <1>6 DEF Parsed, TicksOf
  <2>2. Stamped(Timed(rows))  BY <1>1, <1>3, SubsetsAreStamped
  <2> QED  BY <2>1, <2>2, SortsAreFrames
<1> QED  BY <1>4, <1>5, <1>6

\* A cut of a frame is a frame.
LEMMA CutsAreFrames ==
  ASSUME NEW f, Frame(f), NEW days, NEW g \in Cuts(f, days)
  PROVE  Frame(g)
<1>1. CASE loader = CME
  <2>1. OfDays(f, days) \in SUBSET ToSet(f) /\ Stamped(ToSet(f))
    BY FramesAreStamped DEF OfDays
  <2>2. Stamped(OfDays(f, days))  BY <2>1, SubsetsAreStamped
  <2> QED  BY <1>1, <2>2, SortsAreFrames DEF Cuts
<1>2. CASE loader # CME  BY <1>2 DEF Cuts
<1> QED  BY <1>1, <1>2

\* Resampled tables are frames as well: their stamps are labels.
LEMMA ResampledAreFrames ==
  ASSUME NEW f, IsFiniteSet(DOMAIN f), \A i \in DOMAIN f : f[i].ts \in Int,
         NEW tf \in Nat \ {0}, NEW g \in Resample(f, tf)
  PROVE  Frame(g)
<1> DEFINE stamps == [i \in DOMAIN f |-> f[i].ts]
           labelled == [ts \in TimesOf(f) |-> Label(ts, tf)]
           labels == {Label(ts, tf) : ts \in TimesOf(f)}
           bucketed == [label \in labels |-> Bucket(f, label, tf)]
           buckets == {Bucket(f, label, tf) : label \in labels}
<1>1. IsFiniteSet(TimesOf(f))
  <2>1. IsFiniteSet({stamps[i] : i \in DOMAIN f})  BY ImagesAreFinite
  <2>2. TimesOf(f) = {stamps[i] : i \in DOMAIN f}  BY DEF TimesOf
  <2> QED  BY <2>1, <2>2
<1>2. IsFiniteSet(labels)
  <2>1. IsFiniteSet({labelled[ts] : ts \in TimesOf(f)})  BY <1>1, ImagesAreFinite
  <2>2. labels = {labelled[ts] : ts \in TimesOf(f)}  OBVIOUS
  <2> QED  BY <2>1, <2>2
<1>3. labels \subseteq Int  BY DEF TimesOf, Label
<1> HIDE DEF labels
<1>4. IsFiniteSet(buckets)
  <2>1. IsFiniteSet({bucketed[label] : label \in labels})  BY <1>2, ImagesAreFinite
  <2>2. buckets = {bucketed[label] : label \in labels}  OBVIOUS
  <2> QED  BY <2>1, <2>2
<1>5. \A r \in buckets : r.ts \in Int
  <2>1. \A label \in labels : Bucket(f, label, tf).ts = label  BY DEF Bucket
  <2> QED  BY <1>3, <2>1
<1>6. g \in SortsOf(buckets)  BY DEF Resample, labels
<1> HIDE DEF buckets
<1> QED  BY <1>4, <1>5, <1>6, SortsAreFrames DEF Stamped

\* So are the bars of a study.
LEMMA StudyBarsAreFrames ==
  ASSUME Frame(answer.rows), NEW tf \in Timeframes, NEW bars \in StudyBars(tf)
  PROVE  Frame(bars)
<1> DEFINE f == answer.rows
           ticks == [i \in DOMAIN f |->
                      [ts |-> f[i].ts, open |-> f[i].mid, high |-> f[i].mid, low |-> f[i].mid,
                       close |-> f[i].mid, volume |-> f[i].volume]]
<1>1. tf \in Nat \ {0}  BY MarketAssumption
<1>2. IsFiniteSet(DOMAIN f) /\ \A i \in DOMAIN f : f[i].ts \in Int
  <2>1. PICK S : f \in Seq(S)  BY DEF Frame
  <2>2. DOMAIN f = 1 .. Len(f) /\ Len(f) \in Nat  BY <2>1
  <2>3. IsFiniteSet(DOMAIN f)  BY <2>2, FS_Interval
  <2>4. \A i \in DOMAIN f : f[i].ts \in Int  BY FramesAreStamped
  <2> QED  BY <2>3, <2>4
<1>3. CASE loader = L2
  <2>1. bars \in Resample(ticks, tf)  BY <1>3 DEF StudyBars, BarsFromTicks
  <2>2. DOMAIN ticks = DOMAIN f /\ \A i \in DOMAIN ticks : ticks[i].ts = f[i].ts  OBVIOUS
  <2>3. IsFiniteSet(DOMAIN ticks) /\ \A i \in DOMAIN ticks : ticks[i].ts \in Int  BY <1>2, <2>2
  <2> HIDE DEF ticks, f
  <2> QED  BY <1>1, <2>1, <2>3, ResampledAreFrames
<1>4. CASE loader # L2
  <2>1. bars = f \/ bars \in Resample(f, tf)  BY <1>4 DEF StudyBars
  <2> QED  BY <1>1, <1>2, <2>1, ResampledAreFrames
<1> QED  BY <1>3, <1>4

\* Whatever is studied, its folds are cut from one beginning in equal segments.
LEMMA FoldsAreFolds ==
  ASSUME NEW bars, Frame(bars), NEW n \in Nat \ {0}
  PROVE  \E first, span \in Int : \A f \in Folds(bars, n) : IsFold(f, first, span)
<1>1. CASE bars = <<>>  BY <1>1 DEF Folds
<1>2. CASE bars # <<>>
  <2> DEFINE first == Moment(bars[1])
             span  == FoldSpan(bars, n)
  <2>1. bars[1].ts \in Int /\ bars[Len(bars)].ts \in Int  BY <1>2, FramesAreStamped
  <2>2. first \in Int /\ Moment(bars[Len(bars)]) \in Int
    BY <2>1, WalkForwardAssumption DEF Moment
  <2>3. span \in Int  BY <2>2 DEF FoldSpan, DivideAndRound
  <2>4. ASSUME NEW f \in Folds(bars, n) PROVE IsFold(f, first, span)
    <3>1. PICK i \in 0 .. n - 1 : f = Fold(bars, span, i)  BY <1>2 DEF Folds
    <3>2. f.testStart < f.testEnd  BY <1>2 DEF Folds
    <3>3. f.tested \subseteq f.testStart .. f.testEnd  BY <3>1 DEF Fold, TestBars
    <3> HIDE DEF span
    <3> QED  BY <3>1, <3>2, <3>3 DEF IsFold, Fold
  <2> QED  BY <2>2, <2>3, <2>4
<1> QED  BY <1>1, <1>2

(***************************************************************************)
(* The invariant.                                                          *)
(***************************************************************************)
Offered == UNION {FeedRows[source][loader] : source \in Sources}
Source == Seq(Offered)

CallInv ==
  /\ call = [phase |-> call.phase, source |-> call.source, days |-> call.days,
             todo |-> call.todo, useCache |-> call.useCache, refresh |-> call.refresh,
             parsed |-> call.parsed, got |-> call.got]
  /\ call.todo \subseteq Keys
  /\ Frame(call.parsed) /\ Frame(call.got)
  /\ call.phase \in {"idle", "read", "write"}
  /\ call.phase # "idle" => call.source \in Sources

TypeInv ==
  /\ loader \in Loaders
  /\ feed \in [Sources -> [Keys -> Source]] /\ written \in [Keys -> Source]
  /\ DOMAIN maker = Keys
  /\ DOMAIN cache = Keys /\ \A k \in Keys : Frame(cache[k].rows)
  /\ CallInv
  /\ Frame(answer.rows)

\* A whole file holds one parsing of one version of its source, and so does
\* the frame on its way to it.
CacheInv ==
  /\ \A k \in Keys : cache[k].state = "whole" => cache[k].rows \in Parsed(written[k])
  /\ call.phase = "write" =>
       \A k \in Keys : Current(k) => call.parsed \in Parsed(written[k])

\* A series has one file: until it has been read nothing has been gathered, and
\* then all of it.
SeriesInv ==
  loader # L2 =>
    /\ call.phase = "write" => call.todo = {0}
    /\ call.phase # "idle" => call.todo \in {{}, {0}} /\ ~answer.given
    /\ call.phase # "idle" /\ call.todo = {0} => call.got = <<>>
    /\ call.phase # "idle" /\ call.todo = {} =>
         cache[0].state = "whole" /\ call.got = cache[0].rows
    /\ answer.given =>
         cache[0].state = "whole" /\ answer.rows \in Cuts(cache[0].rows, answer.days)

IInv == TypeInv /\ CacheInv /\ SeriesInv /\ StudyInv

LEMMA EmptyIsFrame == Frame(<<>>)
<1>1. <<>> \in Seq({}) /\ Stamped({})  BY FS_EmptySet DEF Stamped
<1> QED  BY <1>1 DEF Frame

\* Two frames joined are a frame.
LEMMA JoinedAreFrames ==
  ASSUME NEW f, Frame(f), NEW g, Frame(g)
  PROVE  Frame(f \o g)
<1>1. PICK S : f \in Seq(S) /\ Stamped(S)  BY DEF Frame
<1>2. PICK T : g \in Seq(T) /\ Stamped(T)  BY DEF Frame
<1>3. f \in Seq(S \cup T) /\ g \in Seq(S \cup T)  BY <1>1, <1>2
<1>4. Stamped(S \cup T)  BY <1>1, <1>2, FS_Union DEF Stamped
<1> QED  BY <1>3, <1>4 DEF Frame

\* The rows of a source are a frame.
LEMMA SourcesAreFrames ==
  ASSUME loader \in Loaders, NEW rows \in Source
  PROVE  Frame(rows)
<1>1. \A r \in Offered : r.ts \in Int  BY MarketAssumption DEF Offered
<1> QED  BY <1>1, RowsAreStamped DEF Source

LEMMA InitIInv == Init => IInv
<1> SUFFICES ASSUME Init PROVE IInv  OBVIOUS
<1> USE EmptyIsFrame
<1>1. TypeInv  BY DEF Init, TypeInv, CallInv, Source, Idle, Absent, NoAnswer
<1>2. CacheInv  BY DEF Init, CacheInv, Idle, Absent
<1>3. SeriesInv  BY DEF Init, SeriesInv, Idle, NoAnswer
<1>4. StudyInv  BY DEF Init, StudyInv
<1> QED  BY <1>1, <1>2, <1>3, <1>4 DEF IInv

-----------------------------------------------------------------------------
\* A step that leaves the loader and the answer alone leaves a parsing a
\* parsing, and a cut a cut.
LEMMA SameLoader ==
  ASSUME loader' = loader
  PROVE  /\ \A rows : Parsed(rows)' = Parsed(rows)
         /\ \A f, days : Cuts(f, days)' = Cuts(f, days)
         /\ Source' = Source
  BY DEF Parsed, Cuts, Source, Offered

\* The source grows: the caches and their history do not.
LEMMA GrowStep ==
  ASSUME IInv, SourceGrows
  PROVE  IInv'
<1>1. loader' = loader /\ cache' = cache /\ written' = written /\ call' = call
      /\ maker' = maker /\ answer' = answer /\ study' = study
  BY DEF SourceGrows
<1>2. feed' \in [Sources -> [Keys -> Source]]
  <2>1. \E source \in Sources : \E r \in FeedRows[source][loader] : \E k :
          feed' = [feed EXCEPT ![source][k] = Append(@, r)]
    BY DEF SourceGrows
  <2> PICK source \in Sources : \E r \in FeedRows[source][loader] : \E k :
        feed' = [feed EXCEPT ![source][k] = Append(@, r)]
    BY <2>1
  <2> PICK r \in FeedRows[source][loader] : \E k :
        feed' = [feed EXCEPT ![source][k] = Append(@, r)]
    OBVIOUS
  <2> PICK k : feed' = [feed EXCEPT ![source][k] = Append(@, r)]  OBVIOUS
  <2>2. feed \in [Sources -> [Keys -> Source]] /\ r \in Offered  BY DEF IInv, TypeInv, Offered
  <2>3. CASE k \in Keys
    <3>1. Append(feed[source][k], r) \in Source  BY <2>2, <2>3 DEF Source
    <3> QED  BY <2>2, <3>1
  <2>4. CASE k \notin Keys  BY <2>2, <2>4
  <2> QED  BY <2>3, <2>4
<1>3. TypeInv'  BY <1>1, <1>2, SameLoader DEF IInv, TypeInv, CallInv
<1>4. CacheInv'  BY <1>1, SameLoader DEF IInv, CacheInv, Current
<1>5. SeriesInv'  BY <1>1, SameLoader DEF IInv, SeriesInv
<1>6. StudyInv'  BY <1>1 DEF IInv, StudyInv
<1> QED  BY <1>3, <1>4, <1>5, <1>6 DEF IInv

\* A call begins with nothing gathered and no answer.
LEMMA CallStep ==
  ASSUME IInv, NEW source \in Sources, NEW days, NEW useCache, NEW refresh,
         Calls(Begin(source, days, useCache, refresh)), loader = L2 => days \subseteq Keys
  PROVE  IInv'
<1> USE EmptyIsFrame
<1>1. loader' = loader /\ cache' = cache /\ written' = written /\ feed' = feed
      /\ maker' = maker /\ answer' = NoAnswer /\ study' = {}
  BY DEF Calls
<1>2. PICK todo : todo = FilesOf(days)  OBVIOUS
<1>0. call' = [phase |-> "read", source |-> source, days |-> days, todo |-> todo,
               useCache |-> useCache, refresh |-> refresh, parsed |-> <<>>, got |-> <<>>]
  BY <1>2 DEF Calls, Begin
<1>3. call'.phase = "read" /\ call'.todo = todo /\ call'.parsed = <<>> /\ call'.got = <<>>
      /\ call'.source = source /\ todo \subseteq Keys /\ (loader # L2 => todo = {0})
  BY <1>0, <1>2 DEF FilesOf, Keys
<1>4. TypeInv'
  <2>1. CallInv'  BY <1>0, <1>3 DEF CallInv
  <2> QED  BY <2>1, <1>1, <1>3, SameLoader DEF IInv, TypeInv, NoAnswer
<1>5. CacheInv'  BY <1>1, <1>3, SameLoader DEF IInv, CacheInv
<1>6. SeriesInv'  BY <1>1, <1>3 DEF SeriesInv, NoAnswer
<1>7. StudyInv'  BY <1>1 DEF StudyInv
<1> QED  BY <1>4, <1>5, <1>6, <1>7 DEF IInv

\* A load that raises, or dies while it reads or writes, leaves what was there.
LEMMA AbandonStep ==
  ASSUME IInv, call' = Idle, call.phase # "idle",
         UNCHANGED <<loader, feed, cache, written, maker, answer, study>>
  PROVE  IInv'
<1> USE EmptyIsFrame
<1>1. call'.phase = "idle" /\ call'.todo = {} /\ call'.parsed = <<>> /\ call'.got = <<>>
  BY DEF Idle
<1>2. TypeInv'
  <2>1. CallInv'  BY <1>1 DEF CallInv, Idle
  <2> QED  BY <2>1, <1>1, SameLoader DEF IInv, TypeInv
<1>3. CacheInv'  BY <1>1, SameLoader DEF IInv, CacheInv
<1>4. SeriesInv'  BY <1>1, SameLoader DEF IInv, SeriesInv
<1>5. StudyInv'  BY DEF IInv, StudyInv
<1> QED  BY <1>2, <1>3, <1>4, <1>5 DEF IInv

\* The rows of a file are taken: those of the cache, or those just written.
LEMMA TakeStep ==
  ASSUME IInv, NEW k \in Keys, k \in call.todo, call.phase \in {"read", "write"},
         NEW rows, Frame(rows), call' = Take(call, k, rows),
         UNCHANGED <<loader, feed, written, maker, answer, study>>,
         DOMAIN cache' = Keys, \A j \in Keys \ {k} : cache'[j] = cache[j],
         cache'[k].state = "whole", cache'[k].rows = rows, rows \in Parsed(written[k])
  PROVE  IInv'
<1> USE EmptyIsFrame
<1>1. /\ call'.phase = "read" /\ call'.parsed = <<>> /\ call'.got = call.got \o rows
      /\ call'.todo = call.todo \ {k} /\ call'.days = call.days
      /\ call'.source = call.source
      /\ call' = [phase |-> call'.phase, source |-> call'.source, days |-> call'.days,
                  todo |-> call'.todo, useCache |-> call'.useCache, refresh |-> call'.refresh,
                  parsed |-> call'.parsed, got |-> call'.got]
  BY DEF IInv, TypeInv, CallInv, Take
<1>2. Frame(call'.got)  BY <1>1, JoinedAreFrames DEF IInv, TypeInv, CallInv
<1>3. TypeInv'
  <2>1. CallInv'  BY <1>1, <1>2 DEF IInv, TypeInv, CallInv
  <2>2. \A j \in Keys : Frame(cache'[j].rows)  BY DEF IInv, TypeInv
  <2> QED  BY <2>1, <2>2, SameLoader DEF IInv, TypeInv
<1>4. CacheInv'  BY <1>1, SameLoader DEF IInv, CacheInv
<1>5. SeriesInv'
  <2> SUFFICES ASSUME loader # L2 PROVE SeriesInv'  BY DEF SeriesInv
  <2>1. k = 0 /\ call.todo = {0} /\ call.got = <<>> /\ ~answer.given
    BY DEF IInv, SeriesInv
  <2>2. call'.todo = {}  BY <1>1, <2>1
  <2>3. <<>> \o rows = rows  BY DEF Frame
  <2> QED  BY <1>1, <2>1, <2>2, <2>3 DEF SeriesInv
<1>6. StudyInv'  BY DEF IInv, StudyInv
<1> QED  BY <1>3, <1>4, <1>5, <1>6 DEF IInv

\* A cache hit takes what the file holds.
LEMMA HitStep ==
  ASSUME IInv, NEW k \in Keys, CacheHit(k)
  PROVE  IInv'
<1>1. UNCHANGED <<loader, feed, cache, written, maker, answer, study>>  BY DEF CacheHit
<1>2. call' = Take(call, k, cache[k].rows)  BY DEF CacheHit
<1>3. call.phase = "read" /\ k \in call.todo /\ cache[k].state = "whole"
  BY DEF CacheHit, Reading, Current
<1>4. Frame(cache[k].rows) /\ DOMAIN cache = Keys  BY DEF IInv, TypeInv
<1>5. cache[k].rows \in Parsed(written[k])  BY <1>3 DEF IInv, CacheInv
<1> QED  BY <1>1, <1>2, <1>3, <1>4, <1>5, TakeStep

\* A whole file is what the frame on its way to it was.
LEMMA WriteStep ==
  ASSUME IInv, NEW k \in Keys, WriteDone(k)
  PROVE  IInv'
<1>1. UNCHANGED <<loader, feed, written, maker, answer, study>>
      /\ call' = Take(call, k, call.parsed) /\ call.phase = "write" /\ Current(k)
      /\ cache' = [cache EXCEPT ![k] = Whole(call.parsed)]
  BY DEF WriteDone, Writes
<1>2. k \in call.todo  BY <1>1 DEF Current
<1>3. Frame(call.parsed) /\ DOMAIN cache = Keys  BY DEF IInv, TypeInv, CallInv
<1>4. call.parsed \in Parsed(written[k])  BY <1>1 DEF IInv, CacheInv
<1>5. DOMAIN cache' = Keys /\ (\A j \in Keys \ {k} : cache'[j] = cache[j])
      /\ cache'[k].state = "whole" /\ cache'[k].rows = call.parsed
  BY <1>1, <1>3 DEF Whole
<1> QED  BY <1>1, <1>2, <1>3, <1>4, <1>5, TakeStep

\* Parsing tears the file and remembers what it read.
LEMMA ParseStep ==
  ASSUME IInv, NEW k \in Keys, Parse(k)
  PROVE  IInv'
<1> USE EmptyIsFrame
<1>1. /\ UNCHANGED <<loader, feed, answer, study>>
      /\ cache' = [cache EXCEPT ![k] = Torn]
      /\ written' = [written EXCEPT ![k] = feed[call.source][k]]
      /\ maker' = [maker EXCEPT ![k] = call.source]
      /\ call.phase = "read" /\ Current(k)
  BY DEF Parse, Reading
<1>2. PICK rows \in Parsed(feed[call.source][k]) : call' = [call EXCEPT !.phase = "write", !.parsed = rows]
  BY DEF Parse
<1>3. feed[call.source][k] \in Source /\ DOMAIN cache = Keys /\ DOMAIN written = Keys
      /\ loader \in Loaders /\ written \in [Keys -> Source] /\ call.source \in Sources
  BY <1>1 DEF IInv, TypeInv, CallInv
<1>4. Frame(rows)  BY <1>3, SourcesAreFrames, ParsedAreFrames
<1>5. /\ call'.phase = "write" /\ call'.parsed = rows /\ call'.got = call.got
      /\ call'.todo = call.todo /\ call'.days = call.days /\ call'.source = call.source
      /\ call' = [phase |-> call'.phase, source |-> call'.source, days |-> call'.days,
                  todo |-> call'.todo, useCache |-> call'.useCache, refresh |-> call'.refresh,
                  parsed |-> call'.parsed, got |-> call'.got]
  BY <1>2 DEF IInv, TypeInv, CallInv
<1>6. cache'[k] = Torn /\ written'[k] = feed[call.source][k]
      /\ \A j \in Keys \ {k} : cache'[j] = cache[j] /\ written'[j] = written[j]
  BY <1>1, <1>3
<1>7. TypeInv'
  <2>1. CallInv'  BY <1>3, <1>4, <1>5 DEF IInv, TypeInv, CallInv
  <2>2. \A j \in Keys : Frame(cache'[j].rows)  BY <1>6 DEF IInv, TypeInv, Torn
  <2>3. DOMAIN cache' = Keys /\ written' \in [Keys -> Source] /\ DOMAIN maker' = Keys
    BY <1>1, <1>3 DEF IInv, TypeInv
  <2> QED  BY <1>1, <2>1, <2>2, <2>3, SameLoader DEF IInv, TypeInv
<1>8. CacheInv'
  <2>1. \A j \in Keys : cache'[j].state = "whole" => cache'[j].rows \in Parsed(written'[j])
    BY <1>6 DEF IInv, CacheInv, Torn
  <2>2. \A j \in Keys : Current(j)' => j = k
    <3>1. call.todo \subseteq Keys  BY DEF IInv, TypeInv, CallInv
    <3>2. Keys \subseteq Int  BY MarketAssumption DEF Keys
    <3> QED  BY <1>1, <1>5, <3>1, <3>2 DEF Current
  <2> QED  BY <1>1, <1>2, <1>5, <1>6, <2>1, <2>2, SameLoader DEF CacheInv
<1>9. SeriesInv'
  <2> SUFFICES ASSUME loader # L2 PROVE SeriesInv'  BY <1>1 DEF SeriesInv
  <2>1. call.todo = {0} /\ call.got = <<>> /\ ~answer.given
    BY <1>1 DEF IInv, SeriesInv, Current
  <2> QED  BY <1>1, <1>5, <2>1 DEF SeriesInv
<1>10. StudyInv'  BY <1>1 DEF IInv, StudyInv
<1> QED  BY <1>7, <1>8, <1>9, <1>10 DEF IInv

\* An answer is a frame, and for a series a cut of its file.
LEMMA AnswerStep ==
  ASSUME IInv, Answer
  PROVE  IInv'
<1> USE EmptyIsFrame
<1>1. UNCHANGED <<loader, feed, cache, written, maker, study>> /\ call' = Idle
      /\ call.phase = "read" /\ call.todo = {}
  BY DEF Answer
<1>2. PICK rows \in IF loader = L2 THEN SortsOf(ToSet(call.got)) ELSE Cuts(call.got, call.days) :
        answer' = [given |-> TRUE, source |-> call.source, trusted |-> Trusts,
                   days |-> call.days, rows |-> rows]
  BY DEF Answer
<1>3. Frame(rows)
  <2>1. Frame(call.got)  BY DEF IInv, TypeInv, CallInv
  <2>2. CASE loader = L2
    <3>1. Stamped(ToSet(call.got))  BY <2>1, FramesAreStamped
    <3> QED  BY <1>2, <2>2, <3>1, SortsAreFrames
  <2>3. CASE loader # L2  BY <1>2, <2>1, <2>3, CutsAreFrames
  <2> QED  BY <2>2, <2>3
<1>4. call'.phase = "idle" /\ call'.todo = {} /\ call'.parsed = <<>> /\ call'.got = <<>>
  BY <1>1 DEF Idle
<1>5. TypeInv'
  <2>1. CallInv'  BY <1>1, <1>4 DEF CallInv, Idle
  <2> QED  BY <1>1, <1>2, <1>3, <2>1, SameLoader DEF IInv, TypeInv
<1>6. CacheInv'  BY <1>1, <1>4, SameLoader DEF IInv, CacheInv
<1>7. SeriesInv'
  <2> SUFFICES ASSUME loader # L2 PROVE SeriesInv'  BY <1>1 DEF SeriesInv
  <2>1. cache[0].state = "whole" /\ call.got = cache[0].rows  BY <1>1 DEF IInv, SeriesInv
  <2>2. answer'.rows \in Cuts(cache[0].rows, answer'.days)  BY <1>2, <2>1
  <2> QED  BY <1>1, <1>4, <2>1, <2>2, SameLoader DEF SeriesInv
<1>8. StudyInv'  BY <1>1 DEF IInv, StudyInv
<1> QED  BY <1>5, <1>6, <1>7, <1>8 DEF IInv

\* A study cuts the bars of the answer.
LEMMA StudyStep ==
  ASSUME IInv, Study
  PROVE  IInv'
<1>1. UNCHANGED <<loader, feed, cache, written, maker, call, answer>>  BY DEF Study
<1>2. PICK tf \in Timeframes, n \in FoldCounts : \E bars \in StudyBars(tf) : study' = Folds(bars, n)
  BY DEF Study
<1> PICK bars \in StudyBars(tf) : study' = Folds(bars, n)  BY <1>2
<1>3. Frame(bars)  BY StudyBarsAreFrames DEF IInv, TypeInv
<1>4. StudyInv'
  <2>1. n \in Nat \ {0}  BY MarketAssumption
  <2> QED  BY <1>3, <2>1, FoldsAreFolds DEF StudyInv
<1>5. TypeInv'  BY <1>1, SameLoader DEF IInv, TypeInv, CallInv
<1>6. CacheInv'  BY <1>1, SameLoader DEF IInv, CacheInv, Current
<1>7. SeriesInv'  BY <1>1, SameLoader DEF IInv, SeriesInv
<1> QED  BY <1>4, <1>5, <1>6, <1>7 DEF IInv

LEMMA StepIInv == IInv /\ [MarketNext]_marketVars => IInv'
<1> SUFFICES ASSUME IInv, [MarketNext]_marketVars PROVE IInv'  OBVIOUS
<1> USE DEF Keys
<1>1. CASE SourceGrows  BY <1>1, GrowStep
<1>2. CASE LoadSeries
  <2>1. PICK source \in Sources : \E days, useCache, refresh : Calls(Begin(source, days, useCache, refresh))
    BY <1>2 DEF LoadSeries
  <2>2. PICK days, useCache, refresh : Calls(Begin(source, days, useCache, refresh))  BY <2>1
  <2>3. loader # L2  BY <1>2, MarketAssumption DEF LoadSeries
  <2> QED  BY <2>2, <2>3, CallStep
<1>3. CASE LoadDay
  <2> PICK source \in Sources, d \in Days :
        \E useCache, refresh : Calls(Begin(source, {d}, useCache, refresh))
    BY <1>3 DEF LoadDay
  <2>1. PICK useCache, refresh : Calls(Begin(source, {d}, useCache, refresh))  OBVIOUS
  <2> QED  BY <2>1, CallStep
<1>4. CASE LoadRange
  <2> PICK source \in Sources, range \in DayRanges : \E useCache :
        Calls(Begin(source, {d \in range : feed[source][d] # <<>>}, useCache, FALSE))
    BY <1>4 DEF LoadRange
  <2>1. PICK days : days = {d \in range : feed[source][d] # <<>>}  OBVIOUS
  <2>2. PICK useCache : Calls(Begin(source, days, useCache, FALSE))  BY <2>1
  <2>3. days \subseteq Keys  BY <2>1 DEF DayRanges
  <2> QED  BY <2>2, <2>3, CallStep
<1>5. ASSUME NEW k \in Keys, CacheHit(k) PROVE IInv'  BY <1>5, HitStep
<1>6. ASSUME NEW k \in Keys, Raises(k) PROVE IInv'
  BY <1>6, AbandonStep DEF Raises, Reading
<1>7. ASSUME NEW k \in Keys, Parse(k) PROVE IInv'  BY <1>7, ParseStep
<1>8. ASSUME NEW k \in Keys, WriteDone(k) PROVE IInv'  BY <1>8, WriteStep
<1>9. CASE Dies  BY <1>9, AbandonStep DEF Dies
<1>10. CASE Answer  BY <1>10, AnswerStep
<1>11. CASE Study  BY <1>11, StudyStep
<1>12. CASE UNCHANGED marketVars
  <2>1. UNCHANGED <<loader, feed, cache, written, maker, call, answer, study>>  BY <1>12 DEF marketVars
  <2>2. TypeInv'  BY <2>1, SameLoader DEF IInv, TypeInv, CallInv
  <2>3. CacheInv'  BY <2>1, SameLoader DEF IInv, CacheInv, Current
  <2>4. SeriesInv'  BY <2>1, SameLoader DEF IInv, SeriesInv
  <2>5. StudyInv'  BY <2>1 DEF IInv, StudyInv
  <2> QED  BY <2>2, <2>3, <2>4, <2>5 DEF IInv
<1> QED
  BY <1>1, <1>2, <1>3, <1>4, <1>5, <1>6, <1>7, <1>8, <1>9, <1>10, <1>11, <1>12 DEF MarketNext

-----------------------------------------------------------------------------
\* The invariant: frames stay frames, files hold one version each, and a study
\* is cut in equal segments.
THEOREM MarketInvariant == MarketSpec => []IInv
<1> QED  BY InitIInv, StepIInv, PTL DEF MarketSpec

\* A walk-forward study, whatever bars were loaded and however many folds it is
\* cut in, tests a moment once and keeps the embargo after what it may train on.
THEOREM StudiesTestOnce == MarketSpec => []EachBarTestedOnce
<1>1. IInv => EachBarTestedOnce  BY FoldsTestOnce DEF IInv
<1> QED  BY <1>1, MarketInvariant, PTL

\* A series that was loaded is one version of a source, for the dates asked.
LEMMA SeriesAnswer ==
  ASSUME IInv, loader # L2, answer.given
  PROVE  \E f \in Parsed(written[0]) : answer.rows \in Cuts(f, answer.days)
<1>1. cache[0].state = "whole" /\ answer.rows \in Cuts(cache[0].rows, answer.days)
  BY DEF IInv, SeriesInv
<1>2. cache[0].rows \in Parsed(written[0])  BY <1>1 DEF IInv, CacheInv, Keys
<1> QED  BY <1>1, <1>2

\* An arrangement of a finite set runs through all of it.
LEMMA ArrangementsCover ==
  ASSUME NEW S, IsFiniteSet(S), NEW f \in SetToSeqs(S)
  PROVE  /\ Cardinality(S) \in Nat /\ f \in [1 .. Cardinality(S) -> S]
         /\ f \in Seq(S) /\ Len(f) = Cardinality(S)
         /\ ToSet(f) = S
         /\ \A i, j \in 1 .. Len(f) : i # j => f[i] # f[j]
<1> DEFINE n == Cardinality(S)
<1>1. n \in Nat  BY FS_CardinalityType
<1>2. f \in [1 .. n -> S] /\ \A i, j \in 1 .. n : i # j => f[i] # f[j]  BY DEF SetToSeqs
<1>3. f \in Injection(1 .. n, S)  BY <1>2 DEF Injection, IsInjective
<1>4. Cardinality(1 .. n) = n  BY <1>1, FS_Interval
<1> HIDE DEF n
<1>5. f \in Surjection(1 .. n, S)  BY <1>3, <1>4, FS_Injection DEF n
<1>6. ToSet(f) = S  BY <1>2, <1>5 DEF Surjection, ToSet
<1> QED  BY <1>1, <1>2, <1>6 DEF n

\* And whatever runs through a set once is an arrangement of it.
LEMMA CoversAreArrangements ==
  ASSUME NEW S, NEW n \in Nat, NEW f \in [1 .. n -> S],
         \A i, j \in 1 .. n : i # j => f[i] # f[j],
         \A r \in S : \E i \in 1 .. n : f[i] = r
  PROVE  f \in SetToSeqs(S)
<1>1. f \in Bijection(1 .. n, S)  BY DEF Bijection, Injection, Surjection, IsInjective
<1>2. ExistsBijection(1 .. n, S)  BY <1>1 DEF ExistsBijection
<1>3. Cardinality(S) = n  BY <1>2, FS_CountingElements
<1> QED  BY <1>3 DEF SetToSeqs

\* A set of rows that is not empty has a latest.
LEMMA LatestRow ==
  ASSUME NEW S, Stamped(S)
  PROVE  S # {} => \E r \in S : \A s \in S : s.ts <= r.ts
<1> DEFINE T == {s \in SUBSET S : s # {} => \E r \in s : \A q \in s : q.ts <= r.ts}
<1>1. {} \in T  OBVIOUS
<1>2. ASSUME NEW s \in SUBSET S, NEW x \in S, s \in T, x \notin s PROVE s \cup {x} \in T
  <2>1. CASE s = {}  BY <2>1 DEF Stamped
  <2>2. CASE s # {}
    <3>1. PICK r \in s : \A q \in s : q.ts <= r.ts  BY <1>2, <2>2
    <3>2. r.ts \in Int /\ x.ts \in Int /\ \A q \in s : q.ts \in Int  BY DEF Stamped
    <3>3. CASE x.ts <= r.ts  BY <3>1, <3>3
    <3>4. CASE r.ts <= x.ts
      <4>1. \A q \in s \cup {x} : q.ts <= x.ts  BY <3>1, <3>2, <3>4
      <4> QED  BY <4>1
    <3> QED  BY <3>2, <3>3, <3>4
  <2> QED  BY <2>1, <2>2
<1> HIDE DEF T
<1>3. S \in T  BY <1>1, <1>2, FiniteSetsGrow DEF Stamped
<1> QED  BY <1>3 DEF T

\* Every finite set of rows can be sorted.
LEMMA SortsExist ==
  ASSUME NEW S, Stamped(S)
  PROVE  SortsOf(S) # {}
<1> DEFINE L == {n \in Nat : \A s \in SUBSET S : Cardinality(s) = n => SortsOf(s) # {}}
<1>0. \A s \in SUBSET S : IsFiniteSet(s) /\ Stamped(s)  BY FS_Subset DEF Stamped
<1>1. 0 \in L
  <2>1. ASSUME NEW s \in SUBSET S, Cardinality(s) = 0 PROVE SortsOf(s) # {}
    <3>1. s = {}  BY <1>0, <2>1, FS_EmptySet
    <3> DEFINE e == [i \in 1 .. 0 |-> 0]
    <3>2. e \in [1 .. 0 -> s] /\ DOMAIN e = {}  OBVIOUS
    <3> HIDE DEF e
    <3>3. e \in SetToSeqs(s)  BY <3>1, <3>2, CoversAreArrangements
    <3>4. e \in SortsOf(s)  BY <3>2, <3>3 DEF SortsOf, Ordered
    <3> QED  BY <3>4
  <2> QED  BY <2>1
<1>2. ASSUME NEW n \in Nat, n \in L PROVE n + 1 \in L
  <2>1. ASSUME NEW s \in SUBSET S, Cardinality(s) = n + 1 PROVE SortsOf(s) # {}
    <3>1. s # {} /\ \A x \in s : Cardinality(s \ {x}) = n  BY <1>0, <2>1, OneSmaller
    <3>2. PICK x \in s : \A q \in s : q.ts <= x.ts  BY <1>0, <3>1, LatestRow
    <3> DEFINE b == s \ {x}
    <3>3. b \in SUBSET S /\ Cardinality(b) = n /\ x \notin b /\ s = b \cup {x}  BY <3>1
    <3> HIDE DEF b
    <3>4. PICK f : f \in SortsOf(b)  BY <1>2, <3>3
    <3>5. f \in SetToSeqs(b) /\ Ordered(f)  BY <3>4 DEF SortsOf
    <3>6. /\ f \in [1 .. n -> b] /\ ToSet(f) = b /\ Len(f) = n
          /\ \A i, j \in 1 .. n : i # j => f[i] # f[j]
      BY <1>0, <3>3, <3>5, ArrangementsCover
    <3> DEFINE g == [i \in 1 .. n + 1 |-> IF i = n + 1 THEN x ELSE f[i]]
    <3>7. /\ g \in [1 .. n + 1 -> s] /\ DOMAIN g = 1 .. n + 1 /\ g[n + 1] = x
          /\ \A i \in 1 .. n + 1 : i # n + 1 => i \in 1 .. n /\ g[i] = f[i] /\ g[i] \in b
      BY <3>3, <3>6
    <3> HIDE DEF g
    <3>8. \A i, j \in 1 .. n + 1 : i # j => g[i] # g[j]  BY <3>3, <3>6, <3>7
    <3>9. \A r \in s : \E i \in 1 .. n + 1 : g[i] = r
      <4>1. ASSUME NEW r \in b PROVE \E i \in 1 .. n + 1 : g[i] = r
        <5>1. PICK i \in 1 .. n : f[i] = r  BY <3>6 DEF ToSet
        <5>2. i \in 1 .. n + 1 /\ i # n + 1  OBVIOUS
        <5> QED  BY <3>7, <5>1, <5>2
      <4>2. n + 1 \in 1 .. n + 1  OBVIOUS
      <4> QED  BY <3>3, <3>7, <4>1, <4>2
    <3>10. g \in SetToSeqs(s)
      <4>1. n + 1 \in Nat  OBVIOUS
      <4> QED  BY <4>1, <3>7, <3>8, <3>9, CoversAreArrangements
    <3>11. Ordered(g)
      <4>1. ASSUME NEW i \in 1 .. n + 1, NEW j \in 1 .. n + 1, i < j PROVE g[i].ts <= g[j].ts
        <5>1. i # n + 1  BY <4>1
        <5>2. CASE j = n + 1  BY <3>2, <3>3, <3>7, <5>1, <5>2
        <5>3. CASE j # n + 1  BY <3>5, <3>6, <3>7, <4>1, <5>1, <5>3 DEF Ordered
        <5> QED  BY <5>2, <5>3
      <4> QED  BY <3>7, <4>1 DEF Ordered
    <3> QED  BY <3>10, <3>11 DEF SortsOf
  <2> QED  BY <2>1
<1> HIDE DEF L
<1>3. Nat \subseteq L  BY <1>1, <1>2, NaturalsFollow
<1>4. Cardinality(S) \in L  BY <1>3, FS_CardinalityType DEF Stamped
<1> QED  BY <1>4 DEF L
(***************************************************************************)
(* The files of the ticks, day by day.                                     *)
(***************************************************************************)
\* What the files of some days hold.
Held(days) == UNION {Timed(written[d]) : d \in days}

\* What a load has gathered is what the files hold of the days it is through
\* with.
TicksInv ==
  loader = L2 =>
    /\ call.phase # "idle" =>
         /\ call.days \subseteq Keys /\ call.todo \subseteq call.days /\ ~answer.given
         /\ ToSet(call.got) = Held(call.days \ call.todo)
    /\ answer.given => answer.days \subseteq Keys /\ ToSet(answer.rows) = Held(answer.days)

\* A file of ticks holds the ticks of its source.
LEMMA TicksAreTimed ==
  ASSUME loader = L2, NEW rows, Frame(rows), NEW f \in Parsed(rows)
  PROVE  ToSet(f) = Timed(rows)
<1>1. f \in SortsOf(Timed(rows))  BY MarketAssumption DEF Parsed, TicksOf
<1>2. Timed(rows) \in SUBSET ToSet(rows)  BY DEF Timed, ToSet
<1>3. Stamped(Timed(rows))  BY <1>2, FramesAreStamped, SubsetsAreStamped
<1> QED  BY <1>1, <1>3, ArrangementsCover DEF SortsOf, Stamped

\* Rows that are joined are those of the one and the other.
LEMMA JoinedRows ==
  ASSUME NEW f, Frame(f), NEW g, Frame(g)
  PROVE  ToSet(f \o g) = ToSet(f) \cup ToSet(g)
<1>1. PICK S, T : f \in Seq(S) /\ g \in Seq(T)  BY DEF Frame
<1> DEFINE h == f \o g
<1>2. /\ Len(f) \in Nat /\ Len(g) \in Nat
      /\ DOMAIN f = 1 .. Len(f) /\ DOMAIN g = 1 .. Len(g)
  BY <1>1
<1>3. /\ DOMAIN h = 1 .. Len(f) + Len(g)
      /\ \A i \in 1 .. Len(f) + Len(g) : h[i] = IF i <= Len(f) THEN f[i] ELSE g[i - Len(f)]
  <2>1. f \in Seq(S \cup T) /\ g \in Seq(S \cup T)  BY <1>1
  <2> QED  BY <2>1
<1> HIDE DEF h
<1>4. ASSUME NEW i \in DOMAIN h PROVE h[i] \in ToSet(f) \cup ToSet(g)
  <2>1. CASE i <= Len(f)  BY <1>2, <1>3, <2>1 DEF ToSet
  <2>2. CASE i > Len(f)
    <3>1. i - Len(f) \in DOMAIN g  BY <1>2, <1>3, <2>2
    <3> QED  BY <1>2, <1>3, <2>2, <3>1 DEF ToSet
  <2> QED  BY <1>2, <1>3, <2>1, <2>2
<1>5. ASSUME NEW i \in DOMAIN f PROVE f[i] \in ToSet(h)
  <2>1. i \in DOMAIN h /\ h[i] = f[i]  BY <1>2, <1>3
  <2> QED  BY <2>1 DEF ToSet
<1>6. ASSUME NEW i \in DOMAIN g PROVE g[i] \in ToSet(h)
  <2>1. i + Len(f) \in DOMAIN h /\ h[i + Len(f)] = g[i]  BY <1>2, <1>3
  <2> QED  BY <2>1 DEF ToSet
<1>7. ToSet(h) \subseteq ToSet(f) \cup ToSet(g)
  <2>1. \A x \in ToSet(h) : \E i \in DOMAIN h : x = h[i]  BY DEF ToSet
  <2> QED  BY <1>4, <2>1
<1>8. ToSet(f) \subseteq ToSet(h)
  <2>1. \A x \in ToSet(f) : \E i \in DOMAIN f : x = f[i]  BY DEF ToSet
  <2> QED  BY <1>5, <2>1
<1>9. ToSet(g) \subseteq ToSet(h)
  <2>1. \A x \in ToSet(g) : \E i \in DOMAIN g : x = g[i]  BY DEF ToSet
  <2> QED  BY <1>6, <2>1
<1> QED  BY <1>7, <1>8, <1>9 DEF h

LEMMA NoRows == ToSet(<<>>) = {}
BY DEF ToSet

LEMMA InitTicks == Init => TicksInv
BY DEF Init, TicksInv, Idle, NoAnswer, Absent

\* Between loads, and when one is given up, the files and the answer stay.
LEMMA TicksIdle ==
  ASSUME IInv, TicksInv, UNCHANGED <<loader, written, answer>>,
         call' = call \/ call'.phase = "idle"
  PROVE  TicksInv'
<1>2. \A days : Held(days)' = Held(days)  BY DEF Held
<1>3. ASSUME loader = L2, call'.phase # "idle"
      PROVE  /\ call'.days \subseteq Keys /\ call'.todo \subseteq call'.days /\ ~answer'.given
             /\ ToSet(call'.got) = Held(call.days \ call.todo)'
  BY <1>2, <1>3 DEF TicksInv
<1>4. ASSUME loader = L2, answer'.given
      PROVE  answer'.days \subseteq Keys /\ ToSet(answer'.rows) = Held(answer.days)'
  BY <1>2, <1>4 DEF TicksInv
<1> QED  BY <1>3, <1>4 DEF TicksInv

\* A load begins with all it needs to do, and nothing gathered.
LEMMA TicksCall ==
  ASSUME IInv, NEW source, NEW days \in SUBSET Keys, NEW useCache, NEW refresh,
         Calls(Begin(source, days, useCache, refresh))
  PROVE  TicksInv'
<1>1. UNCHANGED <<loader, feed, cache, written>> /\ answer' = NoAnswer  BY DEF Calls
<1>2. call' = Begin(source, days, useCache, refresh)  BY DEF Calls
<1> SUFFICES ASSUME loader = L2 PROVE TicksInv'  BY <1>1 DEF TicksInv
<1>3. call'.phase = "read" /\ call'.days = days /\ call'.todo = days /\ call'.got = <<>>
  BY <1>2 DEF Begin, FilesOf
<1>4. ToSet(call'.got) = Held(call.days \ call.todo)'
  <2>1. days \ days = {}  OBVIOUS
  <2>2. Held(call.days \ call.todo)' = {}  BY <1>3, <2>1 DEF Held
  <2> QED  BY <1>3, <2>2, NoRows
<1> QED  BY <1>1, <1>3, <1>4 DEF TicksInv, NoAnswer

\* A file is torn before the load is through with it.
LEMMA TicksParse ==
  ASSUME IInv, TicksInv, NEW k \in Keys, Parse(k)
  PROVE  TicksInv'
<1>1. /\ UNCHANGED <<loader, feed, answer>>
      /\ written' = [written EXCEPT ![k] = feed[call.source][k]]
      /\ call.phase = "read" /\ k \in call.todo
      /\ \E rows : call' = [call EXCEPT !.phase = "write", !.parsed = rows]
  BY DEF Parse, Reading, Current
<1>2. DOMAIN written = Keys  BY DEF IInv, TypeInv
<1>4. call'.days = call.days /\ call'.todo = call.todo /\ call'.got = call.got
  BY <1>1 DEF IInv, TypeInv, CallInv
<1>5. ASSUME loader = L2
      PROVE  /\ call.days \subseteq Keys /\ call.todo \subseteq call.days /\ ~answer.given
             /\ ToSet(call.got) = Held(call.days \ call.todo)'
  <2>1. /\ call.days \subseteq Keys /\ call.todo \subseteq call.days /\ ~answer.given
        /\ ToSet(call.got) = Held(call.days \ call.todo)
    BY <1>1, <1>5 DEF TicksInv
  <2>2. \A d \in call.days \ call.todo : written'[d] = written[d]
    BY <1>1, <1>2, <2>1
  <2>3. Held(call.days \ call.todo)' = Held(call.days \ call.todo)
    <3> DEFINE through == call.days \ call.todo
    <3>1. through' = through  BY <1>4
    <3> QED  BY <2>2, <1>4 DEF Held
  <2> QED  BY <2>1, <2>3
<1> QED  BY <1>1, <1>4, <1>5 DEF TicksInv

\* The rows taken are those of the day the load is through with next.
LEMMA TicksTake ==
  ASSUME IInv, TicksInv, NEW k \in Keys, k \in call.todo, call.phase # "idle",
         NEW rows, Frame(rows), call' = Take(call, k, rows),
         UNCHANGED <<loader, written, answer>>, rows \in Parsed(written[k])
  PROVE  TicksInv'
<1>1. /\ call'.got = call.got \o rows /\ call'.todo = call.todo \ {k} /\ call'.days = call.days
      /\ call'.phase = "read"
  BY DEF IInv, TypeInv, CallInv, Take
<1>3. ASSUME loader = L2
      PROVE  /\ call'.days \subseteq Keys /\ call'.todo \subseteq call'.days /\ ~answer.given
             /\ ToSet(call'.got) = Held(call.days \ call.todo)'
  <2>1. /\ call.days \subseteq Keys /\ call.todo \subseteq call.days /\ ~answer.given
        /\ ToSet(call.got) = Held(call.days \ call.todo)
    BY <1>3 DEF TicksInv
  <2>2. ToSet(rows) = Timed(written[k])
    <3>1. Frame(written[k])  BY SourcesAreFrames DEF IInv, TypeInv
    <3> QED  BY <1>3, <3>1, TicksAreTimed
  <2>3. ToSet(call.got \o rows) = ToSet(call.got) \cup ToSet(rows)
    BY JoinedRows DEF IInv, TypeInv, CallInv
  <2>4. call'.days \ call'.todo = (call.days \ call.todo) \cup {k} /\ k \notin call.days \ call.todo
    BY <1>1, <2>1
  <2>5. PICK old, new : old = call.days \ call.todo /\ new = old \cup {k}  OBVIOUS
  <2>6. call'.days \ call'.todo = new  BY <2>4, <2>5
  <2>7. Held(call.days \ call.todo)' = UNION {Timed(written[d]) : d \in new}
    BY <2>6 DEF Held
  <2>8. Held(call.days \ call.todo) = UNION {Timed(written[d]) : d \in old}  BY <2>5 DEF Held
  <2>9. UNION {Timed(written[d]) : d \in new}
          = (UNION {Timed(written[d]) : d \in old}) \cup Timed(written[k])
    <3>1. ASSUME NEW x
          PROVE  (\E d \in new : x \in Timed(written[d]))
                   <=> (\E d \in old : x \in Timed(written[d])) \/ x \in Timed(written[k])
      BY <2>5, Zenon
    <3> QED  BY <3>1
  <2> QED  BY <1>1, <2>1, <2>2, <2>3, <2>7, <2>8, <2>9
<1> QED  BY <1>1, <1>3 DEF TicksInv

\* The answer of a range holds the rows of the days its source had a file for.
LEMMA TicksAnswer ==
  ASSUME IInv, TicksInv, Answer
  PROVE  TicksInv'
<1>1. UNCHANGED <<loader, feed, cache, written>> /\ call' = Idle
      /\ call.phase = "read" /\ call.todo = {}
  BY DEF Answer
<1>2. call'.phase = "idle"  BY <1>1 DEF Idle
<1>3. ASSUME loader = L2
      PROVE  answer'.days \subseteq Keys /\ ToSet(answer'.rows) = Held(answer.days)'
  <2>1. PICK rows \in SortsOf(ToSet(call.got)) :
          answer' = [given |-> TRUE, source |-> call.source, trusted |-> Trusts,
                   days |-> call.days, rows |-> rows]
    BY <1>3 DEF Answer
  <2>2. Stamped(ToSet(call.got))  BY FramesAreStamped DEF IInv, TypeInv, CallInv
  <2>3. ToSet(rows) = ToSet(call.got)  BY <2>1, <2>2, ArrangementsCover DEF SortsOf, Stamped
  <2>4. ToSet(call.got) = Held(call.days \ call.todo)  BY <1>1, <1>3 DEF TicksInv
  <2>5. call.days \ call.todo = call.days  BY <1>1
  <2>6. Held(answer.days)' = Held(call.days)  BY <1>1, <2>1 DEF Held
  <2>7. call.days \subseteq Keys  BY <1>1, <1>3 DEF TicksInv
  <2> QED  BY <2>1, <2>3, <2>4, <2>5, <2>6, <2>7
<1> QED  BY <1>1, <1>2, <1>3 DEF TicksInv

LEMMA StepTicks == IInv /\ TicksInv /\ [MarketNext]_marketVars => TicksInv'
<1> SUFFICES ASSUME IInv, TicksInv, [MarketNext]_marketVars PROVE TicksInv'  OBVIOUS
<1>1. CASE SourceGrows  BY <1>1, TicksIdle DEF SourceGrows
<1>2. CASE LoadSeries
  <2>1. loader # L2 /\ loader' = loader  BY <1>2, MarketAssumption DEF LoadSeries, Calls
  <2> QED  BY <2>1 DEF TicksInv
<1>3. CASE LoadDay
  <2> PICK source \in Sources, d \in Days :
        \E useCache, refresh : Calls(Begin(source, {d}, useCache, refresh))
    BY <1>3 DEF LoadDay
  <2>1. PICK useCache, refresh : Calls(Begin(source, {d}, useCache, refresh))  OBVIOUS
  <2>2. {d} \in SUBSET Keys  BY DEF Keys
  <2> QED  BY <2>1, <2>2, TicksCall
<1>4. CASE LoadRange
  <2> PICK source \in Sources, range \in DayRanges : \E useCache :
        Calls(Begin(source, {d \in range : feed[source][d] # <<>>}, useCache, FALSE))
    BY <1>4 DEF LoadRange
  <2>1. PICK days : days = {d \in range : feed[source][d] # <<>>}  OBVIOUS
  <2>2. PICK useCache : Calls(Begin(source, days, useCache, FALSE))  BY <2>1
  <2>3. days \in SUBSET Keys  BY <2>1 DEF DayRanges, Keys
  <2> QED  BY <2>2, <2>3, TicksCall
<1>5. ASSUME NEW k \in Keys, CacheHit(k) PROVE TicksInv'
  <2>1. UNCHANGED <<loader, written, answer>>
        /\ call' = Take(call, k, cache[k].rows)
        /\ call.phase = "read" /\ k \in call.todo /\ cache[k].state = "whole"
    BY <1>5 DEF CacheHit, Reading, Current
  <2>2. Frame(cache[k].rows)  BY <2>1 DEF IInv, TypeInv
  <2>3. cache[k].rows \in Parsed(written[k])  BY <2>1 DEF IInv, CacheInv
  <2> QED  BY <2>1, <2>2, <2>3, TicksTake
<1>6. ASSUME NEW k \in Keys, Raises(k) PROVE TicksInv'
  BY <1>6, TicksIdle DEF Raises, Idle
<1>7. ASSUME NEW k \in Keys, Parse(k) PROVE TicksInv'  BY <1>7, TicksParse
<1>8. ASSUME NEW k \in Keys, WriteDone(k) PROVE TicksInv'
  <2>1. UNCHANGED <<loader, written, answer>>
        /\ call' = Take(call, k, call.parsed) /\ call.phase = "write" /\ Current(k)
    BY <1>8 DEF WriteDone
  <2>2. Frame(call.parsed)  BY DEF IInv, TypeInv, CallInv
  <2>3. call.parsed \in Parsed(written[k])  BY <2>1 DEF IInv, CacheInv
  <2> QED  BY <2>1, <2>2, <2>3, TicksTake DEF Current
<1>9. CASE Dies  BY <1>9, TicksIdle DEF Dies, Idle
<1>10. CASE Answer  BY <1>10, TicksAnswer
<1>11. CASE Study  BY <1>11, TicksIdle DEF Study
<1>12. CASE UNCHANGED marketVars  BY <1>12, TicksIdle DEF marketVars
<1> QED
  BY <1>1, <1>2, <1>3, <1>4, <1>5, <1>6, <1>7, <1>8, <1>9, <1>10, <1>11, <1>12 DEF MarketNext
(***************************************************************************)
(* Whose rows an answer holds.                                             *)
(***************************************************************************)
\* A load that does not trust the cache makes every file it reads, of the source
\* it was given.
MakerInv ==
  /\ call.phase # "idle" => ~answer.given
  /\ (call.phase # "idle" /\ ~Trusts) =>
       \A k \in FilesOf(call.days) \ call.todo : maker[k] = call.source
  /\ call.phase = "write" => \A k \in Keys : Current(k) => maker[k] = call.source
  /\ (answer.given /\ ~answer.trusted) =>
       \A k \in FilesOf(answer.days) : maker[k] = answer.source

LEMMA InitMaker == Init => MakerInv
BY DEF Init, MakerInv, Idle, NoAnswer

\* Between loads, and when one is given up, the files keep their makers.
LEMMA MakerIdle ==
  ASSUME MakerInv, UNCHANGED <<loader, maker, answer>>, call' = call \/ call'.phase = "idle"
  PROVE  MakerInv'
BY DEF MakerInv, Trusts, FilesOf, Current

\* A load begins with no file read.
LEMMA MakerCall ==
  ASSUME NEW source, NEW days, NEW useCache, NEW refresh,
         Calls(Begin(source, days, useCache, refresh))
  PROVE  MakerInv'
<1>1. loader' = loader /\ answer' = NoAnswer /\ call' = Begin(source, days, useCache, refresh)
  BY DEF Calls
<1>2. call'.phase = "read" /\ call'.days = days /\ call'.todo = FilesOf(days)
  BY <1>1 DEF Begin
<1>3. (FilesOf(call.days) \ call.todo)' = {}  BY <1>1, <1>2 DEF FilesOf
<1> QED  BY <1>1, <1>2, <1>3 DEF MakerInv, NoAnswer

\* A file that is read was there, or was made by this load.
LEMMA MakerTake ==
  ASSUME IInv, MakerInv, NEW k \in Keys, NEW rows, call.phase # "idle", call' = Take(call, k, rows),
         UNCHANGED <<loader, maker, answer>>, Trusts \/ maker[k] = call.source
  PROVE  MakerInv'
<1>1. /\ call'.phase = "read" /\ call'.todo = call.todo \ {k} /\ call'.days = call.days
      /\ call'.source = call.source /\ call'.useCache = call.useCache
      /\ call'.refresh = call.refresh
  BY DEF IInv, TypeInv, CallInv, Take
<1>2. Trusts' = Trusts  BY <1>1 DEF Trusts
<1>3. \A days : FilesOf(days)' = FilesOf(days)  BY DEF FilesOf
<1>4. ASSUME ~Trusts, NEW j \in FilesOf(call.days) \ (call.todo \ {k})
      PROVE  maker[j] = call.source
  BY <1>4 DEF MakerInv
<1>5. FilesOf(call.days)' = FilesOf(call.days)  BY <1>1 DEF FilesOf
<1>6. FilesOf(answer.days)' = FilesOf(answer.days)  BY DEF FilesOf
<1> QED  BY <1>1, <1>2, <1>4, <1>5, <1>6 DEF MakerInv

\* The file being made is not one the load is through with.
LEMMA MakerParse ==
  ASSUME IInv, MakerInv, NEW k \in Keys, Parse(k)
  PROVE  MakerInv'
<1>1. /\ UNCHANGED <<loader, answer>> /\ maker' = [maker EXCEPT ![k] = call.source]
      /\ call.phase = "read" /\ Current(k)
      /\ \E rows : call' = [call EXCEPT !.phase = "write", !.parsed = rows]
  BY DEF Parse, Reading
<1>2. /\ call'.phase = "write" /\ call'.todo = call.todo /\ call'.days = call.days
      /\ call'.source = call.source /\ call'.useCache = call.useCache
      /\ call'.refresh = call.refresh
  BY <1>1 DEF IInv, TypeInv, CallInv
<1>3. Trusts' = Trusts /\ FilesOf(call.days)' = FilesOf(call.days)
  BY <1>1, <1>2 DEF Trusts, FilesOf
<1>4. DOMAIN maker = Keys /\ call.todo \subseteq Keys /\ Keys \subseteq Int
  BY MarketAssumption DEF IInv, TypeInv, CallInv, Keys
<1>5. maker'[k] = call.source /\ \A j : j # k => maker'[j] = maker[j]  BY <1>1, <1>4
<1>6. \A j \in Keys : Current(j)' => j = k  BY <1>1, <1>2, <1>4 DEF Current
<1>7. ~answer.given  BY <1>1 DEF MakerInv
<1>8. k \in call.todo  BY <1>1 DEF Current
<1> QED  BY <1>1, <1>2, <1>3, <1>5, <1>6, <1>7, <1>8 DEF MakerInv

\* What a load answers are all the files it needed.
LEMMA MakerAnswer ==
  ASSUME MakerInv, Answer
  PROVE  MakerInv'
<1>1. UNCHANGED <<loader, maker>> /\ call' = Idle /\ call.phase = "read" /\ call.todo = {}
  BY DEF Answer
<1>2. call'.phase = "idle"  BY <1>1 DEF Idle
<1>3. /\ answer'.source = call.source /\ answer'.trusted = Trusts
      /\ answer'.days = call.days
  BY DEF Answer
<1>4. FilesOf(answer.days)' = FilesOf(call.days)  BY <1>1, <1>3 DEF FilesOf
<1> QED  BY <1>1, <1>2, <1>3, <1>4 DEF MakerInv

LEMMA StepMaker == IInv /\ MakerInv /\ [MarketNext]_marketVars => MakerInv'
<1> SUFFICES ASSUME IInv, MakerInv, [MarketNext]_marketVars PROVE MakerInv'  OBVIOUS
<1>1. CASE SourceGrows  BY <1>1, MakerIdle DEF SourceGrows
<1>2. CASE LoadSeries
  <2>1. \E source, days, useCache, refresh : Calls(Begin(source, days, useCache, refresh))
    BY <1>2 DEF LoadSeries
  <2> QED  BY <2>1, MakerCall
<1>3. CASE LoadDay
  <2>1. \E source, d, useCache, refresh : Calls(Begin(source, {d}, useCache, refresh))
    BY <1>3 DEF LoadDay
  <2> QED  BY <2>1, MakerCall
<1>4. CASE LoadRange
  <2> PICK source \in Sources, range \in DayRanges : \E useCache :
        Calls(Begin(source, {d \in range : feed[source][d] # <<>>}, useCache, FALSE))
    BY <1>4 DEF LoadRange
  <2>1. PICK days : days = {d \in range : feed[source][d] # <<>>}  OBVIOUS
  <2>2. PICK useCache : Calls(Begin(source, days, useCache, FALSE))  BY <2>1
  <2> QED  BY <2>2, MakerCall
<1>5. ASSUME NEW k \in Keys, CacheHit(k) PROVE MakerInv'
  BY <1>5, MakerTake DEF CacheHit, Reading
<1>6. ASSUME NEW k \in Keys, Raises(k) PROVE MakerInv'
  BY <1>6, MakerIdle DEF Raises, Idle
<1>7. ASSUME NEW k \in Keys, Parse(k) PROVE MakerInv'  BY <1>7, MakerParse
<1>8. ASSUME NEW k \in Keys, WriteDone(k) PROVE MakerInv'
  <2>1. call.phase = "write" /\ Current(k) /\ UNCHANGED <<loader, maker, answer>>
        /\ call' = Take(call, k, call.parsed)
    BY <1>8 DEF WriteDone
  <2>2. maker[k] = call.source  BY <2>1 DEF MakerInv
  <2> QED  BY <2>1, <2>2, MakerTake
<1>9. CASE Dies  BY <1>9, MakerIdle DEF Dies, Idle
<1>10. CASE Answer  BY <1>10, MakerAnswer
<1>11. CASE Study  BY <1>11, MakerIdle DEF Study
<1>12. CASE UNCHANGED marketVars  BY <1>12, MakerIdle DEF marketVars
<1> QED
  BY <1>1, <1>2, <1>3, <1>4, <1>5, <1>6, <1>7, <1>8, <1>9, <1>10, <1>11, <1>12 DEF MarketNext
(***************************************************************************)
(* The continuous series: what a file says of the days that were over does *)
(* not depend on what came later.                                          *)
(***************************************************************************)
\* Rows come in the order of time, the malformed apart.
InTime(s) ==
  \A i, j \in DOMAIN s :
    (i < j /\ s[i].ts # NoTime /\ s[j].ts # NoTime) => s[i].ts <= s[j].ts

TimeInv ==
  \A k \in Keys : InTime(written[k]) /\ \A source \in Sources : InTime(feed[source][k])

LEMMA InitTime == Init => TimeInv
BY DEF Init, TimeInv, InTime

\* A source that is in order stays in order.
LEMMA GrowsInTime ==
  ASSUME NEW S, \A q \in S : q.ts \in Int, NEW s \in Seq(S), NEW r \in S, InTime(s),
         r.ts = NoTime \/ \A ts \in TimesOf(s) : ts <= r.ts
  PROVE  InTime(Append(s, r))
<1> DEFINE sr == Append(s, r)
<1>1. /\ DOMAIN s = 1 .. Len(s) /\ Len(s) \in Nat /\ DOMAIN sr = 1 .. Len(s) + 1
      /\ sr[Len(s) + 1] = r /\ \A i \in 1 .. Len(s) : sr[i] = s[i]
  OBVIOUS
<1> HIDE DEF sr
<1>2. ASSUME NEW i \in DOMAIN sr, NEW j \in DOMAIN sr, i < j, sr[i].ts # NoTime, sr[j].ts # NoTime
      PROVE  sr[i].ts <= sr[j].ts
  <2>1. i \in DOMAIN s /\ sr[i] = s[i]  BY <1>1, <1>2
  <2>2. CASE j \in DOMAIN s  BY <1>1, <1>2, <2>1, <2>2 DEF InTime
  <2>3. CASE j = Len(s) + 1
    <3>1. s[i].ts \in TimesOf(s)  BY <2>1 DEF TimesOf
    <3> QED  BY <1>1, <1>2, <2>1, <2>3, <3>1
  <2> QED  BY <1>1, <2>2, <2>3
<1> QED  BY <1>2 DEF InTime, sr

LEMMA StepTime == IInv /\ TimeInv /\ [MarketNext]_marketVars => TimeInv'
<1> SUFFICES ASSUME IInv, TimeInv, [MarketNext]_marketVars PROVE TimeInv'  OBVIOUS
<1>1. CASE SourceGrows
  <2> PICK source \in Sources : \E r \in FeedRows[source][loader] : \E k :
        /\ r.ts = NoTime \/ \A ts \in TimesOf(feed[source][k]) : ts <= r.ts
        /\ feed' = [feed EXCEPT ![source][k] = Append(@, r)]
    BY <1>1 DEF SourceGrows
  <2> PICK r \in FeedRows[source][loader] : \E k :
        /\ r.ts = NoTime \/ \A ts \in TimesOf(feed[source][k]) : ts <= r.ts
        /\ feed' = [feed EXCEPT ![source][k] = Append(@, r)]
    OBVIOUS
  <2>1. PICK k : /\ r.ts = NoTime \/ \A ts \in TimesOf(feed[source][k]) : ts <= r.ts
                 /\ feed' = [feed EXCEPT ![source][k] = Append(@, r)]
    OBVIOUS
  <2>2. written' = written  BY <1>1 DEF SourceGrows
  <2>3. feed \in [Sources -> [Keys -> Source]] /\ r \in Offered  BY DEF IInv, TypeInv, Offered
  <2>4. \A q \in Offered : q.ts \in Int  BY MarketAssumption DEF IInv, TypeInv, Offered
  <2>5. ASSUME NEW j \in Keys, NEW other \in Sources PROVE InTime(feed'[other][j])
    <3>1. CASE j = k /\ other = source
      <4>1. InTime(feed[source][k]) /\ feed[source][k] \in Seq(Offered)
        BY <2>3, <3>1 DEF TimeInv, Source
      <4>2. InTime(Append(feed[source][k], r))  BY <2>1, <2>3, <2>4, <4>1, GrowsInTime
      <4> QED  BY <2>1, <2>3, <3>1, <4>2
    <3>2. CASE ~(j = k /\ other = source)
      <4>1. feed'[other][j] = feed[other][j]  BY <2>1, <2>3, <3>2
      <4> QED  BY <4>1 DEF TimeInv
    <3> QED  BY <3>1, <3>2
  <2> QED  BY <2>2, <2>5 DEF TimeInv
<1>2. ASSUME feed' = feed,
             \/ written' = written
             \/ \E k \in Keys, source \in Sources : written' = [written EXCEPT ![k] = feed[source][k]]
      PROVE  TimeInv'
  <2>1. DOMAIN written = Keys  BY DEF IInv, TypeInv
  <2> QED  BY <1>2, <2>1 DEF TimeInv
<1>3. CASE LoadSeries \/ LoadDay \/ LoadRange
  BY <1>2, <1>3 DEF LoadSeries, LoadDay, LoadRange, Calls
<1>4. ASSUME NEW k \in Keys, CacheHit(k) \/ Raises(k) \/ Parse(k) \/ WriteDone(k) PROVE TimeInv'
  <2>1. Parse(k) => call.source \in Sources  BY DEF IInv, TypeInv, CallInv, Parse, Reading
  <2> QED  BY <1>2, <1>4, <2>1 DEF CacheHit, Raises, Parse, WriteDone
<1>5. CASE Dies \/ Answer \/ Study
  BY <1>2, <1>5 DEF Dies, Answer, Study
<1>6. CASE UNCHANGED marketVars  BY <1>2, <1>6 DEF marketVars
<1> QED  BY <1>1, <1>3, <1>4, <1>5, <1>6 DEF MarketNext

\* Later moments lie on no earlier days.
LEMMA DaysFollow ==
  ASSUME NEW a \in Int, NEW b \in Int, a <= b
  PROVE  DayOf(a) \in Int /\ DayOf(b) \in Int /\ DayOf(a) <= DayOf(b)
<1>1. DayMinutes \in Nat \ {0}  BY FramesAssumption
<1>2. /\ a = DayMinutes * (a \div DayMinutes) + (a % DayMinutes)
      /\ b = DayMinutes * (b \div DayMinutes) + (b % DayMinutes)
      /\ a % DayMinutes \in 0 .. DayMinutes - 1 /\ b % DayMinutes \in 0 .. DayMinutes - 1
      /\ a \div DayMinutes \in Int /\ b \div DayMinutes \in Int
  BY <1>1
<1>3. ASSUME a \div DayMinutes > b \div DayMinutes PROVE FALSE
  <2>1. PICK q \in Int, p \in Int : q = a \div DayMinutes /\ p = b \div DayMinutes  BY <1>2
  <2>2. q >= p + 1  BY <1>3, <2>1
  <2>3. PICK d \in Nat : q = p + 1 + d  BY <2>2
  <2>4. DayMinutes * q = DayMinutes * p + DayMinutes + DayMinutes * d  BY <1>1, <2>3
  <2>5. DayMinutes * d \in Nat  BY <1>1
  <2> QED  BY <1>1, <1>2, <2>1, <2>4, <2>5
<1> QED  BY <1>2, <1>3 DEF DayOf

\* The rows of a past that is over: the days of its rows hold no later row.
Over(s, n) == \A i \in DOMAIN s : (s[i].ts # NoTime /\ \E j \in 1 .. n : /\ s[j].ts # NoTime
                                     /\ DayOf(s[j].ts) = DayOf(s[i].ts)) => i <= n

\* When the next row begins another day, the past is over.
LEMMA PastIsOver ==
  ASSUME NEW S, \A q \in S : q.ts \in Int, NEW s \in Seq(S), InTime(s),
         NEW n \in 1 .. Len(s) - 1, s[n + 1].ts # NoTime,
         \A j \in 1 .. n : s[j].ts # NoTime => DayOf(s[j].ts) # DayOf(s[n + 1].ts)
  PROVE  Over(s, n)
<1>1. DOMAIN s = 1 .. Len(s) /\ Len(s) \in Nat /\ \A i \in DOMAIN s : s[i].ts \in Int  OBVIOUS
<1>2. ASSUME NEW i \in DOMAIN s, NEW j \in 1 .. n, s[i].ts # NoTime, s[j].ts # NoTime,
             DayOf(s[j].ts) = DayOf(s[i].ts), i > n
      PROVE  FALSE
  <2>1. n + 1 \in DOMAIN s /\ j \in DOMAIN s  BY <1>1
  <2>2. s[j].ts <= s[n + 1].ts  BY <1>1, <1>2, <2>1 DEF InTime
  <2>3. s[n + 1].ts <= s[i].ts
    <3>1. CASE i = n + 1  BY <1>1, <2>1, <3>1
    <3>2. CASE i > n + 1  BY <1>1, <1>2, <2>1, <3>2 DEF InTime
    <3> QED  BY <1>1, <1>2, <3>1, <3>2
  <2>4. /\ DayOf(s[j].ts) \in Int /\ DayOf(s[n + 1].ts) \in Int /\ DayOf(s[i].ts) \in Int
        /\ DayOf(s[j].ts) <= DayOf(s[n + 1].ts) /\ DayOf(s[n + 1].ts) <= DayOf(s[i].ts)
    BY <1>1, <2>1, <2>2, <2>3, DaysFollow
  <2>5. DayOf(s[j].ts) # DayOf(s[n + 1].ts)  BY <1>2
  <2> QED  BY <1>2, <2>4, <2>5
<1>3. \A i \in DOMAIN s : i \in Int /\ n \in Int  BY <1>1
<1> QED  BY <1>2, <1>3 DEF Over

\* The rows of the family up to n, and all of them.
Family(s) == {s[i] : i \in OfFamily(s)}

\* The past and the file tell the same of a day that is over.
LEMMA PastTellsTheSame ==
  ASSUME NEW S, NEW s \in Seq(S), NEW n \in 1 .. Len(s), Over(s, n),
         NEW p, p = SubSeq(s, 1, n), NEW d, d \in DaysOf(Timed(p))
  PROVE  /\ \A sym : DailyVolume(p, d, sym) = DailyVolume(s, d, sym)
         /\ TradedOn(p, d) = TradedOn(s, d)
         /\ FrontMonths(p, d) = FrontMonths(s, d)
<1>1. /\ DOMAIN s = 1 .. Len(s) /\ Len(s) \in Nat
      /\ DOMAIN p = 1 .. n /\ \A i \in 1 .. n : p[i] = s[i] /\ i \in DOMAIN s
  OBVIOUS
<1>2. \E j \in 1 .. n : s[j].ts # NoTime /\ DayOf(s[j].ts) = d
  BY <1>1 DEF DaysOf, Timed
<1>3. ASSUME NEW i \in DOMAIN s, s[i].ts # NoTime, DayOf(s[i].ts) = d
      PROVE  i \in 1 .. n
  <2>1. i <= n  BY <1>2, <1>3 DEF Over
  <2> QED  BY <1>1, <2>1
<1>4. {i \in OfFamily(p) : DayOf(p[i].ts) = d} = {i \in OfFamily(s) : DayOf(s[i].ts) = d}
  BY <1>1, <1>3 DEF OfFamily
<1>5. ASSUME NEW sym PROVE DailyVolume(p, d, sym) = DailyVolume(s, d, sym)
  <2> DEFINE P == {i \in OfFamily(p) : DayOf(p[i].ts) = d /\ p[i].sym = sym}
             Q == {i \in OfFamily(s) : DayOf(s[i].ts) = d /\ s[i].sym = sym}
  <2>1. P = Q /\ \A i \in Q : p[i] = s[i]  BY <1>1, <1>3 DEF OfFamily
  <2>2. DailyVolume(p, d, sym) = VolumeOf(p, P) /\ DailyVolume(s, d, sym) = VolumeOf(s, Q)
    BY DEF DailyVolume
  <2> HIDE DEF P, Q
  <2>3. [i \in P |-> p[i].volume] = [i \in Q |-> s[i].volume]  BY <2>1
  <2> QED  BY <2>2, <2>3 DEF VolumeOf
<1>6. TradedOn(p, d) = TradedOn(s, d)
  <2>1. \A i \in {j \in OfFamily(s) : DayOf(s[j].ts) = d} : p[i] = s[i]
    BY <1>1, <1>3 DEF OfFamily
  <2> QED  BY <1>4, <2>1 DEF TradedOn
<1>7. FrontMonths(p, d) = FrontMonths(s, d)  BY <1>5, <1>6 DEF FrontMonths
<1> QED  BY <1>5, <1>6, <1>7

\* The continuous series of the past, drawn from that of the file.
LEMMA RollsOfThePast ==
  ASSUME NEW S, \A q \in S : q.ts \in Int, NEW s \in Seq(S), NEW n \in 1 .. Len(s), Over(s, n),
         NEW p, p = SubSeq(s, 1, n), NEW f, f \in Continuous(s)
  PROVE  \E g \in Continuous(p) : OfDays(f, DaysOf(Timed(p))) = ToSet(g)
<1> DEFINE D == DaysOf(Timed(p))
           rolls(w) == {front \in [DaysOf(Family(w)) -> {r.sym : r \in Family(w)}] :
                         \A d \in DaysOf(Family(w)) : front[d] \in FrontMonths(w, d)}
           joined(w, front) == {r \in Family(w) : r.sym = front[DayOf(r.ts)]}
<1>1. /\ DOMAIN s = 1 .. Len(s) /\ Len(s) \in Nat
      /\ DOMAIN p = 1 .. n /\ \A i \in 1 .. n : p[i] = s[i] /\ i \in DOMAIN s
  OBVIOUS
<1>2. \A w : Continuous(w) =
         UNION {UNION {SortsOf(U) : U \in UniquesOf(joined(w, front))} : front \in rolls(w)}
  BY DEF Continuous, Family
<1>3. PICK front \in rolls(s) : f \in UNION {SortsOf(U) : U \in UniquesOf(joined(s, front))}
  BY <1>2
<1>4. PICK U \in UniquesOf(joined(s, front)) : f \in SortsOf(U)  BY <1>3
<1>5. Family(p) = {r \in Family(s) : DayOf(r.ts) \in D}
  <2>1. ASSUME NEW i \in OfFamily(p) PROVE i \in OfFamily(s) /\ p[i] = s[i] /\ DayOf(p[i].ts) \in D
    BY <1>1 DEF OfFamily, DaysOf, Timed
  <2>2. ASSUME NEW i \in OfFamily(s), DayOf(s[i].ts) \in D PROVE i \in OfFamily(p) /\ p[i] = s[i]
    <3>1. \E j \in 1 .. n : s[j].ts # NoTime /\ DayOf(s[j].ts) = DayOf(s[i].ts)
      BY <1>1, <2>2 DEF DaysOf, Timed
    <3>2. i <= n  BY <3>1 DEF Over, OfFamily
    <3>3. i \in 1 .. n  BY <1>1, <3>2 DEF OfFamily
    <3> QED  BY <1>1, <3>3 DEF OfFamily
  <2> HIDE DEF D
  <2> QED  BY <2>1, <2>2 DEF Family
<1> DEFINE lead == [d \in DaysOf(Family(p)) |-> front[d]]
           V == {r \in U : DayOf(r.ts) \in D}
<1>6. DaysOf(Family(p)) \subseteq DaysOf(Family(s)) /\ DaysOf(Family(p)) \subseteq D
  <2> HIDE DEF D
  <2> QED  BY <1>5 DEF DaysOf
<1>7. ASSUME NEW d \in DaysOf(Family(p))
      PROVE  front[d] \in FrontMonths(p, d) /\ front[d] \in {r.sym : r \in Family(p)}
  <2>1. front[d] \in FrontMonths(s, d)  BY <1>6
  <2>2. d \in DaysOf(Timed(p))  BY <1>6
  <2>3. FrontMonths(p, d) = FrontMonths(s, d)  BY <2>2, PastTellsTheSame
  <2>4. FrontMonths(p, d) \subseteq TradedOn(p, d)  BY DEF FrontMonths
  <2>5. TradedOn(p, d) \subseteq {r.sym : r \in Family(p)}  BY DEF TradedOn, Family
  <2> QED  BY <2>1, <2>3, <2>4, <2>5
<1>8. lead \in rolls(p)
  <2>1. \A d \in DaysOf(Family(p)) : lead[d] = front[d]  OBVIOUS
  <2>2. lead \in [DaysOf(Family(p)) -> {r.sym : r \in Family(p)}]  BY <1>7
  <2> HIDE DEF lead
  <2> QED  BY <1>7, <2>1, <2>2
<1>9. joined(p, lead) = {r \in joined(s, front) : DayOf(r.ts) \in D}
  <2>1. \A r \in Family(p) : lead[DayOf(r.ts)] = front[DayOf(r.ts)]  BY DEF DaysOf
  <2> HIDE DEF lead, D
  <2> QED  BY <1>5, <2>1
<1>10. U \in SUBSET joined(s, front)  BY DEF UniquesOf
<1>11. V \in UniquesOf(joined(p, lead))
  <2> DEFINE J == joined(s, front)
             I == joined(p, lead)
  <2>1. /\ U \in SUBSET J /\ {r.ts : r \in U} = {r.ts : r \in J}
        /\ \A r, q \in U : r.ts = q.ts => r = q
    BY DEF UniquesOf
  <2>2. I = {r \in J : DayOf(r.ts) \in D}  BY <1>9
  <2> HIDE DEF I, J, D
  <2>3. V \in SUBSET I  BY <2>1, <2>2
  <2>4. ASSUME NEW r \in I PROVE r.ts \in {q.ts : q \in V}
    <3>1. r.ts \in {q.ts : q \in U}  BY <2>1, <2>2
    <3>2. PICK q \in U : r.ts = q.ts  BY <3>1
    <3>3. DayOf(q.ts) \in D  BY <2>2, <3>2
    <3> QED  BY <3>2, <3>3
  <2>5. {r.ts : r \in V} = {r.ts : r \in I}  BY <2>3, <2>4
  <2> HIDE DEF V
  <2>6. \A r, q \in V : r.ts = q.ts => r = q  BY <2>1 DEF V
  <2>7. V \in UniquesOf(I)  BY <2>3, <2>5, <2>6 DEF UniquesOf
  <2> QED  BY <2>7 DEF I
<1>12. Stamped(U) /\ Stamped(V)
  <2>1. Stamped(ToSet(s))  BY RowsAreStamped
  <2>2. U \in SUBSET ToSet(s) /\ V \in SUBSET ToSet(s)  BY <1>10 DEF Family, OfFamily, ToSet
  <2> QED  BY <2>1, <2>2, SubsetsAreStamped
<1>13. PICK g : g \in SortsOf(V)  BY <1>12, SortsExist
<1>14. ToSet(g) = V  BY <1>12, <1>13, ArrangementsCover DEF SortsOf, Stamped
<1>15. ToSet(f) = U  BY <1>4, <1>12, ArrangementsCover DEF SortsOf, Stamped
<1>16. OfDays(f, D) = ToSet(g)  BY <1>14, <1>15 DEF OfDays
<1>17. g \in Continuous(p)
  <2>1. g \in UNION {SortsOf(W) : W \in UniquesOf(joined(p, lead))}  BY <1>11, <1>13
  <2> HIDE DEF lead, rolls, joined
  <2> QED  BY <1>2, <1>8, <2>1
<1> QED  BY <1>16, <1>17

\* What holds of the file under these invariants.
LEMMA RollsStand ==
  ASSUME IInv, TimeInv
  PROVE  RollsLookNoFurther
<1> SUFFICES ASSUME loader = CME, cache[0].state = "whole", NEW n \in 1 .. Len(written[0]) - 1,
                    written[0][n + 1].ts # NoTime,
                    DayOf(written[0][n + 1].ts) \notin DaysOf(Timed(SubSeq(written[0], 1, n)))
             PROVE  \E f \in Continuous(SubSeq(written[0], 1, n)) :
                      OfDays(cache[0].rows, DaysOf(Timed(SubSeq(written[0], 1, n)))) = ToSet(f)
  BY DEF RollsLookNoFurther
<1> DEFINE s == written[0]
           p == SubSeq(s, 1, n)
<1>1. 0 \in Keys  BY DEF Keys
<1>2. s \in Seq(Offered) /\ \A q \in Offered : q.ts \in Int
  BY <1>1, MarketAssumption DEF IInv, TypeInv, Source, Offered
<1>3. InTime(s)  BY <1>1 DEF TimeInv
<1>4. cache[0].rows \in Continuous(s)
  <2>1. cache[0].rows \in Parsed(s)  BY <1>1 DEF IInv, CacheInv
  <2>2. Parsed(s) = Continuous(s)  BY MarketAssumption DEF Parsed
  <2> QED  BY <2>1, <2>2
<1>5. ASSUME NEW j \in 1 .. n, s[j].ts # NoTime PROVE DayOf(s[j].ts) # DayOf(s[n + 1].ts)
  <2>1. j \in DOMAIN p /\ p[j] = s[j]  BY <1>2
  <2>2. DayOf(s[j].ts) \in DaysOf(Timed(p))  BY <1>5, <2>1 DEF DaysOf, Timed
  <2> QED  BY <2>2
<1> HIDE DEF s
<1>6. n \in 1 .. Len(s) - 1 /\ n \in 1 .. Len(s) /\ s[n + 1].ts # NoTime  BY <1>2 DEF s
<1>7. Over(s, n)  BY <1>2, <1>3, <1>5, <1>6, PastIsOver
<1> HIDE DEF p
<1>8. \E g \in Continuous(p) : OfDays(cache[0].rows, DaysOf(Timed(p))) = ToSet(g)
  BY <1>2, <1>4, <1>6, <1>7, RollsOfThePast DEF p
<1> QED  BY <1>8 DEF p, s
(***************************************************************************)
(* The gap report.                                                         *)
(***************************************************************************)
\* A label is a multiple of the bar, and every multiple is its own label.
LEMMA LabelsAreMultiples ==
  ASSUME NEW tf \in Nat \ {0}, NEW t \in Int
  PROVE  /\ Label(t, tf) \in Int /\ Label(t, tf) = tf * (t \div tf) /\ t \div tf \in Int
         /\ Label(t, tf) <= t /\ t < Label(t, tf) + tf
         /\ Label(t, tf) = t <=> t = tf * (t \div tf)
<1>1. t = tf * (t \div tf) + (t % tf) /\ t % tf \in 0 .. tf - 1 /\ t \div tf \in Int  OBVIOUS
<1> QED  BY <1>1 DEF Label

\* The sign of a product with the bar.
LEMMA ProductSigns ==
  ASSUME NEW tf \in Nat \ {0}, NEW p \in Int, NEW q \in Int
  PROVE  /\ tf * p \in Int /\ tf * q \in Int
         /\ tf * p < tf * q <=> p < q
         /\ tf * p = tf * q <=> p = q
         /\ tf * (q - p) = tf * q - tf * p
<1>1. ASSUME NEW x \in Int, NEW y \in Int, x < y PROVE tf * x < tf * y
  <2>1. PICK d \in Nat : y = x + 1 + d  BY <1>1
  <2>2. tf * y = tf * x + tf + tf * d  BY <2>1
  <2>3. tf * d \in Nat  OBVIOUS
  <2> QED  BY <2>2, <2>3
<1>2. tf * (q - p) = tf * q - tf * p  OBVIOUS
<1>3. p < q => tf * p < tf * q  BY <1>1
<1>4. q < p => tf * q < tf * p  BY <1>1
<1> QED  BY <1>2, <1>3, <1>4

\* A multiple in one way only.
LEMMA LabelUnique ==
  ASSUME NEW tf \in Nat \ {0}, NEW q \in Int
  PROVE  (tf * q) \div tf = q /\ Label(tf * q, tf) = tf * q
<1> DEFINE t == tf * q
<1>1. t \in Int  OBVIOUS
<1>2. t = tf * (t \div tf) + (t % tf) /\ t % tf \in 0 .. tf - 1 /\ t \div tf \in Int  BY <1>1
<1>3. PICK p \in Int : p = t \div tf  BY <1>2
<1>4. tf * p <= tf * q /\ tf * q < tf * (p + 1)
  <2>1. tf * (p + 1) = tf * p + tf  OBVIOUS
  <2>2. tf * p \in Int /\ tf * q \in Int  OBVIOUS
  <2> QED  BY <1>2, <1>3, <2>1, <2>2
<1>5. q < p + 1  BY <1>4, ProductSigns
<1>6. ~(q < p)
  <2>1. q < p => tf * q < tf * p  BY ProductSigns
  <2>2. tf * p \in Int /\ tf * q \in Int  OBVIOUS
  <2> QED  BY <1>4, <2>1, <2>2
<1>7. p = q  BY <1>5, <1>6
<1>8. t = tf * (t \div tf)  BY <1>3, <1>7
<1> HIDE DEF t
<1>9. Label(t, tf) = t  BY <1>1, <1>8, LabelsAreMultiples
<1> QED  BY <1>3, <1>7, <1>9 DEF t

\* The moments between two where a bar is due.
DueBetween(a, b, tf) == {t \in Int : a < t /\ t < b /\ Label(t, tf) = t}

\* Between two bars on the grid as many are due as the report counts.
LEMMA MissingCounts ==
  ASSUME NEW tf \in Nat \ {0}, NEW a \in Int, NEW b \in Int, a < b,
         Label(a, tf) = a, Label(b, tf) = b
  PROVE  /\ Missing(a, b, tf) \in Nat
         /\ IsFiniteSet(DueBetween(a, b, tf))
         /\ Cardinality(DueBetween(a, b, tf)) = Missing(a, b, tf)
         /\ b - a <= tf => Missing(a, b, tf) = 0
<1>1. PICK p \in Int : a = tf * p  BY LabelsAreMultiples
<1>2. PICK q \in Int : b = tf * q  BY LabelsAreMultiples
<1>3. p < q  BY <1>1, <1>2, ProductSigns
<1>4. b - a = tf * (q - p)  BY <1>1, <1>2, ProductSigns
<1>5. (b - a) \div tf = q - p  BY <1>4, LabelUnique
<1>6. Missing(a, b, tf) = q - p - 1 /\ q - p - 1 \in Nat  BY <1>3, <1>5 DEF Missing
<1>7. b - a <= tf => Missing(a, b, tf) = 0
  <2>1. ASSUME b - a <= tf PROVE q - p <= 1
    <3>1. q - p > 1 => tf * 1 < tf * (q - p)  BY ProductSigns
    <3> QED  BY <1>4, <2>1, <3>1
  <2> QED  BY <1>3, <1>6, <2>1
<1> DEFINE n == q - p - 1
           due == DueBetween(a, b, tf)
           at == [k \in 1 .. n |-> tf * (p + k)]
<1>8. ASSUME NEW k \in 1 .. n PROVE at[k] \in due
  <2>1. p + k \in Int /\ p < p + k /\ p + k < q  BY <1>6
  <2>2. tf * p < tf * (p + k) /\ tf * (p + k) < tf * q /\ tf * (p + k) \in Int
    BY <2>1, ProductSigns
  <2>3. Label(tf * (p + k), tf) = tf * (p + k)  BY <2>1, LabelUnique
  <2> QED  BY <1>1, <1>2, <2>2, <2>3 DEF DueBetween
<1>9. ASSUME NEW i \in 1 .. n, NEW j \in 1 .. n, at[i] = at[j] PROVE i = j
  <2>1. tf * (p + i) = tf * (p + j) /\ p + i \in Int /\ p + j \in Int  BY <1>9
  <2>2. p + i = p + j  BY <2>1, ProductSigns
  <2> QED  BY <2>2
<1>10. ASSUME NEW t \in due PROVE \E k \in 1 .. n : at[k] = t
  <2>1. t \in Int /\ a < t /\ t < b /\ Label(t, tf) = t  BY DEF DueBetween
  <2>2. PICK u \in Int : t = tf * u  BY <2>1, LabelsAreMultiples
  <2>3. p < u /\ u < q  BY <1>1, <1>2, <2>1, <2>2, ProductSigns
  <2>4. u - p \in 1 .. n /\ p + (u - p) = u  BY <2>3
  <2> QED  BY <2>2, <2>4
<1>11. at \in Bijection(1 .. n, due)
  <2>1. at \in [1 .. n -> due]  BY <1>8
  <2>2. DOMAIN at = 1 .. n  OBVIOUS
  <2> HIDE DEF at, due, n
  <2> QED  BY <1>9, <1>10, <2>1, <2>2 DEF Bijection, Injection, Surjection, IsInjective
<1>12. ExistsBijection(1 .. n, due)  BY <1>11 DEF ExistsBijection
<1>13. n \in Nat  BY <1>6
<1>14. Cardinality(1 .. n) = n /\ IsFiniteSet(1 .. n)
  <2> HIDE DEF n
  <2>1. 1 \in Int /\ n \in Int /\ n >= 0  BY <1>13
  <2>2. IsFiniteSet(1 .. n) /\ Cardinality(1 .. n) = IF 1 > n THEN 0 ELSE n - 1 + 1
    BY ONLY <2>1, FS_Interval
  <2> QED  BY <2>1, <2>2
<1>15. IsFiniteSet(due) /\ Cardinality(due) = n
  <2> HIDE DEF n, due, at
  <2> QED  BY <1>12, <1>14, FS_Bijection
<1> QED  BY <1>6, <1>7, <1>15

\* Bars on the grid, in order.
OnGrid(f, tf) ==
  /\ Frame(f)
  /\ \A i \in DOMAIN f : Label(f[i].ts, tf) = f[i].ts
  /\ \A i \in 1 .. Len(f) - 1 : f[i].ts < f[i + 1].ts

\* Two elements make two.
LEMMA PairsCount ==
  ASSUME NEW S, IsFiniteSet(S), NEW x \in S, NEW y \in S, x # y
  PROVE  Cardinality(S) > 1
<1>1. Cardinality({x, y}) = 2
  <2>1. IsFiniteSet({x}) /\ Cardinality({x}) = 1  BY FS_Singleton
  <2>2. {x} \cup {y} = {x, y} /\ y \notin {x}  OBVIOUS
  <2>3. Cardinality({x} \cup {y}) = Cardinality({x}) + 1  BY <2>1, <2>2, FS_AddElement
  <2> QED  BY <2>1, <2>2, <2>3
<1>2. Cardinality({x, y}) <= Cardinality(S)
  <2>1. {x, y} \in SUBSET S  OBVIOUS
  <2> QED  BY <2>1, FS_Subset
<1>3. Cardinality(S) \in Nat  BY FS_CardinalityType
<1> QED  BY <1>1, <1>2, <1>3

\* Bars that are monotonic and have no duplicates are in order.
LEMMA CleanBarsAreOrdered ==
  ASSUME NEW f, Frame(f), IsMonotonic(f), DuplicatedTimes(f) = {}
  PROVE  \A i \in 1 .. Len(f) - 1 : f[i].ts < f[i + 1].ts
<1>1. DOMAIN f = 1 .. Len(f) /\ Len(f) \in Nat  BY DEF Frame
<1>2. \A i \in DOMAIN f : f[i].ts \in Int  BY FramesAreStamped
<1>3. IsFiniteSet(DOMAIN f)  BY <1>1, FS_Interval
<1>4. ASSUME NEW i \in 1 .. Len(f) - 1, f[i].ts = f[i + 1].ts PROVE FALSE
  <2> DEFINE same == {j \in DOMAIN f : f[j].ts = f[i].ts}
  <2>1. i \in same /\ i + 1 \in same /\ i # i + 1  BY <1>1, <1>4
  <2>2. IsFiniteSet(same)
    <3>1. same \in SUBSET DOMAIN f  OBVIOUS
    <3> QED  BY <1>3, <3>1, FS_Subset
  <2>3. f[i].ts \in TimesOf(f)  BY <2>1 DEF TimesOf
  <2> HIDE DEF same
  <2>4. Cardinality(same) > 1  BY <2>1, <2>2, PairsCount
  <2>5. f[i].ts \in DuplicatedTimes(f)  BY <2>3, <2>4 DEF DuplicatedTimes, same
  <2> QED  BY <2>5
<1>5. ASSUME NEW i \in 1 .. Len(f) - 1 PROVE f[i].ts < f[i + 1].ts
  <2>1. f[i].ts <= f[i + 1].ts  BY DEF IsMonotonic
  <2>2. i \in DOMAIN f /\ i + 1 \in DOMAIN f  BY <1>1
  <2> QED  BY <1>2, <1>4, <2>1, <2>2
<1> QED  BY <1>5

\* Each bar is later than those before it.
LEMMA GridIsOrdered ==
  ASSUME NEW f, NEW tf, OnGrid(f, tf)
  PROVE  \A j \in DOMAIN f : \A i \in DOMAIN f : i < j => f[i].ts < f[j].ts
<1>1. DOMAIN f = 1 .. Len(f) /\ Len(f) \in Nat  BY DEF OnGrid, Frame
<1>2. \A i \in DOMAIN f : f[i].ts \in Int  BY FramesAreStamped DEF OnGrid
<1> DEFINE T == {j \in Nat : j \in DOMAIN f => \A i \in DOMAIN f : i < j => f[i].ts < f[j].ts}
<1>3. 0 \in T  BY <1>1
<1>4. ASSUME NEW j \in Nat, j \in T PROVE j + 1 \in T
  <2>1. ASSUME j + 1 \in DOMAIN f, NEW i \in DOMAIN f, i < j + 1 PROVE f[i].ts < f[j + 1].ts
    <3>1. j \in 1 .. Len(f) - 1 /\ j \in DOMAIN f  BY <1>1, <2>1
    <3>2. f[j].ts < f[j + 1].ts  BY <3>1 DEF OnGrid
    <3>3. CASE i = j  BY <3>2, <3>3
    <3>4. CASE i < j
      <4>1. f[i].ts < f[j].ts  BY <1>4, <3>1, <3>4
      <4> QED  BY <1>2, <2>1, <3>1, <3>2, <4>1
    <3> QED  BY <1>1, <2>1, <3>3, <3>4
  <2> QED  BY <2>1
<1> HIDE DEF T
<1>5. Nat \subseteq T  BY <1>3, <1>4, NaturalsFollow
<1> QED  BY <1>1, <1>5 DEF T

\* How many the report counts after each bar.
Tells(miss, f, tf) == miss = [i \in 1 .. Len(f) - 1 |-> Missing(f[i].ts, f[i + 1].ts, tf)]

\* The moments after each bar where a bar is due, up to the next.
Awaits(due, f, tf) == due = [i \in 1 .. Len(f) - 1 |-> DueBetween(f[i].ts, f[i + 1].ts, tf)]

\* What is missing, and what of it the filter forgives.
MissingOf(f, tf) == {t \in f[1].ts .. f[Len(f)].ts : Label(t, tf) = t} \ TimesOf(f)
ForgivenOf(f, tf) ==
  {t \in MissingOf(f, tf) : \E i \in 1 .. Len(f) - 1 :
     f[i].ts < t /\ t < f[i + 1].ts /\ SpansBreak(f[i].ts, f[i + 1].ts)}

\* Finite sets that do not meet have together as many elements as each apart.
LEMMA PartsCount ==
  ASSUME NEW J, IsFiniteSet(J), NEW D, NEW c,
         \A j \in J : IsFiniteSet(D[j]) /\ c[j] = Cardinality(D[j]),
         \A i, j \in J : i # j => D[i] \cap D[j] = {}
  PROVE  SumFunctionOnSet(c, J) = Cardinality(UNION {D[j] : j \in J})
<1> DEFINE all(s) == UNION {D[j] : j \in s}
           T == {s \in SUBSET J : /\ IsFiniteSet(all(s))
                                  /\ SumFunctionOnSet(c, s) = Cardinality(all(s))}
<1>1. {} \in T
  <2>1. all({}) = {}  OBVIOUS
  <2>2. IsFiniteSet({}) /\ Cardinality({}) = 0  BY FS_EmptySet
  <2> HIDE DEF all
  <2> QED  BY <2>1, <2>2, SumEmpty
<1>2. ASSUME NEW s \in SUBSET J, NEW x \in J, s \in T, x \notin s PROVE s \cup {x} \in T
  <2>1. all(s \cup {x}) = D[x] \cup all(s)  OBVIOUS
  <2>2. D[x] \cap all(s) = {}  BY <1>2
  <2>3. IsFiniteSet(all(s)) /\ SumFunctionOnSet(c, s) = Cardinality(all(s))  BY <1>2
  <2>4. IsFiniteSet(s) /\ \A y \in s \cup {x} : c[y] \in Int
    BY FS_Subset, FS_CardinalityType
  <2>5. SumFunctionOnSet(c, s \cup {x}) = c[x] + SumFunctionOnSet(c, s)  BY <1>2, <2>4, SumAdd
  <2>6. IsFiniteSet(D[x]) /\ c[x] = Cardinality(D[x])  OBVIOUS
  <2> HIDE DEF all
  <2>7. /\ IsFiniteSet(D[x] \cup all(s))
        /\ Cardinality(D[x] \cup all(s)) = Cardinality(D[x]) + Cardinality(all(s)) - Cardinality({})
    BY <2>2, <2>3, <2>6, FS_Union
  <2>8. Cardinality({}) = 0 /\ Cardinality(D[x]) \in Nat /\ Cardinality(all(s)) \in Nat
    BY <2>3, <2>6, FS_EmptySet, FS_CardinalityType
  <2>9. Cardinality(D[x] \cup all(s)) = c[x] + SumFunctionOnSet(c, s)
    BY <2>3, <2>6, <2>7, <2>8
  <2> QED  BY <2>1, <2>5, <2>7, <2>9
<1> HIDE DEF T
<1>3. J \in T  BY <1>1, <1>2, FiniteSetsGrow
<1> QED  BY <1>3 DEF T

\* A moment from the first bar to the last is that of a bar, or between two.
LEMMA BetweenBars ==
  ASSUME NEW f, NEW tf, OnGrid(f, tf), f # <<>>, NEW t \in f[1].ts .. f[Len(f)].ts,
         t \notin TimesOf(f)
  PROVE  \E i \in 1 .. Len(f) - 1 : f[i].ts < t /\ t < f[i + 1].ts
<1>1. DOMAIN f = 1 .. Len(f) /\ Len(f) \in Nat /\ Len(f) >= 1  BY DEF OnGrid, Frame
<1>2. \A i \in DOMAIN f : f[i].ts \in Int /\ f[i].ts # t  BY FramesAreStamped DEF OnGrid, TimesOf
<1>3. t \in Int /\ f[1].ts <= t /\ t <= f[Len(f)].ts
  <2>1. f[1].ts \in Int /\ f[Len(f)].ts \in Int  BY <1>1, <1>2
  <2> QED  BY <2>1
<1> DEFINE Passed == \E i \in 1 .. Len(f) - 1 : f[i].ts < t /\ t < f[i + 1].ts
           T == {m \in Nat : m + 1 \in 1 .. Len(f) => (f[m + 1].ts < t \/ Passed)}
<1>4. 0 \in T
  <2>1. f[1].ts < t  BY <1>1, <1>2, <1>3
  <2> QED  BY <2>1
<1>5. ASSUME NEW m \in Nat, m \in T PROVE m + 1 \in T
  <2> SUFFICES ASSUME m + 2 \in 1 .. Len(f) PROVE f[m + 2].ts < t \/ Passed  OBVIOUS
  <2>1. m + 1 \in 1 .. Len(f) - 1 /\ m + 2 \in DOMAIN f  BY <1>1
  <2>2. f[m + 1].ts < t \/ Passed  BY <1>1, <1>5, <2>1
  <2>3. f[m + 2].ts \in Int /\ f[m + 2].ts # t  BY <1>2, <2>1
  <2>4. f[m + 2].ts < t \/ t < f[(m + 1) + 1].ts  BY <1>3, <2>3
  <2> QED  BY <2>1, <2>2, <2>4
<1>6. Len(f) - 1 \in T
  <2> HIDE DEF T
  <2>1. Nat \subseteq T  BY <1>4, <1>5, NaturalsFollow
  <2> QED  BY <1>1, <2>1
<1>7. f[Len(f)].ts < t \/ Passed
  <2>1. (Len(f) - 1) + 1 = Len(f) /\ Len(f) \in 1 .. Len(f)  BY <1>1
  <2> QED  BY <1>6, <2>1
<1>8. f[Len(f)].ts \in Int  BY <1>1, <1>2
<1> QED  BY <1>3, <1>7, <1>8

\* After each bar the report counts what is due there; it lies between two
\* neighbours only.
LEMMA DueAfterBars ==
  ASSUME NEW tf \in Nat \ {0}, NEW f, OnGrid(f, tf), NEW i \in 1 .. Len(f) - 1
  PROVE  /\ Missing(f[i].ts, f[i + 1].ts, tf) \in Nat
         /\ IsFiniteSet(DueBetween(f[i].ts, f[i + 1].ts, tf))
         /\ Cardinality(DueBetween(f[i].ts, f[i + 1].ts, tf)) = Missing(f[i].ts, f[i + 1].ts, tf)
         /\ f[i + 1].ts - f[i].ts <= tf => Missing(f[i].ts, f[i + 1].ts, tf) = 0
         /\ f[i].ts \in Int /\ f[i + 1].ts \in Int
         /\ \A j \in DOMAIN f : f[j].ts \in Int /\ (f[j].ts <= f[i].ts \/ f[i + 1].ts <= f[j].ts)
<1>1. DOMAIN f = 1 .. Len(f) /\ Len(f) \in Nat  BY DEF OnGrid, Frame
<1>2. \A j \in DOMAIN f : f[j].ts \in Int  BY FramesAreStamped DEF OnGrid
<1>3. i \in DOMAIN f /\ i + 1 \in DOMAIN f  BY <1>1
<1>4. f[i].ts < f[i + 1].ts  BY DEF OnGrid
<1>5. Label(f[i].ts, tf) = f[i].ts /\ Label(f[i + 1].ts, tf) = f[i + 1].ts  BY <1>3 DEF OnGrid
<1>6. f[i].ts \in Int /\ f[i + 1].ts \in Int  BY <1>2, <1>3
<1>7. /\ Missing(f[i].ts, f[i + 1].ts, tf) \in Nat
      /\ IsFiniteSet(DueBetween(f[i].ts, f[i + 1].ts, tf))
      /\ Cardinality(DueBetween(f[i].ts, f[i + 1].ts, tf)) = Missing(f[i].ts, f[i + 1].ts, tf)
      /\ f[i + 1].ts - f[i].ts <= tf => Missing(f[i].ts, f[i + 1].ts, tf) = 0
  BY <1>4, <1>5, <1>6, MissingCounts
<1>8. ASSUME NEW j \in DOMAIN f PROVE f[j].ts <= f[i].ts \/ f[i + 1].ts <= f[j].ts
  <2>1. f[j].ts \in Int  BY <1>2
  <2>2. j < i \/ j = i \/ j = i + 1 \/ i + 1 < j  BY <1>1
  <2>3. CASE j < i
    <3>1. f[j].ts < f[i].ts  BY <1>3, <2>3, GridIsOrdered
    <3> QED  BY <1>6, <2>1, <3>1
  <2>4. CASE i + 1 < j
    <3>1. f[i + 1].ts < f[j].ts  BY <1>3, <2>4, GridIsOrdered
    <3> QED  BY <1>6, <2>1, <3>1
  <2> QED  BY <1>6, <2>1, <2>2, <2>3, <2>4
<1> QED  BY <1>2, <1>6, <1>7, <1>8

\* What the report's gaps hold is what is missing; with the filter, but for what
\* it forgives.
LEMMA GapsHoldTheMissing ==
  ASSUME NEW tf \in Nat \ {0}, NEW f, OnGrid(f, tf), f # <<>>, NEW due, Awaits(due, f, tf),
         NEW filter \in BOOLEAN
  PROVE  UNION {due[i] : i \in GapsAt(f, tf, filter)}
           = MissingOf(f, tf) \ (IF filter THEN ForgivenOf(f, tf) ELSE {})
<1> DEFINE gaps == GapsAt(f, tf, filter)
           forgiven == IF filter THEN ForgivenOf(f, tf) ELSE {}
<1>1. DOMAIN f = 1 .. Len(f) /\ Len(f) \in Nat /\ Len(f) >= 1  BY DEF OnGrid, Frame
<1>2. ASSUME NEW i \in 1 .. Len(f) - 1
      PROVE  due[i] = {t \in Int : f[i].ts < t /\ t < f[i + 1].ts /\ Label(t, tf) = t}
  BY DEF Awaits, DueBetween
<1>3. ASSUME NEW i \in gaps, NEW t \in due[i] PROVE t \in MissingOf(f, tf) \ forgiven
  <2>1. i \in 1 .. Len(f) - 1 /\ ~(filter /\ SpansBreak(f[i].ts, f[i + 1].ts))  BY DEF GapsAt
  <2>2. t \in Int /\ f[i].ts < t /\ t < f[i + 1].ts /\ Label(t, tf) = t  BY <1>2, <2>1
  <2>3. f[i].ts \in Int /\ f[i + 1].ts \in Int
        /\ \A j \in DOMAIN f : f[j].ts \in Int /\ (f[j].ts <= f[i].ts \/ f[i + 1].ts <= f[j].ts)
    BY <2>1, DueAfterBars
  <2>4. t \notin TimesOf(f)  BY <2>2, <2>3 DEF TimesOf
  <2>5. t \in f[1].ts .. f[Len(f)].ts
    <3>2. f[1].ts \in Int /\ f[1].ts <= f[i].ts
      <4>1. 1 \in DOMAIN f /\ i \in DOMAIN f  BY <1>1, <2>1
      <4>2. CASE i = 1  BY <2>3, <4>2
      <4>3. CASE i # 1
        <5>1. 1 < i  BY <2>1, <4>3
        <5>2. f[1].ts < f[i].ts  BY <4>1, <5>1, GridIsOrdered
        <5> QED  BY <2>3, <4>1, <5>2
      <4> QED  BY <4>2, <4>3
    <3>3. f[Len(f)].ts \in Int /\ f[i + 1].ts <= f[Len(f)].ts
      <4>1. Len(f) \in DOMAIN f /\ i + 1 \in DOMAIN f  BY <1>1, <2>1
      <4>2. CASE i + 1 = Len(f)  BY <2>3, <4>2
      <4>3. CASE i + 1 # Len(f)
        <5>1. i \in Int /\ Len(f) \in Int /\ i <= Len(f) - 1  BY <1>1, <2>1
        <5>3. i + 1 < Len(f)  BY ONLY <4>3, <5>1
        <5>2. f[i + 1].ts < f[Len(f)].ts  BY <4>1, <5>3, GridIsOrdered
        <5> QED  BY <2>3, <4>1, <5>2
      <4> QED  BY <4>2, <4>3
    <3> QED  BY <2>2, <2>3, <3>2, <3>3
  <2>6. t \in MissingOf(f, tf)  BY <2>2, <2>4, <2>5 DEF MissingOf
  <2>7. ASSUME filter, NEW j \in 1 .. Len(f) - 1, f[j].ts < t, t < f[j + 1].ts PROVE j = i
    <3>1. j \in DOMAIN f /\ j + 1 \in DOMAIN f /\ i \in DOMAIN f /\ i + 1 \in DOMAIN f
      BY <1>1, <2>1
    <3>2. f[j].ts \in Int /\ f[j + 1].ts \in Int  BY <2>3, <3>1
    <3>3. f[j].ts <= f[i].ts /\ f[i + 1].ts <= f[j + 1].ts  BY <2>2, <2>3, <2>7, <3>1, <3>2
    <3>4. ~(i < j)
      <4>1. i < j => f[i].ts < f[j].ts  BY <3>1, GridIsOrdered
      <4> QED  BY <2>3, <3>2, <3>3, <4>1
    <3>5. ~(j < i)
      <4>1. j + 1 < i + 1 => f[j + 1].ts < f[i + 1].ts  BY <3>1, GridIsOrdered
      <4>2. j < i => j + 1 < i + 1  BY <2>1
      <4> QED  BY <2>3, <3>2, <3>3, <4>1, <4>2
    <3> QED  BY <2>1, <3>4, <3>5
  <2>8. filter => t \notin ForgivenOf(f, tf)  BY <2>1, <2>7 DEF ForgivenOf
  <2> QED  BY <2>6, <2>8
<1>4. ASSUME NEW t \in MissingOf(f, tf), t \notin forgiven PROVE \E i \in gaps : t \in due[i]
  <2>1. t \in f[1].ts .. f[Len(f)].ts /\ Label(t, tf) = t /\ t \notin TimesOf(f)  BY DEF MissingOf
  <2>2. PICK i \in 1 .. Len(f) - 1 : f[i].ts < t /\ t < f[i + 1].ts  BY <2>1, BetweenBars
  <2>3. t \in Int
    <3>1. 1 \in DOMAIN f /\ Len(f) \in DOMAIN f  BY <1>1
    <3>2. f[1].ts \in Int /\ f[Len(f)].ts \in Int  BY <2>2, <3>1, DueAfterBars
    <3> QED  BY <2>1, <3>2
  <2>4. t \in due[i]  BY <1>2, <2>1, <2>2, <2>3
  <2>5. /\ Missing(f[i].ts, f[i + 1].ts, tf) \in Nat /\ IsFiniteSet(due[i])
        /\ Cardinality(due[i]) = Missing(f[i].ts, f[i + 1].ts, tf)
        /\ f[i + 1].ts - f[i].ts <= tf => Missing(f[i].ts, f[i + 1].ts, tf) = 0
        /\ f[i].ts \in Int /\ f[i + 1].ts \in Int
    BY DueAfterBars DEF Awaits
  <2>6. Missing(f[i].ts, f[i + 1].ts, tf) # 0
    <3>1. Cardinality(due[i]) = 0 => due[i] = {}  BY <2>5, FS_EmptySet
    <3> QED  BY <2>4, <2>5, <3>1
  <2>7. ~(filter /\ SpansBreak(f[i].ts, f[i + 1].ts))
    <3>1. filter => t \notin ForgivenOf(f, tf)  BY <1>4
    <3> QED  BY <2>2, <3>1 DEF ForgivenOf
  <2>8. Missing(f[i].ts, f[i + 1].ts, tf) > 0 /\ f[i + 1].ts - f[i].ts > tf  BY <2>5, <2>6
  <2>9. i \in gaps  BY <2>7, <2>8 DEF GapsAt
  <2> QED  BY <2>4, <2>9
<1> HIDE DEF gaps, forgiven
<1>5. UNION {due[i] : i \in gaps} = MissingOf(f, tf) \ forgiven  BY <1>3, <1>4
<1> QED  BY <1>5 DEF gaps, forgiven

\* So the report counts the bars that are missing, and with the filter those it
\* does not forgive.
LEMMA ReportIsExact ==
  ASSUME NEW tf \in Nat \ {0}, NEW f, OnGrid(f, tf), f # <<>>, NEW filter \in BOOLEAN
  PROVE  TotalMissing(f, tf, filter) =
           Cardinality(MissingOf(f, tf) \ (IF filter THEN ForgivenOf(f, tf) ELSE {}))
<1> DEFINE gaps == GapsAt(f, tf, filter)
           told == [i \in gaps |-> Missing(f[i].ts, f[i + 1].ts, tf)]
<1>1. PICK due : Awaits(due, f, tf)  BY DEF Awaits
<1>2. DOMAIN f = 1 .. Len(f) /\ Len(f) \in Nat  BY DEF OnGrid, Frame
<1>3. gaps \in SUBSET (1 .. Len(f) - 1)  BY DEF GapsAt
<1>4. IsFiniteSet(gaps)
  <2>1. 1 \in Int /\ Len(f) - 1 \in Int  BY <1>2
  <2>2. IsFiniteSet(1 .. Len(f) - 1)  BY ONLY <2>1, FS_Interval
  <2> HIDE DEF gaps
  <2> QED  BY <1>3, <2>2, FS_Subset
<1>5. ASSUME NEW i \in gaps PROVE IsFiniteSet(due[i]) /\ told[i] = Cardinality(due[i])
  <2>1. i \in 1 .. Len(f) - 1  BY <1>3
  <2>2. due[i] = DueBetween(f[i].ts, f[i + 1].ts, tf)  BY <1>1, <2>1 DEF Awaits
  <2>3. told[i] = Missing(f[i].ts, f[i + 1].ts, tf)  OBVIOUS
  <2> QED  BY <2>1, <2>2, <2>3, DueAfterBars
<1>6. ASSUME NEW i \in gaps, NEW j \in gaps, i # j PROVE due[i] \cap due[j] = {}
  <2>1. i \in 1 .. Len(f) - 1 /\ j \in 1 .. Len(f) - 1  BY <1>3
  <2>2. /\ due[i] = {t \in Int : f[i].ts < t /\ t < f[i + 1].ts /\ Label(t, tf) = t}
        /\ due[j] = {t \in Int : f[j].ts < t /\ t < f[j + 1].ts /\ Label(t, tf) = t}
    BY <1>1, <2>1 DEF Awaits, DueBetween
  <2>3. i \in DOMAIN f /\ i + 1 \in DOMAIN f /\ j \in DOMAIN f /\ j + 1 \in DOMAIN f
    BY <1>2, <2>1
  <2>4. /\ f[i].ts \in Int /\ f[i + 1].ts \in Int /\ f[j].ts \in Int /\ f[j + 1].ts \in Int
        /\ f[j].ts <= f[i].ts \/ f[i + 1].ts <= f[j].ts
        /\ f[i].ts <= f[j].ts \/ f[j + 1].ts <= f[i].ts
    BY <2>1, <2>3, DueAfterBars
  <2>5. f[i].ts # f[j].ts
    <3>1. i < j \/ j < i  BY <1>6, <2>1
    <3>2. f[i].ts < f[j].ts \/ f[j].ts < f[i].ts  BY <2>3, <3>1, GridIsOrdered
    <3> QED  BY <2>4, <3>2
  <2> QED  BY <2>2, <2>4, <2>5
<1>7. DOMAIN told = gaps /\ TotalMissing(f, tf, filter) = SumFunction(told)  BY DEF TotalMissing
<1>8. UNION {due[i] : i \in gaps} = MissingOf(f, tf) \ (IF filter THEN ForgivenOf(f, tf) ELSE {})
  BY <1>1, GapsHoldTheMissing
<1> HIDE DEF told, gaps
<1>9. TotalMissing(f, tf, filter) = SumFunctionOnSet(told, gaps)  BY <1>7 DEF SumFunction
<1>10. SumFunctionOnSet(told, gaps) = Cardinality(UNION {due[i] : i \in gaps})
  BY <1>4, <1>5, <1>6, PartsCount
<1> QED  BY <1>8, <1>9, <1>10

\* The bars of a study are on the grid of their timeframe.
LEMMA StudyBarsAreLabelled ==
  ASSUME Frame(answer.rows), NEW tf \in Timeframes, NEW bars \in StudyBars(tf)
  PROVE  \A i \in DOMAIN bars : Label(bars[i].ts, tf) = bars[i].ts
<1>1. tf \in Nat \ {0}  BY MarketAssumption
<1>2. Frame(bars)  BY StudyBarsAreFrames
<1>3. ASSUME NEW f, \A i \in DOMAIN f : f[i].ts \in Int, bars \in Resample(f, tf)
      PROVE  \A i \in DOMAIN bars : Label(bars[i].ts, tf) = bars[i].ts
  <2> DEFINE buckets == {Bucket(f, label, tf) : label \in {Label(ts, tf) : ts \in TimesOf(f)}}
  <2>1. bars \in SortsOf(buckets)  BY <1>3 DEF Resample
  <2>2. \A b \in buckets : Label(b.ts, tf) = b.ts
    <3>1. ASSUME NEW ts \in TimesOf(f) PROVE Label(Label(ts, tf), tf) = Label(ts, tf)
      <4>1. ts \in Int  BY <1>3 DEF TimesOf
      <4>2. Label(ts, tf) = tf * (ts \div tf) /\ ts \div tf \in Int  BY <1>1, <4>1, LabelsAreMultiples
      <4> QED  BY <1>1, <4>2, LabelUnique
    <3>2. \A label : Bucket(f, label, tf).ts = label  BY DEF Bucket
    <3> QED  BY <3>1, <3>2
  <2>3. bars \in [1 .. Cardinality(buckets) -> buckets]  BY <2>1 DEF SortsOf, SetToSeqs
  <2> HIDE DEF buckets
  <2> QED  BY <2>2, <2>3
<1> DEFINE f == answer.rows
           ticks == [i \in DOMAIN f |->
                      [ts |-> f[i].ts, open |-> f[i].mid, high |-> f[i].mid, low |-> f[i].mid,
                       close |-> f[i].mid, volume |-> f[i].volume]]
<1>4. \A i \in DOMAIN f : f[i].ts \in Int  BY FramesAreStamped
<1>5. CASE loader = L2
  <2>1. bars \in Resample(ticks, tf)  BY <1>5 DEF StudyBars, BarsFromTicks
  <2>2. DOMAIN ticks = DOMAIN f /\ \A i \in DOMAIN ticks : ticks[i].ts = f[i].ts  OBVIOUS
  <2>3. \A i \in DOMAIN ticks : ticks[i].ts \in Int  BY <1>4, <2>2
  <2> HIDE DEF ticks, f
  <2> QED  BY <1>3, <2>1, <2>3
<1>6. CASE loader # L2
  <2>1. (tf = 1 /\ bars = f) \/ bars \in Resample(f, tf)  BY <1>6 DEF StudyBars
  <2>2. ASSUME tf = 1, bars = f PROVE \A i \in DOMAIN bars : Label(bars[i].ts, tf) = bars[i].ts
    <3>1. \A ts \in Int : Label(ts, 1) = ts  BY DEF Label
    <3> QED  BY <1>4, <2>2, <3>1
  <2> QED  BY <1>3, <1>4, <2>1, <2>2
<1> QED  BY <1>5, <1>6

\* So the reports of a study are exact.
LEMMA GapsStand ==
  ASSUME IInv
  PROVE  GapsAreExact
<1> SUFFICES ASSUME NEW tf \in Timeframes, NEW bars \in StudyBars(tf),
                    bars # <<>>, IsMonotonic(bars), DuplicatedTimes(bars) = {}
             PROVE  /\ TotalMissing(bars, tf, FALSE) = Cardinality(MissingOf(bars, tf))
                    /\ TotalMissing(bars, tf, TRUE) =
                         Cardinality(MissingOf(bars, tf) \ ForgivenOf(bars, tf))
  BY DEF GapsAreExact, MissingOf, ForgivenOf
<1>1. Frame(answer.rows)  BY DEF IInv, TypeInv
<1>2. Frame(bars) /\ \A i \in DOMAIN bars : Label(bars[i].ts, tf) = bars[i].ts
  BY <1>1, StudyBarsAreFrames, StudyBarsAreLabelled
<1>3. OnGrid(bars, tf)  BY <1>2, CleanBarsAreOrdered DEF OnGrid
<1>4. \A filter \in BOOLEAN :
        TotalMissing(bars, tf, filter) =
          Cardinality(MissingOf(bars, tf) \ (IF filter THEN ForgivenOf(bars, tf) ELSE {}))
  BY <1>3, ReportIsExact, MarketAssumption
<1>5. MissingOf(bars, tf) \ {} = MissingOf(bars, tf)  OBVIOUS
<1> QED  BY <1>4, <1>5
(***************************************************************************)
(* Resampling.                                                             *)
(***************************************************************************)
\* Whichever multiple a moment follows closest is its label.
LEMMA LabelIs ==
  ASSUME NEW tf \in Nat \ {0}, NEW t \in Int, NEW q \in Int, tf * q <= t, t < tf * q + tf
  PROVE  Label(t, tf) = tf * q
<1>1. PICK p \in Int : Label(t, tf) = tf * p /\ tf * p <= t /\ t < tf * p + tf
  BY LabelsAreMultiples
<1>2. tf * p \in Int /\ tf * q \in Int /\ tf * (p + 1) = tf * p + tf /\ tf * (q + 1) = tf * q + tf
  OBVIOUS
<1>3. tf * p < tf * (q + 1) /\ tf * q < tf * (p + 1)  BY <1>1, <1>2
<1>4. p < q + 1 /\ q < p + 1
  <2>1. p + 1 \in Int /\ q + 1 \in Int  OBVIOUS
  <2> QED  BY <1>3, <2>1, ProductSigns
<1>5. p = q  BY <1>4
<1> QED  BY <1>1, <1>5

\* The labels of a coarser grid are labels of the finer one's labels.
LEMMA LabelsNest ==
  ASSUME NEW a \in Nat \ {0}, NEW b \in Nat \ {0}, b % a = 0, NEW t \in Int
  PROVE  Label(Label(t, a), b) = Label(t, b)
<1>1. PICK c \in Int : b = a * c
  <2>1. b = a * (b \div a) + (b % a) /\ b \div a \in Int  OBVIOUS
  <2> QED  BY <2>1
<1>2. PICK q \in Int : Label(t, b) = b * q /\ b * q <= t /\ t < b * q + b  BY LabelsAreMultiples
<1>3. PICK p \in Int : Label(t, a) = a * p /\ a * p <= t /\ t < a * p + a  BY LabelsAreMultiples
<1>4. PICK r \in Int : r = c * q  OBVIOUS
<1>5. b * q = a * r /\ a * r \in Int /\ a * p \in Int
  <2>1. b * q = (a * c) * q  BY <1>1
  <2>2. (a * c) * q = a * (c * q)  OBVIOUS
  <2> QED  BY <1>4, <2>1, <2>2
<1>6. a * r <= a * p
  <2>1. a * (p + 1) = a * p + a /\ p + 1 \in Int  OBVIOUS
  <2>2. a * r < a * (p + 1)  BY <1>2, <1>3, <1>5, <2>1
  <2>3. r < p + 1  BY <2>1, <2>2, ProductSigns
  <2>4. r < p \/ r = p  BY <2>3
  <2> QED  BY <1>5, <2>4, ProductSigns
<1>7. b * q \in Int  BY <1>5
<1>8. b * q <= a * p /\ a * p < b * q + b  BY <1>2, <1>3, <1>5, <1>6
<1> QED  BY <1>2, <1>3, <1>5, <1>8, LabelIs

\* Two labels are a bar apart.
LEMMA LabelsApart ==
  ASSUME NEW a \in Nat \ {0}, NEW t \in Int, NEW u \in Int, Label(t, a) < Label(u, a)
  PROVE  t < u
<1>1. PICK p \in Int : Label(t, a) = a * p /\ t < a * p + a  BY LabelsAreMultiples
<1>2. PICK q \in Int : Label(u, a) = a * q /\ a * q <= u  BY LabelsAreMultiples
<1>3. p < q  BY <1>1, <1>2, ProductSigns
<1>4. p + 1 = q \/ p + 1 < q  BY <1>3
<1>5. a * (p + 1) <= a * q /\ a * (p + 1) = a * p + a /\ a * p \in Int /\ a * q \in Int
  <2>1. p + 1 \in Int /\ a * (p + 1) = a * p + a /\ a * p \in Int /\ a * q \in Int  OBVIOUS
  <2> QED  BY <1>4, <2>1, ProductSigns
<1> QED  BY <1>1, <1>2, <1>5

-----------------------------------------------------------------------------
\* A finite table of candles, whose numbers are integers.
Candled(f) ==
  /\ IsFiniteSet(DOMAIN f) /\ DOMAIN f \subseteq Int
  /\ \A i \in DOMAIN f : /\ f[i].ts \in Int /\ f[i].high \in Int /\ f[i].low \in Int
                         /\ f[i].volume \in Int

\* The rows of a bucket, and what its candle takes of them.
InBucket(f, label, tf) == {i \in DOMAIN f : Label(f[i].ts, tf) = label}
Before(f, i, j) == f[i].ts < f[j].ts \/ (f[i].ts = f[j].ts /\ i <= j)
FirstOf(f, S, i) == i \in S /\ \A j \in S : Before(f, i, j)
LastOf(f, S, i)  == i \in S /\ \A j \in S : Before(f, j, i)
HighOf(f, S, x)  == (\E i \in S : x = f[i].high) /\ \A i \in S : f[i].high <= x
LowOf(f, S, x)   == (\E i \in S : x = f[i].low) /\ \A i \in S : x <= f[i].low

\* The order of the rows is total.
LEMMA BeforeIsTotal ==
  ASSUME NEW f, Candled(f), NEW i \in DOMAIN f, NEW j \in DOMAIN f
  PROVE  /\ Before(f, i, j) \/ Before(f, j, i)
         /\ Before(f, i, j) /\ Before(f, j, i) => i = j
         /\ \A k \in DOMAIN f : Before(f, i, j) /\ Before(f, j, k) => Before(f, i, k)
BY DEF Before, Candled

\* A bucket that is not empty has them all.
LEMMA BucketHas ==
  ASSUME NEW f, Candled(f), NEW S \in SUBSET DOMAIN f, S # {}
  PROVE  /\ \E i : FirstOf(f, S, i)
         /\ \E i : LastOf(f, S, i)
         /\ \E x : HighOf(f, S, x)
         /\ \E x : LowOf(f, S, x)
<1>1. IsFiniteSet(S)  BY FS_Subset DEF Candled
<1>2. \E i : FirstOf(f, S, i)
  <2> DEFINE R == {p \in S \X S : Before(f, p[1], p[2])}
  <2>1. \A x, y \in S : <<x, y>> \in R <=> Before(f, x, y)  OBVIOUS
  <2> HIDE DEF R
  <2>2. TotalOn(R, S)  BY <2>1, BeforeIsTotal DEF TotalOn
  <2>3. PICK x \in S : \A y \in S : <<x, y>> \in R  BY <1>1, <2>2, FirstElement
  <2> QED  BY <2>1, <2>3 DEF FirstOf
<1>3. \E i : LastOf(f, S, i)
  <2> DEFINE R == {p \in S \X S : Before(f, p[2], p[1])}
  <2>1. \A x, y \in S : <<x, y>> \in R <=> Before(f, y, x)  OBVIOUS
  <2> HIDE DEF R
  <2>2. TotalOn(R, S)  BY <2>1, BeforeIsTotal DEF TotalOn
  <2>3. PICK x \in S : \A y \in S : <<x, y>> \in R  BY <1>1, <2>2, FirstElement
  <2> QED  BY <2>1, <2>3 DEF LastOf
<1>4. \E x : HighOf(f, S, x)
  <2> DEFINE R == {p \in S \X S : f[p[2]].high <= f[p[1]].high}
  <2>1. \A x, y \in S : <<x, y>> \in R <=> f[y].high <= f[x].high  OBVIOUS
  <2> HIDE DEF R
  <2>2. TotalOn(R, S)  BY <2>1 DEF TotalOn, Candled
  <2>3. PICK x \in S : \A y \in S : <<x, y>> \in R  BY <1>1, <2>2, FirstElement
  <2> QED  BY <2>1, <2>3 DEF HighOf
<1>5. \E x : LowOf(f, S, x)
  <2> DEFINE R == {p \in S \X S : f[p[1]].low <= f[p[2]].low}
  <2>1. \A x, y \in S : <<x, y>> \in R <=> f[x].low <= f[y].low  OBVIOUS
  <2> HIDE DEF R
  <2>2. TotalOn(R, S)  BY <2>1 DEF TotalOn, Candled
  <2>3. PICK x \in S : \A y \in S : <<x, y>> \in R  BY <1>1, <2>2, FirstElement
  <2> QED  BY <2>1, <2>3 DEF LowOf
<1> QED  BY <1>2, <1>3, <1>4, <1>5

\* And the candle is made of these.
LEMMA BucketTells ==
  ASSUME NEW f, Candled(f), NEW label, NEW tf, NEW S, S = InBucket(f, label, tf),
         NEW i, FirstOf(f, S, i), NEW k, LastOf(f, S, k), NEW hi, HighOf(f, S, hi),
         NEW lo, LowOf(f, S, lo)
  PROVE  Bucket(f, label, tf) = [ts |-> label, open |-> f[i].open, high |-> hi, low |-> lo,
                                 close |-> f[k].close, volume |-> VolumeOf(f, S)]
<1> DEFINE before(x, y) == f[x].ts < f[y].ts \/ (f[x].ts = f[y].ts /\ x <= y)
           first == CHOOSE x \in S : \A y \in S : before(x, y)
           last  == CHOOSE x \in S : \A y \in S : before(y, x)
           highs == {f[x].high : x \in S}
           lows  == {f[x].low : x \in S}
<1>0. S \in SUBSET DOMAIN f  BY DEF InBucket
<1>1. Bucket(f, label, tf) =
        [ts |-> label, open |-> f[first].open, high |-> Max(highs), low |-> Min(lows),
         close |-> f[last].close, volume |-> VolumeOf(f, S)]
  BY Zenon DEF Bucket, InBucket
<1>2. first = i
  <2>1. \A x \in S : (\A y \in S : before(x, y)) <=> x = i
    <3>1. \A x, y \in S : before(x, y) <=> Before(f, x, y)  BY DEF Before
    <3> HIDE DEF before
    <3> QED  BY <1>0, <3>1, BeforeIsTotal DEF FirstOf
  <2>2. i \in S  BY DEF FirstOf
  <2> HIDE DEF before
  <2> QED  BY <2>1, <2>2
<1>3. last = k
  <2>1. \A x \in S : (\A y \in S : before(y, x)) <=> x = k
    <3>1. \A x, y \in S : before(x, y) <=> Before(f, x, y)  BY DEF Before
    <3> HIDE DEF before
    <3> QED  BY <1>0, <3>1, BeforeIsTotal DEF LastOf
  <2>2. k \in S  BY DEF LastOf
  <2> HIDE DEF before
  <2> QED  BY <2>1, <2>2
<1>4. Max(highs) = hi
  <2>1. hi \in highs /\ \A x \in highs : x \in Int /\ hi >= x  BY <1>0 DEF HighOf, Candled
  <2> HIDE DEF highs
  <2>2. \A x \in highs : (\A y \in highs : x >= y) <=> x = hi  BY <2>1
  <2> QED  BY <2>1, <2>2 DEF Max
<1>5. Min(lows) = lo
  <2>1. lo \in lows /\ \A x \in lows : x \in Int /\ lo <= x  BY <1>0 DEF LowOf, Candled
  <2> HIDE DEF lows
  <2>2. \A x \in lows : (\A y \in lows : x <= y) <=> x = lo  BY <2>1
  <2> QED  BY <2>1, <2>2 DEF Min
<1> HIDE DEF first, last, highs, lows
<1> QED  BY <1>1, <1>2, <1>3, <1>4, <1>5, Zenon

\* The volume of some rows is a sum over them.
LEMMA VolumeIsSum ==
  ASSUME NEW f, Candled(f), NEW S \in SUBSET DOMAIN f, NEW v, \A i \in S : v[i] = f[i].volume
  PROVE  VolumeOf(f, S) = SumFunctionOnSet(v, S) /\ VolumeOf(f, S) \in Int
<1> DEFINE u == [i \in S |-> f[i].volume]
<1>1. IsFiniteSet(S)  BY FS_Subset DEF Candled
<1>2. VolumeOf(f, S) = SumFunctionOnSet(u, S)
  <2>1. DOMAIN u = S /\ VolumeOf(f, S) = SumFunction(u)  BY DEF VolumeOf
  <2> HIDE DEF u
  <2> QED  BY <2>1 DEF SumFunction
<1>3. \A i \in S : u[i] \in Int /\ u[i] = v[i]  BY DEF Candled
<1> HIDE DEF u
<1>4. SumFunctionOnSet(u, S) \in Int  BY <1>1, <1>3, SumType
<1>5. SumFunctionOnSet(v, S) = SumFunctionOnSet(u, S)  BY <1>1, <1>3, SumSame
<1> QED  BY <1>2, <1>4, <1>5

-----------------------------------------------------------------------------
\* A table and what resampling makes of it: a candle for each label, each with
\* the rows of its own.
Resampled(g, f, tf) ==
  /\ Candled(f) /\ Candled(g)
  /\ \A j \in DOMAIN g :
       LET S == InBucket(f, g[j].ts, tf)
       IN  /\ S # {}
           /\ \E i : FirstOf(f, S, i) /\ g[j].open = f[i].open
           /\ \E i : LastOf(f, S, i) /\ g[j].close = f[i].close
           /\ HighOf(f, S, g[j].high) /\ LowOf(f, S, g[j].low)
           /\ g[j].volume = VolumeOf(f, S)
  /\ \A i \in DOMAIN f : \E j \in DOMAIN g : g[j].ts = Label(f[i].ts, tf)
  /\ \A j, k \in DOMAIN g : g[j].ts = g[k].ts => j = k

\* The candle of rows that are there.
LEMMA BucketParts ==
  ASSUME NEW f, Candled(f), NEW label, NEW tf, NEW S, S = InBucket(f, label, tf), S # {},
         NEW c, c = Bucket(f, label, tf)
  PROVE  /\ c.ts = label /\ c.high \in Int /\ c.low \in Int /\ c.volume \in Int
         /\ \E i : FirstOf(f, S, i) /\ c.open = f[i].open
         /\ \E i : LastOf(f, S, i) /\ c.close = f[i].close
         /\ HighOf(f, S, c.high) /\ LowOf(f, S, c.low)
         /\ c.volume = VolumeOf(f, S)
<1>1. S \in SUBSET DOMAIN f  BY DEF InBucket
<1>2. PICK i : FirstOf(f, S, i)  BY <1>1, BucketHas
<1>3. PICK k : LastOf(f, S, k)  BY <1>1, BucketHas
<1>4. PICK hi : HighOf(f, S, hi)  BY <1>1, BucketHas
<1>5. PICK lo : LowOf(f, S, lo)  BY <1>1, BucketHas
<1>6. c = [ts |-> label, open |-> f[i].open, high |-> hi, low |-> lo,
           close |-> f[k].close, volume |-> VolumeOf(f, S)]
  BY <1>2, <1>3, <1>4, <1>5, BucketTells
<1>7. c.ts = label /\ c.open = f[i].open /\ c.high = hi /\ c.low = lo /\ c.close = f[k].close
      /\ c.volume = VolumeOf(f, S)
  BY <1>6
<1>8. hi \in Int /\ lo \in Int  BY <1>1, <1>4, <1>5 DEF HighOf, LowOf, Candled
<1>9. VolumeOf(f, S) \in Int
  <2>1. \A x \in S : [y \in S |-> f[y].volume][x] = f[x].volume  OBVIOUS
  <2> QED  BY <1>1, <2>1, VolumeIsSum
<1> QED  BY <1>2, <1>3, <1>4, <1>5, <1>7, <1>8, <1>9

\* Resampling is such a table.
LEMMA ResampleIs ==
  ASSUME NEW f, Candled(f), NEW tf \in Nat \ {0}, NEW g, g \in Resample(f, tf)
  PROVE  Resampled(g, f, tf)
<1> DEFINE labels  == {Label(ts, tf) : ts \in TimesOf(f)}
           buckets == {Bucket(f, label, tf) : label \in labels}
           n == Cardinality(buckets)
<1>1. g \in SortsOf(buckets)  BY DEF Resample
<1>2. ASSUME NEW label \in labels PROVE InBucket(f, label, tf) # {} /\ Bucket(f, label, tf).ts = label
  <2>1. PICK i \in DOMAIN f : label = Label(f[i].ts, tf)  BY DEF TimesOf
  <2>2. Bucket(f, label, tf).ts = label  BY DEF Bucket
  <2> QED  BY <2>1, <2>2 DEF InBucket
<1>3. \A i \in DOMAIN f : Label(f[i].ts, tf) \in labels  BY DEF TimesOf
<1>4. Frame(g) /\ IsFiniteSet(buckets)
  <2>1. IsFiniteSet(DOMAIN f) /\ \A i \in DOMAIN f : f[i].ts \in Int  BY DEF Candled
  <2>2. IsFiniteSet(buckets)
    <3> DEFINE stamps == [i \in DOMAIN f |-> Bucket(f, Label(f[i].ts, tf), tf)]
    <3>1. IsFiniteSet({stamps[i] : i \in DOMAIN f})  BY <2>1, ImagesAreFinite
    <3>2. buckets = {stamps[i] : i \in DOMAIN f}  BY DEF TimesOf
    <3> QED  BY <3>1, <3>2
  <2> QED  BY <2>1, <2>2, ResampledAreFrames
<1> HIDE DEF labels
<1>5. g \in [1 .. n -> buckets] /\ n \in Nat /\ ToSet(g) = buckets
      /\ \A i, j \in 1 .. n : i # j => g[i] # g[j]
  <2> HIDE DEF buckets
  <2>1. g \in SetToSeqs(buckets)  BY <1>1 DEF SortsOf
  <2>2. Len(g) = n /\ n \in Nat /\ g \in [1 .. n -> buckets] /\ ToSet(g) = buckets
        /\ \A i, j \in 1 .. Len(g) : i # j => g[i] # g[j]
    BY <1>4, <2>1, ArrangementsCover
  <2> QED  BY <2>2
<1>6. ASSUME NEW j \in DOMAIN g
      PROVE  g[j].ts \in labels /\ g[j] = Bucket(f, g[j].ts, tf)
  <2>1. g[j] \in buckets  BY <1>5
  <2>2. PICK label \in labels : g[j] = Bucket(f, label, tf)  BY <2>1
  <2> QED  BY <1>2, <2>2
<1>7. ASSUME NEW j \in DOMAIN g, NEW k \in DOMAIN g, g[j].ts = g[k].ts PROVE j = k
  <2>1. g[j] = g[k]  BY <1>6, <1>7
  <2> QED  BY <1>5, <2>1
<1>8. ASSUME NEW i \in DOMAIN f PROVE \E j \in DOMAIN g : g[j].ts = Label(f[i].ts, tf)
  <2>1. Bucket(f, Label(f[i].ts, tf), tf) \in ToSet(g)  BY <1>3, <1>5
  <2>2. PICK j \in DOMAIN g : g[j] = Bucket(f, Label(f[i].ts, tf), tf)  BY <2>1 DEF ToSet
  <2> QED  BY <1>2, <1>3, <2>2
<1>9. ASSUME NEW j \in DOMAIN g
      PROVE  LET S == InBucket(f, g[j].ts, tf)
             IN  /\ S # {}
                 /\ g[j].high \in Int /\ g[j].low \in Int /\ g[j].volume \in Int
                 /\ \E i : FirstOf(f, S, i) /\ g[j].open = f[i].open
                 /\ \E i : LastOf(f, S, i) /\ g[j].close = f[i].close
                 /\ HighOf(f, S, g[j].high) /\ LowOf(f, S, g[j].low)
                 /\ g[j].volume = VolumeOf(f, S)
  <2>1. PICK S : S = InBucket(f, g[j].ts, tf)  OBVIOUS
  <2>2. S # {}  BY <1>2, <1>6, <2>1
  <2>3. PICK label, c : label = g[j].ts /\ c = g[j]  OBVIOUS
  <2>4. c = Bucket(f, label, tf) /\ S = InBucket(f, label, tf)  BY <1>6, <2>1, <2>3
  <2>5. /\ c.high \in Int /\ c.low \in Int /\ c.volume \in Int
        /\ \E i : FirstOf(f, S, i) /\ c.open = f[i].open
        /\ \E i : LastOf(f, S, i) /\ c.close = f[i].close
        /\ HighOf(f, S, c.high) /\ LowOf(f, S, c.low)
        /\ c.volume = VolumeOf(f, S)
    BY <2>2, <2>4, BucketParts
  <2> QED  BY <2>1, <2>2, <2>3, <2>5
<1>10. Candled(g)
  <2>1. DOMAIN g = 1 .. n /\ DOMAIN g \subseteq Int  BY <1>5
  <2>2. IsFiniteSet(1 .. n)
    <3>1. 1 \in Int /\ n \in Int  BY <1>5
    <3> HIDE DEF n
    <3> QED  BY ONLY <3>1, FS_Interval
  <2>3. \A j \in DOMAIN g : g[j].ts \in Int  BY <1>4, FramesAreStamped
  <2> QED  BY <1>9, <2>1, <2>2, <2>3 DEF Candled
<1> QED  BY <1>7, <1>8, <1>9, <1>10 DEF Resampled

\* Which candles of the finer table, and which rows, a coarser bucket takes.
Nested(P, g, f, a, Sg, Sf) ==
  /\ DOMAIN P = DOMAIN g /\ Sg \in SUBSET DOMAIN g /\ Sf \in SUBSET DOMAIN f
  /\ \A j \in DOMAIN g : P[j] = InBucket(f, g[j].ts, a)
  /\ \A j \in Sg : P[j] \in SUBSET Sf
  /\ \A i \in Sf : \E j \in Sg : i \in P[j]
  /\ \A j, k \in Sg : \A x \in P[j], y \in P[k] : g[j].ts < g[k].ts => f[x].ts < f[y].ts

\* The rows of a coarser bucket are those of its candles.
LEMMA BucketsNest ==
  ASSUME NEW a \in Nat \ {0}, NEW b \in Nat \ {0}, b % a = 0, NEW f, NEW g, Resampled(g, f, a),
         NEW label
  PROVE  \E P : Nested(P, g, f, a, InBucket(g, label, b), InBucket(f, label, b))
<1>0. (\A i \in DOMAIN f : f[i].ts \in Int) /\ (\A j \in DOMAIN g : g[j].ts \in Int)
  BY DEF Resampled, Candled
<1>1. PICK P : P = [j \in DOMAIN g |-> InBucket(f, g[j].ts, a)]  OBVIOUS
<1>2. PICK Sg, Sf : Sg = InBucket(g, label, b) /\ Sf = InBucket(f, label, b)  OBVIOUS
<1>3. DOMAIN P = DOMAIN g /\ \A j \in DOMAIN g : P[j] = InBucket(f, g[j].ts, a)  BY <1>1
<1>4. \A j \in DOMAIN g : \A i \in P[j] : i \in DOMAIN f /\ Label(f[i].ts, a) = g[j].ts
  BY <1>3 DEF InBucket
<1>5. \A i \in DOMAIN f : Label(Label(f[i].ts, a), b) = Label(f[i].ts, b)  BY <1>0, LabelsNest
<1>6. Sg \in SUBSET DOMAIN g /\ Sf \in SUBSET DOMAIN f
      /\ (\A j \in DOMAIN g : j \in Sg <=> Label(g[j].ts, b) = label)
      /\ (\A i \in DOMAIN f : i \in Sf <=> Label(f[i].ts, b) = label)
  BY <1>2 DEF InBucket
<1>7. \A j \in Sg : P[j] \in SUBSET Sf  BY <1>4, <1>5, <1>6
<1>8. ASSUME NEW i \in Sf PROVE \E j \in Sg : i \in P[j]
  <2>1. PICK j \in DOMAIN g : g[j].ts = Label(f[i].ts, a)  BY <1>6 DEF Resampled
  <2>2. i \in P[j]  BY <1>3, <1>6, <2>1 DEF InBucket
  <2> QED  BY <1>5, <1>6, <2>1, <2>2
<1>9. ASSUME NEW j \in Sg, NEW k \in Sg, NEW x \in P[j], NEW y \in P[k], g[j].ts < g[k].ts
      PROVE  f[x].ts < f[y].ts
  <2>1. x \in DOMAIN f /\ y \in DOMAIN f /\ Label(f[x].ts, a) < Label(f[y].ts, a)
    BY <1>4, <1>6, <1>9
  <2> QED  BY <1>0, <2>1, LabelsApart
<1>10. Nested(P, g, f, a, Sg, Sf)  BY <1>3, <1>6, <1>7, <1>8, <1>9 DEF Nested
<1> QED  BY <1>2, <1>10

\* What the candles tell of a coarser bucket is what the rows tell.
LEMMA BucketTwice ==
  ASSUME NEW a \in Nat \ {0}, NEW b \in Nat \ {0}, b % a = 0, NEW f, NEW g, Resampled(g, f, a),
         NEW label, InBucket(g, label, b) # {}
  PROVE  Bucket(g, label, b) = Bucket(f, label, b)
<1>0. Candled(f) /\ Candled(g)  BY DEF Resampled
<1>1. PICK Sg, Sf : Sg = InBucket(g, label, b) /\ Sf = InBucket(f, label, b)  OBVIOUS
<1>2. PICK P : Nested(P, g, f, a, Sg, Sf)  BY <1>1, BucketsNest
<1>3. /\ Sg \in SUBSET DOMAIN g /\ Sf \in SUBSET DOMAIN f
      /\ \A j \in Sg : P[j] \in SUBSET Sf
      /\ \A i \in Sf : \E j \in Sg : i \in P[j]
      /\ \A j, k \in Sg : \A x \in P[j], y \in P[k] : g[j].ts < g[k].ts => f[x].ts < f[y].ts
  BY <1>2 DEF Nested
<1>4. \A j \in Sg : /\ P[j] # {}
                    /\ \E i : FirstOf(f, P[j], i) /\ g[j].open = f[i].open
                    /\ \E i : LastOf(f, P[j], i) /\ g[j].close = f[i].close
                    /\ HighOf(f, P[j], g[j].high) /\ LowOf(f, P[j], g[j].low)
                    /\ g[j].volume = VolumeOf(f, P[j])
  BY <1>2 DEF Nested, Resampled
<1>5. \A j, k \in Sg : g[j].ts = g[k].ts => j = k  BY <1>3 DEF Resampled
<1>6. (\A i \in DOMAIN f : f[i].ts \in Int) /\ (\A j \in DOMAIN g : g[j].ts \in Int)
  BY <1>0 DEF Candled
<1>7. PICK jf : FirstOf(g, Sg, jf)  BY <1>0, <1>1, <1>3, BucketHas
<1>8. PICK jl : LastOf(g, Sg, jl)  BY <1>0, <1>1, <1>3, BucketHas
<1>9. PICK hi : HighOf(g, Sg, hi)  BY <1>0, <1>1, <1>3, BucketHas
<1>10. PICK lo : LowOf(g, Sg, lo)  BY <1>0, <1>1, <1>3, BucketHas
<1>11. PICK i : FirstOf(f, P[jf], i) /\ g[jf].open = f[i].open  BY <1>4, <1>7 DEF FirstOf
<1>12. PICK k : LastOf(f, P[jl], k) /\ g[jl].close = f[k].close  BY <1>4, <1>8 DEF LastOf
<1>13. FirstOf(f, Sf, i)
  <2>1. jf \in Sg /\ i \in P[jf]  BY <1>7, <1>11 DEF FirstOf
  <2>2. ASSUME NEW x \in Sf PROVE Before(f, i, x)
    <3>1. PICK j \in Sg : x \in P[j]  BY <1>3
    <3>2. g[jf].ts < g[j].ts \/ g[jf].ts = g[j].ts  BY <1>7 DEF FirstOf, Before
    <3>3. CASE g[jf].ts < g[j].ts  BY <1>3, <2>1, <3>1, <3>3 DEF Before
    <3>4. CASE g[jf].ts = g[j].ts
      <4>1. jf = j  BY <1>5, <2>1, <3>4
      <4> QED  BY <1>11, <3>1, <4>1 DEF FirstOf
    <3> QED  BY <3>2, <3>3, <3>4
  <2> QED  BY <1>3, <2>1, <2>2 DEF FirstOf
<1>14. LastOf(f, Sf, k)
  <2>1. jl \in Sg /\ k \in P[jl]  BY <1>8, <1>12 DEF LastOf
  <2>2. ASSUME NEW x \in Sf PROVE Before(f, x, k)
    <3>1. PICK j \in Sg : x \in P[j]  BY <1>3
    <3>2. g[j].ts < g[jl].ts \/ g[j].ts = g[jl].ts  BY <1>8 DEF LastOf, Before
    <3>3. CASE g[j].ts < g[jl].ts  BY <1>3, <2>1, <3>1, <3>3 DEF Before
    <3>4. CASE g[j].ts = g[jl].ts
      <4>1. jl = j  BY <1>5, <2>1, <3>4
      <4> QED  BY <1>12, <3>1, <4>1 DEF LastOf
    <3> QED  BY <3>2, <3>3, <3>4
  <2> QED  BY <1>3, <2>1, <2>2 DEF LastOf
<1>15. \A x \in DOMAIN f : f[x].high \in Int /\ f[x].low \in Int /\ f[x].volume \in Int
  BY <1>0 DEF Candled
<1>16. \A j \in DOMAIN g : g[j].high \in Int /\ g[j].low \in Int /\ g[j].volume \in Int
  BY <1>0 DEF Candled
<1>17. HighOf(f, Sf, hi)
  <2>1. PICK j \in Sg : hi = g[j].high  BY <1>9 DEF HighOf
  <2>2. \E x \in Sf : hi = f[x].high  BY <1>3, <1>4, <2>1 DEF HighOf
  <2>3. ASSUME NEW x \in Sf PROVE f[x].high <= hi
    <3>1. PICK m \in Sg : x \in P[m]  BY <1>3
    <3>2. f[x].high <= g[m].high /\ g[m].high <= hi  BY <1>4, <1>9, <3>1 DEF HighOf
    <3> QED  BY <1>3, <1>15, <1>16, <2>1, <3>2
  <2> QED  BY <2>2, <2>3 DEF HighOf
<1>18. LowOf(f, Sf, lo)
  <2>1. PICK j \in Sg : lo = g[j].low  BY <1>10 DEF LowOf
  <2>2. \E x \in Sf : lo = f[x].low  BY <1>3, <1>4, <2>1 DEF LowOf
  <2>3. ASSUME NEW x \in Sf PROVE lo <= f[x].low
    <3>1. PICK m \in Sg : x \in P[m]  BY <1>3
    <3>2. g[m].low <= f[x].low /\ lo <= g[m].low  BY <1>4, <1>10, <3>1 DEF LowOf
    <3> QED  BY <1>3, <1>15, <1>16, <2>1, <3>2
  <2> QED  BY <2>2, <2>3 DEF LowOf
<1>19. VolumeOf(g, Sg) = VolumeOf(f, Sf)
  <2>1. PICK v : v = [x \in DOMAIN f |-> f[x].volume]  OBVIOUS
  <2>2. PICK h : h = [j \in DOMAIN g |-> g[j].volume]  OBVIOUS
  <2>3. (\A x \in DOMAIN f : v[x] = f[x].volume) /\ (\A j \in DOMAIN g : h[j] = g[j].volume)
    BY <2>1, <2>2
  <2>4. \A x \in Sf : v[x] \in Int /\ v[x] = f[x].volume  BY <1>3, <1>15, <2>3
  <2>5. \A j \in Sg : h[j] = g[j].volume  BY <1>3, <2>3
  <2>6. VolumeOf(g, Sg) = SumFunctionOnSet(h, Sg)  BY <1>0, <1>3, <2>5, VolumeIsSum
  <2>7. VolumeOf(f, Sf) = SumFunctionOnSet(v, Sf)  BY <1>0, <1>3, <2>4, VolumeIsSum
  <2>8. \A j \in Sg : h[j] = SumFunctionOnSet(v, P[j])
    <3> SUFFICES ASSUME NEW j \in Sg PROVE h[j] = SumFunctionOnSet(v, P[j])  OBVIOUS
    <3>1. P[j] \in SUBSET DOMAIN f /\ \A x \in P[j] : v[x] = f[x].volume  BY <1>3, <2>4
    <3>2. VolumeOf(f, P[j]) = SumFunctionOnSet(v, P[j])  BY <1>0, <3>1, VolumeIsSum
    <3> QED  BY <1>4, <2>5, <3>2
  <2>9. IsFiniteSet(Sg) /\ IsFiniteSet(Sf)  BY <1>0, <1>3, FS_Subset DEF Candled
  <2>10. Parts(P, Sg, Sf)
    <3> SUFFICES ASSUME NEW j \in Sg, NEW m \in Sg, j # m PROVE P[j] \cap P[m] = {}
      BY <1>3 DEF Parts
    <3>1. g[j].ts \in Int /\ g[m].ts \in Int /\ g[j].ts # g[m].ts  BY <1>3, <1>5, <1>6
    <3>2. \A x \in P[j] : x \in DOMAIN f /\ f[x].ts \in Int  BY <1>3, <1>6
    <3>3. \A x \in P[j] : x \notin P[m]
      <4>1. CASE g[j].ts < g[m].ts  BY <1>3, <3>2, <4>1
      <4>2. CASE g[m].ts < g[j].ts  BY <1>3, <3>2, <4>2
      <4> QED  BY <3>1, <4>1, <4>2
    <3> QED  BY <3>3
  <2>11. SumFunctionOnSet(h, Sg) = SumFunctionOnSet(v, UNION {P[j] : j \in Sg})
    BY <2>4, <2>8, <2>9, <2>10, SumOfSums
  <2>12. UNION {P[j] : j \in Sg} = Sf  BY <1>3
  <2> QED  BY <2>6, <2>7, <2>11, <2>12
<1>20. Bucket(g, label, b) = [ts |-> label, open |-> g[jf].open, high |-> hi, low |-> lo,
                              close |-> g[jl].close, volume |-> VolumeOf(g, Sg)]
  BY <1>0, <1>1, <1>7, <1>8, <1>9, <1>10, BucketTells
<1>21. Bucket(f, label, b) = [ts |-> label, open |-> f[i].open, high |-> hi, low |-> lo,
                              close |-> f[k].close, volume |-> VolumeOf(f, Sf)]
  BY <1>0, <1>1, <1>13, <1>14, <1>17, <1>18, BucketTells
<1> QED  BY <1>11, <1>12, <1>19, <1>20, <1>21, Zenon

\* Resampling what was resampled is resampling at once.
LEMMA ResampleTwice ==
  ASSUME NEW a \in Nat \ {0}, NEW b \in Nat \ {0}, b % a = 0, NEW f, Candled(f),
         NEW g \in Resample(f, a)
  PROVE  Candled(g) /\ Resample(g, b) = Resample(f, b)
<1>1. Resampled(g, f, a)  BY ResampleIs
<1>2. (\A i \in DOMAIN f : f[i].ts \in Int) /\ Candled(g)  BY <1>1 DEF Candled, Resampled
<1> DEFINE labels(h) == {Label(ts, b) : ts \in TimesOf(h)}
<1>3. labels(g) = labels(f)
  <2>1. ASSUME NEW j \in DOMAIN g PROVE \E i \in DOMAIN f : Label(g[j].ts, b) = Label(f[i].ts, b)
    <3>1. PICK i : i \in InBucket(f, g[j].ts, a)  BY <1>1 DEF Resampled
    <3>2. i \in DOMAIN f /\ g[j].ts = Label(f[i].ts, a)  BY <3>1 DEF InBucket
    <3> QED  BY <1>2, <3>2, LabelsNest
  <2>2. ASSUME NEW i \in DOMAIN f PROVE \E j \in DOMAIN g : Label(g[j].ts, b) = Label(f[i].ts, b)
    <3>1. PICK j \in DOMAIN g : g[j].ts = Label(f[i].ts, a)  BY <1>1 DEF Resampled
    <3> QED  BY <1>2, <3>1, LabelsNest
  <2> QED  BY <2>1, <2>2 DEF TimesOf
<1>4. \A label \in labels(g) : Bucket(g, label, b) = Bucket(f, label, b)
  <2>1. ASSUME NEW label \in labels(g) PROVE InBucket(g, label, b) # {}  BY DEF TimesOf, InBucket
  <2> HIDE DEF labels
  <2> QED  BY <1>1, <2>1, BucketTwice
<1>5. {Bucket(g, label, b) : label \in labels(g)} = {Bucket(f, label, b) : label \in labels(f)}
  <2> HIDE DEF labels
  <2> QED  BY <1>3, <1>4
<1> QED  BY <1>2, <1>5, Zenon DEF Resample

\* A loader invents no row.
LEMMA ParsedAreRows ==
  ASSUME loader \in Loaders, NEW rows, Frame(rows), NEW f \in Parsed(rows)
  PROVE  ToSet(f) \subseteq ToSet(rows)
<1>1. Stamped(ToSet(rows))  BY FramesAreStamped
<1>2. \A U \in SUBSET ToSet(rows) : \A h \in SetToSeqs(U) : ToSet(h) = U
  <2> SUFFICES ASSUME NEW U \in SUBSET ToSet(rows), NEW h \in SetToSeqs(U) PROVE ToSet(h) = U
    OBVIOUS
  <2>1. IsFiniteSet(U)  BY <1>1, FS_Subset DEF Stamped
  <2> QED  BY <2>1, ArrangementsCover
<1>3. Timed(rows) \in SUBSET ToSet(rows)  BY DEF Timed, ToSet
<1>4. CASE loader = CME
  <2>1. f \in Continuous(rows)  BY <1>4, MarketAssumption DEF Parsed
  <2> DEFINE kept == {rows[i] : i \in OfFamily(rows)}
             rolls == {front \in [DaysOf(kept) -> {r.sym : r \in kept}] :
                        \A d \in DaysOf(kept) : front[d] \in FrontMonths(rows, d)}
             joined(lead) == {r \in kept : r.sym = lead[DayOf(r.ts)]}
  <2>2. PICK front \in rolls : f \in UNION {SortsOf(U) : U \in UniquesOf(joined(front))}
    BY <2>1 DEF Continuous
  <2>3. PICK U \in UniquesOf(joined(front)) : f \in SortsOf(U)  BY <2>2
  <2>4. joined(front) \in SUBSET ToSet(rows)  BY DEF OfFamily, ToSet
  <2>5. U \in SUBSET ToSet(rows) /\ f \in SetToSeqs(U)  BY <2>3, <2>4 DEF UniquesOf, SortsOf
  <2> QED  BY <1>2, <2>5
<1>5. CASE loader = OHLCV
  <2>1. f \in Normalized(rows)  BY <1>5, MarketAssumption DEF Parsed
  <2>2. PICK U \in UniquesOf(Timed(rows)) : f \in SetToSeqs(U)  BY <2>1 DEF Normalized
  <2>3. U \in SUBSET ToSet(rows)  BY <1>3, <2>2 DEF UniquesOf
  <2> QED  BY <1>2, <2>2, <2>3
<1>6. CASE loader = L2
  <2>1. f \in SortsOf(Timed(rows))  BY <1>6, MarketAssumption DEF Parsed, TicksOf
  <2>2. f \in SetToSeqs(Timed(rows))  BY <2>1 DEF SortsOf
  <2> QED  BY <1>2, <1>3, <2>2
<1> QED  BY <1>4, <1>5, <1>6 DEF Loaders

\* So a load answers rows that some source offers.
LEMMA AnswersAreRows ==
  ASSUME IInv, TicksInv, answer.given
  PROVE  ToSet(answer.rows) \subseteq Offered
<1>1. loader \in Loaders /\ written \in [Keys -> Source]  BY DEF IInv, TypeInv
<1>2. ASSUME NEW k \in Keys PROVE Frame(written[k]) /\ ToSet(written[k]) \subseteq Offered
  <2>1. written[k] \in Source  BY <1>1
  <2>2. ToSet(written[k]) \subseteq Offered  BY <2>1 DEF Source, ToSet
  <2> QED  BY <1>1, <2>1, <2>2, SourcesAreFrames
<1>3. CASE loader = L2
  <2>1. answer.days \subseteq Keys /\ ToSet(answer.rows) = Held(answer.days)
    BY <1>3 DEF TicksInv
  <2>2. \A k \in Keys : Timed(written[k]) \subseteq ToSet(written[k])  BY DEF Timed, ToSet
  <2>3. \A k \in Keys : Timed(written[k]) \subseteq Offered  BY <1>2, <2>2
  <2> QED  BY <2>1, <2>3 DEF Held
<1>4. CASE loader # L2
  <2>1. cache[0].state = "whole" /\ answer.rows \in Cuts(cache[0].rows, answer.days)
    BY <1>4 DEF IInv, SeriesInv
  <2>2. cache[0].rows \in Parsed(written[0])  BY <2>1 DEF IInv, CacheInv, Keys
  <2>3. 0 \in Keys  BY DEF Keys
  <2>4. Frame(cache[0].rows)  BY <2>3 DEF IInv, TypeInv
  <2>5. ToSet(cache[0].rows) \subseteq Offered  BY <1>1, <1>2, <2>2, <2>3, ParsedAreRows
  <2>6. ToSet(answer.rows) \subseteq ToSet(cache[0].rows)
    <3>1. CASE loader = CME
      <4>1. OfDays(cache[0].rows, answer.days) \in SUBSET ToSet(cache[0].rows)  BY DEF OfDays
      <4>2. IsFiniteSet(OfDays(cache[0].rows, answer.days))
        BY <2>4, <4>1, FramesAreStamped, FS_Subset DEF Stamped
      <4>3. answer.rows \in SetToSeqs(OfDays(cache[0].rows, answer.days))
        BY <2>1, <3>1 DEF Cuts, SortsOf
      <4> QED  BY <4>1, <4>2, <4>3, ArrangementsCover
    <3>2. CASE loader # CME  BY <2>1, <3>2 DEF Cuts
    <3> QED  BY <3>1, <3>2
  <2> QED  BY <2>5, <2>6
<1> QED  BY <1>3, <1>4

\* Their bars are resampled in steps as at once: from one minute on, whatever
\* is missing.
LEMMA StudiesCompose ==
  ASSUME IInv, TicksInv
  PROVE  ResampleComposes
<1> SUFFICES ASSUME answer.given, NEW a \in Timeframes, NEW b \in Timeframes, b % a = 0,
                    NEW fine \in StudyBars(a), NEW bars \in StudyBars(1)
             PROVE  Resample(fine, b) = Resample(bars, b)
  BY DEF ResampleComposes
<1>1. a \in Nat \ {0} /\ b \in Nat \ {0} /\ b % 1 = 0 /\ 1 \in Nat \ {0}  BY MarketAssumption
<1>2. PICK f : f = answer.rows  OBVIOUS
<1>3. IsFiniteSet(DOMAIN f) /\ DOMAIN f \subseteq Int /\ \A i \in DOMAIN f : f[i].ts \in Int
  <2>1. Frame(f)  BY <1>2 DEF IInv, TypeInv
  <2>2. PICK S : f \in Seq(S)  BY <2>1 DEF Frame
  <2>3. DOMAIN f = 1 .. Len(f) /\ Len(f) \in Nat  BY <2>2
  <2>4. IsFiniteSet(DOMAIN f)  BY <2>3, FS_Interval
  <2> QED  BY <2>1, <2>3, <2>4, FramesAreStamped
<1>4. \A i \in DOMAIN f : f[i] \in Offered  BY <1>2, AnswersAreRows DEF ToSet
<1>5. CASE loader = L2
  <2>1. PICK ticks : ticks = [i \in DOMAIN f |->
                      [ts |-> f[i].ts, open |-> f[i].mid, high |-> f[i].mid, low |-> f[i].mid,
                       close |-> f[i].mid, volume |-> f[i].volume]]
    OBVIOUS
  <2>2. \A i \in DOMAIN f : f[i].mid \in Int /\ f[i].volume \in Int
    BY <1>4, <1>5, MarketAssumption DEF Loaders, Offered
  <2>3. DOMAIN ticks = DOMAIN f
        /\ \A i \in DOMAIN f : /\ ticks[i].ts = f[i].ts /\ ticks[i].high = f[i].mid
                               /\ ticks[i].low = f[i].mid /\ ticks[i].volume = f[i].volume
    BY <2>1
  <2>4. Candled(ticks)  BY <1>3, <2>2, <2>3 DEF Candled
  <2>5. \A tf : StudyBars(tf) = Resample(ticks, tf)
    BY <1>2, <1>5, <2>1, Zenon DEF StudyBars, BarsFromTicks
  <2>6. fine \in Resample(ticks, a) /\ bars \in Resample(ticks, 1)  BY <2>5
  <2> QED  BY <1>1, <2>4, <2>6, ResampleTwice
<1>6. CASE loader # L2
  <2>1. loader \in {CME, OHLCV}  BY <1>6 DEF IInv, TypeInv, Loaders
  <2>2. \A i \in DOMAIN f : f[i].high \in Int /\ f[i].low \in Int /\ f[i].volume \in Int
    BY <1>4, <2>1, MarketAssumption DEF Loaders, Offered
  <2>3. Candled(f)  BY <1>3, <2>2 DEF Candled
  <2>4. bars = f /\ (fine = f \/ fine \in Resample(f, a))  BY <1>2, <1>6 DEF StudyBars
  <2> QED  BY <1>1, <2>3, <2>4, ResampleTwice
<1> QED  BY <1>5, <1>6

\* A load answers one version of one source, whichever loader it is: of the
\* ticks as well, day by day. It is the source that made the cache; of a load
\* that does not trust the cache, the one it was given.
THEOREM LoadsAreOneVersion == MarketSpec => []AnswersAreOneVersion
<1>1. IInv /\ TicksInv /\ MakerInv => AnswersAreOneVersion
  <2> SUFFICES ASSUME IInv, TicksInv, MakerInv, answer.given PROVE AnswersAreOneVersion
    BY DEF AnswersAreOneVersion
  <2>1. CASE loader = L2  BY <2>1 DEF TicksInv, MakerInv, AnswersAreOneVersion, Held
  <2>2. CASE loader # L2
    <3>1. \E f \in Parsed(written[0]) : answer.rows \in Cuts(f, answer.days)
      BY <2>2, SeriesAnswer
    <3> QED  BY <2>2, <3>1 DEF MakerInv, AnswersAreOneVersion
  <2> QED  BY <2>1, <2>2
<1>2. MarketSpec => []TicksInv  BY InitTicks, StepTicks, MarketInvariant, PTL DEF MarketSpec
<1>3. MarketSpec => []MakerInv  BY InitMaker, StepMaker, MarketInvariant, PTL DEF MarketSpec
<1> QED  BY <1>1, <1>2, <1>3, MarketInvariant, PTL

\* The continuous series does not look ahead, whatever the contracts, the days
\* and the volumes.
THEOREM RollsAreCausal == MarketSpec => []RollsLookNoFurther
<1>1. IInv /\ TimeInv => RollsLookNoFurther  BY RollsStand
<1>2. MarketSpec => []TimeInv  BY InitTime, StepTime, MarketInvariant, PTL DEF MarketSpec
<1> QED  BY <1>1, <1>2, MarketInvariant, PTL

\* A gap report counts what is missing, and with the filter all of it but the
\* gaps about the break, whatever the bars and the timeframe.
THEOREM GapsAreCounted == MarketSpec => []GapsAreExact
<1>1. IInv => GapsAreExact  BY GapsStand
<1> QED  BY <1>1, MarketInvariant, PTL

\* Bars of a coarser timeframe are the same made from the loaded minutes or
\* from finer bars, whatever was loaded and whatever is missing of it.
THEOREM ResamplingComposes == MarketSpec => []ResampleComposes
<1>1. IInv /\ TicksInv => ResampleComposes  BY StudiesCompose
<1>2. MarketSpec => []TicksInv  BY InitTicks, StepTicks, MarketInvariant, PTL DEF MarketSpec
<1> QED  BY <1>1, <1>2, MarketInvariant, PTL
=============================================================================
