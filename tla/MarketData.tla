----------------------------- MODULE MarketData -----------------------------
(***************************************************************************)
(* A research process that loads its market data: load_cme_csv,            *)
(* fetch_ohlcv_1m, or load_day and load_range of the tick files. A load is *)
(* given its source: a csv_path, a url, a csv_dir. Each source grows by    *)
(* itself; what a loader made of one is kept in a parquet file, one for    *)
(* the series, one for each day of ticks, which is trusted whenever it is  *)
(* there: its name does not tell of which source it was made. The file is  *)
(* written in place, so a process that dies while writing leaves a torn    *)
(* one. What was loaded may be resampled, reported on and cut into the     *)
(* folds of a walk-forward study.                                          *)
(***************************************************************************)
EXTENDS Frames, WalkForward

CONSTANTS
  CME, OHLCV, L2,  \* the loaders
  Sources,         \* what csv_path, url or csv_dir may be
  Days,            \* the days the calls ask for
  FeedRows,        \* for each source and loader, the rows it may give; prices
                   \* in price ticks
  Timeframes,      \* the minutes of a bar a study may ask for
  FoldCounts,      \* n_folds
  MaxRows          \* bound: rows of each source

Loaders == {CME, OHLCV, L2}

ASSUME MarketAssumption ==
  /\ CME # OHLCV /\ CME # L2 /\ OHLCV # L2
  /\ Days \subseteq Nat
  /\ Timeframes \subseteq Nat \ {0}
  /\ FoldCounts \subseteq Nat \ {0}
  /\ \A source \in Sources :
       /\ MaxRows[source] \in Nat
       /\ \A l \in Loaders : \A r \in FeedRows[source][l] : r.ts \in Int /\ r.volume \in Int
       /\ \A l \in {CME, OHLCV} : \A r \in FeedRows[source][l] : r.high \in Int /\ r.low \in Int
       /\ \A r \in FeedRows[source][L2] : r.mid \in Int

VARIABLES
  loader,   \* the one this process uses
  feed,     \* the rows each source holds under a key; <<>>: there is none
  cache,    \* the parquet files
  written,  \* history: what the source held when the cache was last made
  maker,    \* history: which source that was
  call,     \* the load under way
  answer,   \* the bars of the last load
  study     \* the folds of the last study

marketVars == <<loader, feed, cache, written, maker, call, answer, study>>

-----------------------------------------------------------------------------
\* A tick file for each day; one series for the other loaders.
Key(l, ts) == IF l = L2 THEN DayOf(ts) ELSE 0
Keys == {0} \cup Days
FilesOf(days) == IF loader = L2 THEN days ELSE {0}

\* What parsing makes of a source: one of these.
Parsed(rows) ==
  CASE loader = CME   -> Continuous(rows)
    [] loader = OHLCV -> Normalized(rows)
    [] OTHER          -> TicksOf(rows)

Absent == [state |-> "absent", rows |-> <<>>]
Torn   == [state |-> "torn", rows |-> <<>>]
Whole(rows) == [state |-> "whole", rows |-> rows]

\* A call works through the files it needs, in order of their days. The frame
\* it has parsed and writes belongs to the first of them.
NoSource == "none"
Idle == [phase |-> "idle", source |-> NoSource, days |-> {}, todo |-> {}, useCache |-> FALSE,
         refresh |-> FALSE, parsed |-> <<>>, got |-> <<>>]
Begin(source, days, useCache, refresh) ==
  [phase |-> "read", source |-> source, days |-> days, todo |-> FilesOf(days),
   useCache |-> useCache, refresh |-> refresh, parsed |-> <<>>, got |-> <<>>]
Current(k) == k \in call.todo /\ \A j \in call.todo : k <= j

NoAnswer == [given |-> FALSE, source |-> NoSource, trusted |-> FALSE, days |-> {}, rows |-> <<>>]

DayRanges == {{d \in Days : a <= d /\ d <= b} : a, b \in Days}

Init ==
  /\ loader \in Loaders
  /\ feed = [source \in Sources |-> [k \in Keys |-> <<>>]]
  /\ cache = [k \in Keys |-> Absent]
  /\ written = [k \in Keys |-> <<>>]
  /\ maker = [k \in Keys |-> NoSource]
  /\ call = Idle
  /\ answer = NoAnswer
  /\ study = {}

\* A source is written in the order of its time stamps, the malformed apart.
SourceGrows ==
  \E source \in Sources : \E r \in FeedRows[source][loader] :
    \E k \in IF r.ts = NoTime THEN Keys ELSE {Key(loader, r.ts)} :
      /\ Len(feed[source][k]) < MaxRows[source]
      /\ r.ts = NoTime \/ \A ts \in TimesOf(feed[source][k]) : ts <= r.ts
      /\ feed' = [feed EXCEPT ![source][k] = Append(@, r)]
      /\ UNCHANGED <<loader, cache, written, maker, call, answer, study>>

Calls(c) ==
  /\ call.phase = "idle"
  /\ call' = c
  /\ answer' = NoAnswer
  /\ study' = {}
  /\ UNCHANGED <<loader, feed, cache, written, maker>>

LoadSeries ==
  /\ loader \in {CME, OHLCV}
  /\ \E source \in Sources, useCache, refresh \in BOOLEAN :
       \E days \in IF loader = CME THEN DayRanges ELSE {Days} :
         Calls(Begin(source, days, useCache, refresh))

LoadDay ==
  /\ loader = L2
  /\ \E source \in Sources, d \in Days, useCache, refresh \in BOOLEAN :
       Calls(Begin(source, {d}, useCache, refresh))

\* load_range goes through the days its source has a file for, and never
\* refreshes.
LoadRange ==
  /\ loader = L2
  /\ \E source \in Sources, days \in DayRanges, useCache \in BOOLEAN :
       Calls(Begin(source, {d \in days : feed[source][d] # <<>>}, useCache, FALSE))

Reading(k) == call.phase = "read" /\ Current(k)
Trusts == call.useCache /\ ~call.refresh

\* The rows of a file join those of the files before it.
Take(c, k, rows) ==
  [c EXCEPT !.phase = "read", !.parsed = <<>>, !.got = @ \o rows, !.todo = @ \ {k}]

CacheHit(k) ==
  /\ Reading(k) /\ Trusts
  /\ cache[k].state = "whole"
  /\ call' = Take(call, k, cache[k].rows)
  /\ UNCHANGED <<loader, feed, cache, written, maker, answer, study>>

\* A torn file is read as any other, and raises; so does a source that is not
\* there, or an endpoint that does not answer.
Raises(k) ==
  /\ Reading(k)
  /\ \/ Trusts /\ cache[k].state = "torn"
     \/ /\ Trusts => cache[k].state = "absent"
        /\ feed[call.source][k] = <<>> \/ loader = OHLCV
  /\ call' = Idle
  /\ UNCHANGED <<loader, feed, cache, written, maker, answer, study>>

\* The source is read and cleaned; writing begins, and truncates the file.
Parse(k) ==
  /\ Reading(k)
  /\ Trusts => cache[k].state = "absent"
  /\ feed[call.source][k] # <<>>
  /\ \E rows \in Parsed(feed[call.source][k]) :
       call' = [call EXCEPT !.phase = "write", !.parsed = rows]
  /\ cache' = [cache EXCEPT ![k] = Torn]
  /\ written' = [written EXCEPT ![k] = feed[call.source][k]]
  /\ maker' = [maker EXCEPT ![k] = call.source]
  /\ UNCHANGED <<loader, feed, answer, study>>

\* The dates cut the continuous series. It is sorted and has a row for a moment,
\* so what is left has one sorted form.
Cuts(f, days) == IF loader = CME THEN SortsOf(OfDays(f, days)) ELSE {f}

\* Mutant: what the call asked for is written, not what was parsed.
WritesCut(c) == {Whole(f) : f \in Cuts(c.parsed, c.days)}

Writes(c) == {Whole(c.parsed)}

WriteDone(k) ==
  /\ call.phase = "write" /\ Current(k)
  /\ \E file \in Writes(call) : cache' = [cache EXCEPT ![k] = file]
  /\ call' = Take(call, k, call.parsed)
  /\ UNCHANGED <<loader, feed, written, maker, answer, study>>

\* The process dies, or the disk is full.
Dies ==
  /\ call.phase # "idle"
  /\ call' = Idle
  /\ UNCHANGED <<loader, feed, cache, written, maker, answer, study>>

\* load_range sorts what it has put together.
Answer ==
  /\ call.phase = "read" /\ call.todo = {}
  /\ \E rows \in IF loader = L2 THEN SortsOf(ToSet(call.got)) ELSE Cuts(call.got, call.days) :
       answer' = [given |-> TRUE, source |-> call.source, trusted |-> Trusts,
                  days |-> call.days, rows |-> rows]
  /\ call' = Idle
  /\ UNCHANGED <<loader, feed, cache, written, maker, study>>

\* The bars of a study; those of one minute are taken as they were loaded.
StudyBars(tf) ==
  IF loader = L2 THEN BarsFromTicks(answer.rows, tf)
  ELSE IF tf = 1 THEN {answer.rows} ELSE Resample(answer.rows, tf)

Study ==
  /\ call.phase = "idle" /\ answer.given
  /\ \E tf \in Timeframes, n \in FoldCounts : \E bars \in StudyBars(tf) : study' = Folds(bars, n)
  /\ UNCHANGED <<loader, feed, cache, written, maker, call, answer>>

MarketNext ==
  \/ SourceGrows \/ LoadSeries \/ LoadDay \/ LoadRange
  \/ \E k \in Keys : CacheHit(k) \/ Raises(k) \/ Parse(k) \/ WriteDone(k)
  \/ Dies \/ Answer \/ Study

MarketSpec == Init /\ [][MarketNext]_marketVars

(***************************************************************************)
(* Properties.                                                             *)
(***************************************************************************)
\* A load answers one version of one source for each file it reads, cut to the
\* dates it was asked: whoever filled the cache, with whatever dates, and
\* whichever writes died in between, no row is lost, invented or taken from two
\* versions. It is the source that made the cache, which need not be the one the
\* load was given: a load that does not use the cache or refreshes it answers
\* its own source, any other load whichever source came first.
AnswersAreOneVersion ==
  answer.given =>
    /\ IF loader = L2
       THEN ToSet(answer.rows) = UNION {Timed(written[d]) : d \in answer.days}
       ELSE \E f \in Parsed(written[0]) : answer.rows \in Cuts(f, answer.days)
    /\ ~answer.trusted => \A k \in FilesOf(answer.days) : maker[k] = answer.source

\* The continuous series does not look ahead: of the days that were over at
\* some row of the file it says what it would have said of the file up to there.
RollsLookNoFurther ==
  (loader = CME /\ cache[0].state = "whole") =>
    \A n \in 1 .. Len(written[0]) - 1 :
      LET past == SubSeq(written[0], 1, n)
          next == written[0][n + 1].ts
      IN  (next # NoTime /\ DayOf(next) \notin DaysOf(Timed(past))) =>
            \E f \in Continuous(past) : OfDays(cache[0].rows, DaysOf(Timed(past))) = ToSet(f)

\* A walk-forward study tests a moment in one fold at most, and leaves the
\* embargo between all a fold may train on and all it tests. It takes an embargo
\* of a bar at least, which walk_forward does not ask of its caller: with none,
\* the bar a fold ends its training on may be the first it tests.
EachBarTestedOnce ==
  \A f, g \in study :
    /\ f.index # g.index => f.tested \cap g.tested = {}
    /\ \A x \in f.tested, y \in f.trainStart .. f.trainEnd :
         x - y >= EmbargoBars * UnitsPerMinute

\* Resampling in steps and at once give the same bars, whatever is missing.
ResampleComposes ==
  answer.given =>
    \A a, b \in Timeframes :
      b % a = 0 => \A fine \in StudyBars(a), bars \in StudyBars(1) : Resample(fine, b) = Resample(bars, b)

\* On bars in order the gap report counts exactly the bars that are missing
\* between the first and the last. With the filter it forgives those that lie in
\* a gap about the daily break, all of the gap however long, and no others.
GapsAreExact ==
  answer.given =>
    \A tf \in Timeframes : \A bars \in StudyBars(tf) :
      LET due == {ts \in bars[1].ts .. bars[Len(bars)].ts : Label(ts, tf) = ts}
          missing == due \ TimesOf(bars)
          forgiven == {ts \in missing : \E i \in 1 .. Len(bars) - 1 :
                         /\ bars[i].ts < ts /\ ts < bars[i + 1].ts
                         /\ SpansBreak(bars[i].ts, bars[i + 1].ts)}
      IN  (bars # <<>> /\ IsMonotonic(bars) /\ DuplicatedTimes(bars) = {}) =>
            /\ TotalMissing(bars, tf, FALSE) = Cardinality(missing)
            /\ TotalMissing(bars, tf, TRUE) = Cardinality(missing \ forgiven)
=============================================================================
