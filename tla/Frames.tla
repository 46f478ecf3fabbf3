------------------------------- MODULE Frames -------------------------------
(***************************************************************************)
(* The tables of the data package: what the loaders make of the rows of a  *)
(* source (data/loaders), how bars are resampled (data/resampler.py) and   *)
(* what the validators report (data/validators.py). A frame is a sequence  *)
(* of rows. Time is in minutes; an hour and a day are as long as the       *)
(* constants say, so that a small series crosses them.                     *)
(***************************************************************************)
EXTENDS Integers, Sequences, FiniteSets, SequencesExt

CONSTANTS
  HourMinutes,   \* minutes of an hour
  DayMinutes,    \* minutes of a day
  BreakHour,     \* CME_BREAK_HOUR
  Outrights      \* the contracts of the family: no other family, no spread

ASSUME FramesAssumption ==
  /\ HourMinutes \in Nat \ {0}
  /\ DayMinutes \in Nat \ {0}
  /\ BreakHour \in Nat

NoTime == -1     \* a time stamp that does not parse

DayOf(ts)  == ts \div DayMinutes
HourOf(ts) == (ts % DayMinutes) \div HourMinutes

Timed(rows) == {rows[i] : i \in {j \in DOMAIN rows : rows[j].ts # NoTime}}
TimesOf(f)  == {f[i].ts : i \in DOMAIN f}
DaysOf(S)   == {DayOf(r.ts) : r \in S}

\* The rows of some days.
OfDays(f, days) == {r \in ToSet(f) : DayOf(r.ts) \in days}

Ordered(f) == \A i, j \in DOMAIN f : i < j => f[i].ts <= f[j].ts

\* sort("ts_ny"): rows of one moment may come in any order, so a table with
\* such rows has several sorted forms.
SortsOf(S) == {f \in SetToSeqs(S) : Ordered(f)}

\* unique(["ts_ny"], keep = "first"): one row of each moment.
UniquesOf(S) ==
  {U \in SUBSET S : /\ {r.ts : r \in U} = {r.ts : r \in S}
                    /\ \A r, s \in U : r.ts = s.ts => r = s}

-----------------------------------------------------------------------------
\* cme_csv: each day is told by the contract that trades most on it.
OfFamily(file) == {i \in DOMAIN file : file[i].ts # NoTime /\ file[i].sym \in Outrights}

VolumeOf(file, lines) == SumFunction([i \in lines |-> file[i].volume])

DailyVolume(file, day, sym) ==
  VolumeOf(file, {i \in OfFamily(file) : DayOf(file[i].ts) = day /\ file[i].sym = sym})

TradedOn(file, day) == {file[i].sym : i \in {j \in OfFamily(file) : DayOf(file[j].ts) = day}}

\* Mutant: the contract that trades most over the whole file.
FrontMonthsOverall(file, day) ==
  LET total(s) == VolumeOf(file, {i \in OfFamily(file) : file[i].sym = s})
  IN  {s \in TradedOn(file, day) : \A t \in TradedOn(file, day) : total(t) <= total(s)}

\* More than one contract when two trade the same volume.
FrontMonths(file, day) ==
  {s \in TradedOn(file, day) :
    \A t \in TradedOn(file, day) : DailyVolume(file, day, t) <= DailyVolume(file, day, s)}

\* The continuous series: the front month's rows of each day, deduplicated,
\* then sorted.
Continuous(file) ==
  LET rows  == {file[i] : i \in OfFamily(file)}
      rolls == {front \in [DaysOf(rows) -> {r.sym : r \in rows}] :
                 \A d \in DaysOf(rows) : front[d] \in FrontMonths(file, d)}
      joined(front) == {r \in rows : r.sym = front[DayOf(r.ts)]}
  IN  UNION {UNION {SortsOf(U) : U \in UniquesOf(joined(front))} : front \in rolls}

\* ohlcv_http: sorted, then deduplicated, which promises no order.
Normalized(payload) == UNION {SetToSeqs(U) : U \in UniquesOf(Timed(payload))}

\* l2_csv: sorted, with every tick.
TicksOf(csv) == SortsOf(Timed(csv))

-----------------------------------------------------------------------------
\* resample and bars_from_ticks: left-closed buckets, labelled by their start.
\* Mutant: buckets closed on the right.
LabelRight(ts, tf) == (ts - 1) - ((ts - 1) % tf)

Label(ts, tf) == ts - (ts % tf)

\* The candle of the rows that share a label: in time, and within a moment in
\* the table's order.
Bucket(f, label, tf) ==
  LET rows   == {i \in DOMAIN f : Label(f[i].ts, tf) = label}
      before(i, j) == f[i].ts < f[j].ts \/ (f[i].ts = f[j].ts /\ i <= j)
      first  == CHOOSE i \in rows : \A j \in rows : before(i, j)
      last   == CHOOSE i \in rows : \A j \in rows : before(j, i)
  IN  [ts     |-> label,
       open   |-> f[first].open,
       high   |-> Max({f[i].high : i \in rows}),
       low    |-> Min({f[i].low : i \in rows}),
       close  |-> f[last].close,
       volume |-> VolumeOf(f, rows)]

\* Labels differ, so the table of the buckets has one sorted form.
Resample(f, tf) == SortsOf({Bucket(f, label, tf) : label \in {Label(ts, tf) : ts \in TimesOf(f)}})

\* A tick counts with its mid price, as a candle of no height.
BarsFromTicks(ticks, tf) ==
  Resample([i \in DOMAIN ticks |->
             [ts |-> ticks[i].ts, open |-> ticks[i].mid, high |-> ticks[i].mid,
              low |-> ticks[i].mid, close |-> ticks[i].mid, volume |-> ticks[i].volume]], tf)

-----------------------------------------------------------------------------
\* check_bar_gaps: between neighbours more than a bar apart, how many bars
\* are missing; with the filter, not when they lie about the daily break.
SpansBreak(prev, next) ==
  \/ HourOf(prev) < BreakHour /\ BreakHour <= HourOf(next)
  \/ DayOf(prev) # DayOf(next) /\ HourOf(prev) >= BreakHour

\* Mutant: the bar that ends the gap counts as missing.
MissingAndNext(prev, next, tf) == (next - prev) \div tf

Missing(prev, next, tf) == (next - prev) \div tf - 1

GapsAt(f, tf, filter) ==
  {i \in 1 .. Len(f) - 1 :
    /\ f[i + 1].ts - f[i].ts > tf
    /\ Missing(f[i].ts, f[i + 1].ts, tf) > 0
    /\ ~(filter /\ SpansBreak(f[i].ts, f[i + 1].ts))}

TotalMissing(f, tf, filter) ==
  SumFunction([i \in GapsAt(f, tf, filter) |-> Missing(f[i].ts, f[i + 1].ts, tf)])

\* check_bar_duplicates and check_tick_monotonicity.
DuplicatedTimes(f) ==
  {ts \in TimesOf(f) : Cardinality({i \in DOMAIN f : f[i].ts = ts}) > 1}
IsMonotonic(f) == \A i \in 1 .. Len(f) - 1 : f[i].ts <= f[i + 1].ts
=============================================================================
