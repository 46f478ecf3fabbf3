---------------------------- MODULE WalkForward ----------------------------
(***************************************************************************)
(* validation/walk_forward.py: a series is cut into equal segments of      *)
(* time; each leads with what a fit may see, then an embargo, then the     *)
(* window the pipeline is run on. Moments are in units of datetime's       *)
(* resolution, UnitsPerMinute of them to a minute, and divisions round to  *)
(* the nearest, ties to even, as timedelta's do.                           *)
(***************************************************************************)
EXTENDS Integers, Sequences, SequencesExt

CONSTANTS
  UnitsPerMinute,
  TrainPercent,   \* train_ratio
  EmbargoBars     \* embargo_bars, which are minutes

ASSUME WalkForwardAssumption ==
  /\ UnitsPerMinute \in Nat \ {0}
  /\ TrainPercent \in 0 .. 100
  /\ EmbargoBars \in Nat \ {0}

DivideAndRound(a, b) ==
  LET q == a \div b
      r == a % b
  IN  IF 2 * r > b \/ (2 * r = b /\ q % 2 = 1) THEN q + 1 ELSE q

Moment(bar) == bar.ts * UnitsPerMinute

FoldSpan(bars, n) == DivideAndRound(Moment(bars[Len(bars)]) - Moment(bars[1]), n)

SegStart(first, span, i) == first + span * i
SegEnd(first, span, i)   == first + span * (i + 1)

TrainEnd(first, span, i) == SegStart(first, span, i) + DivideAndRound(span * TrainPercent, 100)

\* Mutant: the embargo is taken from the training window.
TestStartEarly(first, span, i) == TrainEnd(first, span, i) - EmbargoBars * UnitsPerMinute

TestStart(first, span, i) == TrainEnd(first, span, i) + EmbargoBars * UnitsPerMinute

\* slice(test_start, seg_end), both ends included: the moments of its bars.
TestBars(bars, from, to) == {Moment(bars[i]) : i \in DOMAIN bars} \cap (from .. to)

Fold(bars, span, i) ==
  LET first == Moment(bars[1])
  IN  [index |-> i,
       trainStart |-> SegStart(first, span, i), trainEnd |-> TrainEnd(first, span, i),
       testStart |-> TestStart(first, span, i), testEnd |-> SegEnd(first, span, i),
       tested |-> TestBars(bars, TestStart(first, span, i), SegEnd(first, span, i))]

\* The folds, less those whose embargo leaves no window or whose window no bar.
Folds(bars, n) ==
  IF bars = <<>> THEN {}
  ELSE {f \in {Fold(bars, FoldSpan(bars, n), i) : i \in 0 .. n - 1} :
         f.testStart < f.testEnd /\ f.tested # {}}
=============================================================================
