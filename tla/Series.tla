------------------------------- MODULE Series -------------------------------
(***************************************************************************)
(* The bars the detectors read and the intervals they return. Prices are   *)
(* whole ticks. A series is a sequence of candles; the bar the code calls  *)
(* index i is bar i + 1 here, and 0 stands for None.                       *)
(***************************************************************************)
EXTENDS Integers, Sequences, FiniteSetsExt

None == 0

BULL == "BULL"
BEAR == "BEAR"
Against(dir) == IF dir = BULL THEN BEAR ELSE BULL

\* A candle that was traded has its body in its range.
Candle == [open : Int, high : Int, low : Int, close : Int]
Sound(c) == c.low <= c.open /\ c.open <= c.high /\ c.low <= c.close /\ c.close <= c.high

Larger(x, y)  == IF x >= y THEN x ELSE y
Smaller(x, y) == IF x <= y THEN x ELSE y
Distance(x, y) == Larger(x, y) - Smaller(x, y)

BodyTop(c) == Larger(c.open, c.close)
BodyBot(c) == Smaller(c.open, c.close)
Body(c)    == BodyTop(c) - BodyBot(c)
Spread(c)  == c.high - c.low

\* The direction of a bar; a doji has none.
BarDir(c) ==
  IF c.close > c.open THEN BULL ELSE IF c.close < c.open THEN BEAR ELSE "none"

\* Closed price intervals.
Interval(lo, hi) == [low |-> lo, high |-> hi]
Intersects(a, b) == a.high >= b.low /\ b.high >= a.low
Intersection(a, b) == Interval(Larger(a.low, b.low), Smaller(a.high, b.high))

\* A body that has closed beyond the middle of a range, against dir.
\* The middle may be half a tick, so both sides are doubled.
ClosesBeyondMid(c, dir, range) ==
  IF dir = BULL THEN 2 * BodyBot(c) < range.low + range.high
                ELSE 2 * BodyTop(c) > range.low + range.high

\* The first bar of a set of bars, None if there is none.
FirstOf(S) == IF S = {} THEN None ELSE Min(S)
=============================================================================
