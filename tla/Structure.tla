----------------------------- MODULE Structure -----------------------------
(***************************************************************************)
(* The detectors that read nothing but bars (structure/swings.py,          *)
(* structure/displacement.py, signals/liquidity). Each is a function of a  *)
(* series s; the marks it returns are records. The thresholds of a         *)
(* displacement are hundredths, so that comparisons are of whole numbers.  *)
(***************************************************************************)
EXTENDS Series, Functions

CONSTANTS
  SwingN,        \* fractal half-width
  AtrLookback,   \* bars of the average true range
  BodyRangeMin,  \* least body over range, in hundredths
  BodyAtrMin,    \* least body over ATR, in hundredths
  WickToBodyMax, \* largest wick over body, in hundredths
  LegGapMax,     \* bars without displacement inside a leg
  MinDepth       \* least depth of a sweep, in ticks

ASSUME StructureAssumption ==
  /\ SwingN \in Nat \ {0}
  /\ AtrLookback \in Nat \ {0}
  /\ {BodyRangeMin, BodyAtrMin, WickToBodyMax, LegGapMax} \subseteq Nat
  /\ MinDepth \in Nat \ {0}

(***************************************************************************)
(* Swings: strict fractals, told only when N bars stand on either side.    *)
(***************************************************************************)
Inner(s) == SwingN + 1 .. Len(s) - SwingN
IsSwingHigh(s, t) ==
  \A k \in 1 .. SwingN : s[t].high > s[t - k].high /\ s[t].high > s[t + k].high
IsSwingLow(s, t) ==
  \A k \in 1 .. SwingN : s[t].low < s[t - k].low /\ s[t].low < s[t + k].low

\* Mutant: a swing counts from its own bar.
SwingAtOnce(t, kind, price) ==
  [index |-> t, kind |-> kind, price |-> price, confirmed |-> t]

Swing(t, kind, price) ==
  [index |-> t, kind |-> kind, price |-> price, confirmed |-> t + SwingN]

DetectSwings(s) ==
  {Swing(t, "HIGH", s[t].high) : t \in {u \in Inner(s) : IsSwingHigh(s, u)}} \cup
  {Swing(t, "LOW", s[t].low) : t \in {u \in Inner(s) : IsSwingLow(s, u)}}

(***************************************************************************)
(* Displacement: a body that dominates its range and the average range.    *)
(***************************************************************************)
TrueRange(s, i) ==
  IF i = 1 THEN Spread(s[1])
  ELSE Larger(s[i].high, s[i - 1].close) - Smaller(s[i].low, s[i - 1].close)

\* Mutant: the mean range of the whole series, with the same scale.
ScaledMeanRange(s) ==
  LET total == SumFunction([j \in 1 .. Len(s) |-> TrueRange(s, j)])
  IN  [i \in AtrLookback .. Len(s) |-> (total * AtrLookback ^ (i - AtrLookback + 1)) \div Len(s)]

\* Wilder's average at bar i, times AtrLookback ^ (i - AtrLookback + 1): the
\* exact fraction, from the first bar that has one.
ScaledAtr(s) ==
  LET n == AtrLookback
      atr[i \in n .. Len(s)] ==
        IF i = n THEN SumFunction([j \in 1 .. n |-> TrueRange(s, j)])
        ELSE (n - 1) * atr[i - 1] + TrueRange(s, i) * n ^ (i - n)
  IN  atr

\* The wick on the side the bar closes on.
CloseWick(c) == IF BarDir(c) = BULL THEN c.high - c.close ELSE c.close - c.low

Displaces(c, atr, scale) ==
  /\ Spread(c) > 0 /\ Body(c) > 0 /\ atr > 0
  /\ 100 * Body(c) >= BodyRangeMin * Spread(c)
  /\ 100 * Body(c) * scale >= BodyAtrMin * atr
  /\ 100 * CloseWick(c) <= WickToBodyMax * Body(c)

DetectDisplacement(s) ==
  LET atr == ScaledAtr(s)
  IN  [t \in 1 .. Len(s) |->
        IF /\ t > AtrLookback
           /\ Displaces(s[t], atr[t], AtrLookback ^ (t - AtrLookback + 1))
        THEN BarDir(s[t]) ELSE "none"]

\* Bar t carries on the leg of an earlier bar: same direction, no more than
\* LegGapMax bars without displacement in between.
CarriesOn(d, t) ==
  \E p \in Larger(1, t - LegGapMax - 1) .. t - 1 :
    d[p] = d[t] /\ \A u \in p + 1 .. t - 1 : d[u] = "none"

LegEnd(d, i) ==
  Max({e \in i .. Len(d) : d[e] # "none" /\
        \A t \in i + 1 .. e : d[t] = "none" \/ CarriesOn(d, t)})

AggregateLegs(s, d) ==
  {LET e == LegEnd(d, i)
   IN  [direction |-> d[i], start |-> i, end |-> e,
        range |-> Interval(Min({s[t].low : t \in i .. e}), Max({s[t].high : t \in i .. e}))] :
   i \in {t \in 1 .. Len(s) : d[t] # "none" /\ ~CarriesOn(d, t)}}

(***************************************************************************)
(* Liquidity: every swing is a pool from the bar that confirms it.         *)
(***************************************************************************)
PoolsFromSwings(swings) ==
  {[side |-> IF w.kind = "HIGH" THEN "BSL" ELSE "SSL", price |-> w.price,
    created |-> w.confirmed] : w \in swings}

Pierces(c, p) ==
  IF p.side = "BSL" THEN c.high - p.price >= MinDepth ELSE p.price - c.low >= MinDepth
BodyInside(c, p) ==
  IF p.side = "BSL" THEN BodyTop(c) <= p.price ELSE BodyBot(c) >= p.price

\* Bar t takes the pool: it pierces it and its body is not kept inside.
Takes(s, p, t) == Pierces(s[t], p) /\ ~BodyInside(s[t], p)
Stands(s, p, t) == \A u \in p.created .. t - 1 : ~Takes(s, p, u)

Touch(p, t) == [side |-> p.side, index |-> t, pool |-> p]

DetectConsumptions(s, pools) ==
  UNION {{Touch(p, t) : t \in {u \in p.created .. Len(s) : Takes(s, p, u) /\ Stands(s, p, u)}} :
         p \in pools}

DetectSweeps(s, pools) ==
  UNION {{Touch(p, t) : t \in {u \in p.created .. Len(s) :
                                 Pierces(s[u], p) /\ BodyInside(s[u], p) /\ Stands(s, p, u)}} :
         p \in pools}
=============================================================================
