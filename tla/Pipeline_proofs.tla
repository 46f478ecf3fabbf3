-------------------------- MODULE Pipeline_proofs ---------------------------
(***************************************************************************)
(* What the pipeline says of a bar is said on time and settles, for every  *)
(* series, every alphabet of bars and every threshold. A step appends one  *)
(* bar, so each theorem compares a detector on a series s with the same    *)
(* detector on a series n that Grows from it. A swing, a sweep and a       *)
(* consumption of bar t are decided by the bars up to t; so is the average *)
(* range, a recursive function over the bars, and with it displacement; a  *)
(* gap waits for its third bar, a leg and its block for the leg's end. The *)
(* structure walk reads of a bar these marks only, so it tells the same    *)
(* events of every bar but the last two, and the signals follow, but for   *)
(* the targets that pools told later give them.                            *)
(* Recursive functions are shown equal on both series by the induction of  *)
(* DataLemmas.                                                             *)
(***************************************************************************)
EXTENDS Pipeline, DataLemmas

(***************************************************************************)
(* Appending a bar leaves the bars before it as they were.                 *)
(***************************************************************************)
LEMMA AppendKeeps ==
  ASSUME NEW s \in Seq(Candle), NEW x \in Candle
  PROVE  /\ Append(s, x) \in Seq(Candle)
         /\ Len(Append(s, x)) = Len(s) + 1
         /\ Len(s) \in Nat
         /\ \A t \in 1 .. Len(s) : Append(s, x)[t] = s[t]
  OBVIOUS

\* A bar placed at a close is a candle.
LEMMA AfterType ==
  ASSUME NEW close \in Int, NEW c \in Candle
  PROVE  After(close, c) \in Candle
  BY DEF After, Candle

(***************************************************************************)
(* Swings.                                                                 *)
(***************************************************************************)
\* A swing whose neighbours are all in the series is one in the longer series,
\* and the other way round.
LEMMA SameFractals ==
  ASSUME NEW s \in Seq(Candle), NEW x \in Candle, NEW t \in Inner(s)
  PROVE  /\ t \in 1 .. Len(s) /\ Append(s, x)[t] = s[t]
         /\ IsSwingHigh(Append(s, x), t) <=> IsSwingHigh(s, t)
         /\ IsSwingLow(Append(s, x), t) <=> IsSwingLow(s, t)
<1>1. SwingN \in Nat \ {0} /\ Len(s) \in Nat /\ t \in Int
  BY AppendKeeps, StructureAssumption DEF Inner
<1>2. t \in 1 .. Len(s) /\ \A k \in 1 .. SwingN : t - k \in 1 .. Len(s) /\ t + k \in 1 .. Len(s)
  BY <1>1 DEF Inner
<1>3. \A u \in 1 .. Len(s) : Append(s, x)[u] = s[u]
  BY AppendKeeps
<1>4. \A k \in 1 .. SwingN : Append(s, x)[t - k] = s[t - k] /\ Append(s, x)[t + k] = s[t + k]
  BY <1>2, <1>3
<1> QED
  BY <1>2, <1>3, <1>4 DEF IsSwingHigh, IsSwingLow

\* The swings of the longer series that are confirmed before its last bar are
\* those of the series.
LEMMA SwingsExtend ==
  ASSUME NEW s \in Seq(Candle), NEW x \in Candle
  PROVE  DetectSwings(s) = {w \in DetectSwings(Append(s, x)) : w.confirmed < Len(s) + 1}
<1> DEFINE n == Append(s, x)
           old == {w \in DetectSwings(n) : w.confirmed < Len(s) + 1}
<1>1. SwingN \in Nat \ {0} /\ Len(s) \in Nat /\ Len(n) = Len(s) + 1
  BY AppendKeeps, StructureAssumption
<1>2. \A t : t \in Inner(s) <=> t \in Inner(n) /\ t + SwingN < Len(s) + 1
  BY <1>1 DEF Inner
<1>3. \A t \in Inner(s) : /\ n[t] = s[t]
                          /\ IsSwingHigh(n, t) <=> IsSwingHigh(s, t)
                          /\ IsSwingLow(n, t) <=> IsSwingLow(s, t)
  BY SameFractals
<1>4. ASSUME NEW w \in DetectSwings(s) PROVE w \in old
  <2>1. CASE \E t \in Inner(s) : IsSwingHigh(s, t) /\ w = Swing(t, "HIGH", s[t].high)
    <3>1. PICK t \in Inner(s) : IsSwingHigh(s, t) /\ w = Swing(t, "HIGH", s[t].high)
      BY <2>1
    <3>2. t \in Inner(n) /\ IsSwingHigh(n, t) /\ w = Swing(t, "HIGH", n[t].high)
      BY <3>1, <1>2, <1>3
    <3>3. w.confirmed = t + SwingN
      BY <3>1 DEF Swing
    <3> QED
      BY <3>1, <3>2, <3>3, <1>2 DEF DetectSwings
  <2>2. CASE \E t \in Inner(s) : IsSwingLow(s, t) /\ w = Swing(t, "LOW", s[t].low)
    <3>1. PICK t \in Inner(s) : IsSwingLow(s, t) /\ w = Swing(t, "LOW", s[t].low)
      BY <2>2
    <3>2. t \in Inner(n) /\ IsSwingLow(n, t) /\ w = Swing(t, "LOW", n[t].low)
      BY <3>1, <1>2, <1>3
    <3>3. w.confirmed = t + SwingN
      BY <3>1 DEF Swing
    <3> QED
      BY <3>1, <3>2, <3>3, <1>2 DEF DetectSwings
  <2> QED
    BY <1>4, <2>1, <2>2 DEF DetectSwings
<1>5. ASSUME NEW w \in old PROVE w \in DetectSwings(s)
  <2>1. CASE \E t \in Inner(n) : IsSwingHigh(n, t) /\ w = Swing(t, "HIGH", n[t].high)
    <3>1. PICK t \in Inner(n) : IsSwingHigh(n, t) /\ w = Swing(t, "HIGH", n[t].high)
      BY <2>1
    <3>2. w.confirmed = t + SwingN
      BY <3>1 DEF Swing
    <3>3. t \in Inner(s)
      BY <3>1, <3>2, <1>2, <1>5
    <3> QED
      BY <3>1, <3>3, <1>3 DEF DetectSwings
  <2>2. CASE \E t \in Inner(n) : IsSwingLow(n, t) /\ w = Swing(t, "LOW", n[t].low)
    <3>1. PICK t \in Inner(n) : IsSwingLow(n, t) /\ w = Swing(t, "LOW", n[t].low)
      BY <2>2
    <3>2. w.confirmed = t + SwingN
      BY <3>1 DEF Swing
    <3>3. t \in Inner(s)
      BY <3>1, <3>2, <1>2, <1>5
    <3> QED
      BY <3>1, <3>3, <1>3 DEF DetectSwings
  <2> QED
    BY <1>5, <2>1, <2>2 DEF DetectSwings
<1> QED
  BY <1>4, <1>5

(***************************************************************************)
(* Pools.                                                                  *)
(***************************************************************************)
\* A pool is one from the bar that confirms its swing.
PoolOf(w) == [side |-> IF w.kind = "HIGH" THEN "BSL" ELSE "SSL", price |-> w.price,
              created |-> w.confirmed]

\* A pool exists from its second bar at the earliest.
LEMMA PoolCreated ==
  ASSUME NEW s \in Seq(Candle), NEW p \in PoolsFromSwings(DetectSwings(s))
  PROVE  p.created \in Nat \ {0}
<1>1. PICK w \in DetectSwings(s) : p = PoolOf(w)
  BY DEF PoolsFromSwings, PoolOf
<1>2. w.confirmed \in Nat \ {0}
  BY StructureAssumption, AppendKeeps DEF DetectSwings, Swing, Inner
<1> QED
  BY <1>1, <1>2 DEF PoolOf

\* A bar adds only pools that are created on it.
LEMMA PoolsExtend ==
  ASSUME NEW s \in Seq(Candle), NEW x \in Candle
  PROVE  PoolsFromSwings(DetectSwings(s)) =
           {p \in PoolsFromSwings(DetectSwings(Append(s, x))) : p.created < Len(s) + 1}
<1>1. DetectSwings(s) = {w \in DetectSwings(Append(s, x)) : w.confirmed < Len(s) + 1}
  BY SwingsExtend
<1>2. \A w : PoolOf(w).created = w.confirmed
  BY DEF PoolOf
<1>3. \A swings : PoolsFromSwings(swings) = {PoolOf(w) : w \in swings}
  BY DEF PoolsFromSwings, PoolOf
<1> QED
  BY <1>1, <1>2, <1>3

(***************************************************************************)
(* Sweeps and consumptions.                                                *)
(***************************************************************************)
\* Whether a pool is taken at a bar, or still stands there, is decided by the
\* bars up to it.
LEMMA SameTouches ==
  ASSUME NEW s \in Seq(Candle), NEW x \in Candle, NEW p, p.created \in Nat \ {0},
         NEW t \in p.created .. Len(s)
  PROVE  /\ Append(s, x)[t] = s[t]
         /\ Takes(Append(s, x), p, t) <=> Takes(s, p, t)
         /\ Stands(Append(s, x), p, t) <=> Stands(s, p, t)
<1>1. Len(s) \in Nat /\ \A u \in 1 .. Len(s) : Append(s, x)[u] = s[u]
  BY AppendKeeps
<1>2. t \in 1 .. Len(s) /\ \A u \in p.created .. t - 1 : u \in 1 .. Len(s)
  BY <1>1
<1>3. Append(s, x)[t] = s[t] /\ \A u \in p.created .. t - 1 : Append(s, x)[u] = s[u]
  BY <1>1, <1>2
<1> QED
  BY <1>3 DEF Stands, Takes

\* A consumption is a pool that is taken while it stands.
LEMMA InConsumptions ==
  ASSUME NEW s, NEW pools, NEW w
  PROVE  w \in DetectConsumptions(s, pools) <=>
           \E p \in pools : \E t \in p.created .. Len(s) :
             Takes(s, p, t) /\ Stands(s, p, t) /\ w = Touch(p, t)
  BY DEF DetectConsumptions

\* A bar adds only consumptions of its own.
LEMMA ConsumptionsExtend ==
  ASSUME NEW s \in Seq(Candle), NEW x \in Candle,
         NEW old, NEW pools, \A p \in pools : p.created \in Nat \ {0},
         old = {p \in pools : p.created < Len(s) + 1}
  PROVE  DetectConsumptions(s, old) =
           {w \in DetectConsumptions(Append(s, x), pools) : w.index < Len(s) + 1}
<1> DEFINE n == Append(s, x)
<1>1. Len(n) = Len(s) + 1 /\ Len(s) \in Nat
  BY AppendKeeps
<1>2. \A p, t : Touch(p, t).index = t
  BY DEF Touch
<1>3. ASSUME NEW p \in pools, NEW t
      PROVE  (p \in old /\ t \in p.created .. Len(s)) <=>
               (t \in p.created .. Len(n) /\ t < Len(s) + 1)
  BY <1>1
<1>4. ASSUME NEW p \in old, NEW t \in p.created .. Len(s)
      PROVE  (Takes(n, p, t) /\ Stands(n, p, t)) <=>
               (Takes(s, p, t) /\ Stands(s, p, t))
  BY SameTouches
<1> HIDE DEF n
<1>5. ASSUME NEW w \in DetectConsumptions(s, old)
      PROVE  w \in DetectConsumptions(n, pools) /\ w.index < Len(s) + 1
  <2>0. PICK p \in old : \E t \in p.created .. Len(s) :
          Takes(s, p, t) /\ Stands(s, p, t) /\ w = Touch(p, t)
    BY <1>5, InConsumptions
  <2>1. PICK t \in p.created .. Len(s) :
          Takes(s, p, t) /\ Stands(s, p, t) /\ w = Touch(p, t)
    BY <2>0
  <2>2. p \in pools /\ t \in p.created .. Len(n) /\ t < Len(s) + 1
    BY <1>3
  <2>3. Takes(n, p, t) /\ Stands(n, p, t)
    BY <1>4, <2>1
  <2>4. w.index = t
    BY <2>1, <1>2
  <2> QED
    BY <2>1, <2>2, <2>3, <2>4, InConsumptions
<1>6. ASSUME NEW w \in DetectConsumptions(n, pools), w.index < Len(s) + 1
      PROVE  w \in DetectConsumptions(s, old)
  <2>0. PICK p \in pools : \E t \in p.created .. Len(n) :
          Takes(n, p, t) /\ Stands(n, p, t) /\ w = Touch(p, t)
    BY <1>6, InConsumptions
  <2>1. PICK t \in p.created .. Len(n) :
          Takes(n, p, t) /\ Stands(n, p, t) /\ w = Touch(p, t)
    BY <2>0
  <2>2. t < Len(s) + 1
    BY <2>1, <1>2, <1>6
  <2>3. p \in old /\ t \in p.created .. Len(s)
    BY <1>3, <2>2
  <2>4. Takes(s, p, t) /\ Stands(s, p, t)
    BY <1>4, <2>1, <2>3
  <2> QED
    BY <2>1, <2>3, <2>4, InConsumptions
<1> QED
  BY <1>5, <1>6 DEF n

\* A sweep is a pool that is pierced and kept while it stands.
LEMMA InSweeps ==
  ASSUME NEW s, NEW pools, NEW w
  PROVE  w \in DetectSweeps(s, pools) <=>
           \E p \in pools : \E t \in p.created .. Len(s) :
             Pierces(s[t], p) /\ BodyInside(s[t], p) /\ Stands(s, p, t) /\ w = Touch(p, t)
  BY DEF DetectSweeps

\* A bar adds only sweeps of its own.
LEMMA SweepsExtend ==
  ASSUME NEW s \in Seq(Candle), NEW x \in Candle,
         NEW old, NEW pools, \A p \in pools : p.created \in Nat \ {0},
         old = {p \in pools : p.created < Len(s) + 1}
  PROVE  DetectSweeps(s, old) =
           {w \in DetectSweeps(Append(s, x), pools) : w.index < Len(s) + 1}
<1> DEFINE n == Append(s, x)
<1>1. Len(n) = Len(s) + 1 /\ Len(s) \in Nat
  BY AppendKeeps
<1>2. \A p, t : Touch(p, t).index = t
  BY DEF Touch
<1>3. ASSUME NEW p \in pools, NEW t
      PROVE  (p \in old /\ t \in p.created .. Len(s)) <=>
               (t \in p.created .. Len(n) /\ t < Len(s) + 1)
  BY <1>1
<1>4. ASSUME NEW p \in old, NEW t \in p.created .. Len(s)
      PROVE  (Pierces(n[t], p) /\ BodyInside(n[t], p) /\ Stands(n, p, t)) <=>
               (Pierces(s[t], p) /\ BodyInside(s[t], p) /\ Stands(s, p, t))
  BY SameTouches
<1> HIDE DEF n
<1>5. ASSUME NEW w \in DetectSweeps(s, old)
      PROVE  w \in DetectSweeps(n, pools) /\ w.index < Len(s) + 1
  <2>0. PICK p \in old : \E t \in p.created .. Len(s) :
          Pierces(s[t], p) /\ BodyInside(s[t], p) /\ Stands(s, p, t) /\ w = Touch(p, t)
    BY <1>5, InSweeps
  <2>1. PICK t \in p.created .. Len(s) :
          Pierces(s[t], p) /\ BodyInside(s[t], p) /\ Stands(s, p, t) /\ w = Touch(p, t)
    BY <2>0
  <2>2. p \in pools /\ t \in p.created .. Len(n) /\ t < Len(s) + 1
    BY <1>3
  <2>3. Pierces(n[t], p) /\ BodyInside(n[t], p) /\ Stands(n, p, t)
    BY <1>4, <2>1
  <2>4. w.index = t
    BY <2>1, <1>2
  <2> QED
    BY <2>1, <2>2, <2>3, <2>4, InSweeps
<1>6. ASSUME NEW w \in DetectSweeps(n, pools), w.index < Len(s) + 1
      PROVE  w \in DetectSweeps(s, old)
  <2>0. PICK p \in pools : \E t \in p.created .. Len(n) :
          Pierces(n[t], p) /\ BodyInside(n[t], p) /\ Stands(n, p, t) /\ w = Touch(p, t)
    BY <1>6, InSweeps
  <2>1. PICK t \in p.created .. Len(n) :
          Pierces(n[t], p) /\ BodyInside(n[t], p) /\ Stands(n, p, t) /\ w = Touch(p, t)
    BY <2>0
  <2>2. t < Len(s) + 1
    BY <2>1, <1>2, <1>6
  <2>3. p \in old /\ t \in p.created .. Len(s)
    BY <1>3, <2>2
  <2>4. Pierces(s[t], p) /\ BodyInside(s[t], p) /\ Stands(s, p, t)
    BY <1>4, <2>1, <2>3
  <2> QED
    BY <2>1, <2>3, <2>4, InSweeps
<1> QED
  BY <1>5, <1>6 DEF n

(***************************************************************************)
(* The series grows by one candle at a time, and the marks are its marks.  *)
(***************************************************************************)
PipelineInv ==
  /\ bars \in Seq(Candle) \ {<<>>}
  /\ marks = Marks(bars)

\* The marks the theorem is about.
LEMMA LiquidityOfMarks ==
  ASSUME NEW s
  PROVE  LET swings == DetectSwings(s)
             pools  == PoolsFromSwings(swings)
         IN  /\ Marks(s).swings = swings
             /\ Marks(s).sweeps = DetectSweeps(s, pools)
             /\ Marks(s).taken = DetectConsumptions(s, pools)
  BY DEF Marks

LEMMA PipelineInit == Init => PipelineInv
  BY PipelineAssumption DEF Init, PipelineInv

\* A step appends one candle, and marks the grown series.
LEMMA BarAppended ==
  ASSUME PipelineInv, NEW c \in Shapes, NewBar(c)
  PROVE  \E x \in Candle : bars' = Append(bars, x) /\ marks' = Marks(Append(bars, x))
<1>1. Len(bars) \in 1 .. Len(bars) /\ bars[Len(bars)] \in Candle
  BY DEF PipelineInv
<1>2. After(bars[Len(bars)].close, c) \in Candle
  BY <1>1, PipelineAssumption, AfterType DEF Candle
<1> QED
  BY <1>2 DEF NewBar

LEMMA PipelineStep == PipelineInv /\ [Next]_vars => PipelineInv'
<1>1. ASSUME PipelineInv, NEW c \in Shapes, NewBar(c) PROVE PipelineInv'
  <2>1. PICK x \in Candle : bars' = Append(bars, x) /\ marks' = Marks(Append(bars, x))
    BY <1>1, BarAppended
  <2>2. Append(bars, x) \in Seq(Candle) /\ Append(bars, x) # <<>>
    BY <1>1, AppendKeeps DEF PipelineInv
  <2> QED
    BY <2>1, <2>2 DEF PipelineInv
<1>2. ASSUME PipelineInv, UNCHANGED vars PROVE PipelineInv'
  BY <1>2 DEF vars, PipelineInv
<1> QED
  BY <1>1, <1>2 DEF Next

\* What is said of swings, sweeps and taken pools is said on time and never
\* revised: the detectors a live call and a backtest share look at no later bar.
THEOREM LiquidityCausal == Spec => LiquidityIsCausal
<1> DEFINE Causal ==
      /\ marks.swings = {w \in marks'.swings : w.confirmed < Now}
      /\ marks.sweeps = {w \in marks'.sweeps : w.index < Now}
      /\ marks.taken = {c \in marks'.taken : c.index < Now}
<1>1. ASSUME PipelineInv, NEW c \in Shapes, NewBar(c) PROVE Causal
  <2>1. PICK x \in Candle : bars' = Append(bars, x) /\ marks' = Marks(Append(bars, x))
    BY <1>1, BarAppended
  <2>2. bars \in Seq(Candle) /\ marks = Marks(bars)
    BY <1>1 DEF PipelineInv
  <2>3. Now = Len(bars) + 1 /\ Append(bars, x) \in Seq(Candle)
    BY <2>1, <2>2, AppendKeeps DEF Now
  <2> DEFINE pools(s) == PoolsFromSwings(DetectSwings(s))
  <2>4. /\ \A p \in pools(Append(bars, x)) : p.created \in Nat \ {0}
        /\ pools(bars) = {p \in pools(Append(bars, x)) : p.created < Len(bars) + 1}
    BY <2>2, <2>3, PoolCreated, PoolsExtend
  <2>5. DetectSwings(bars) = {w \in DetectSwings(Append(bars, x)) : w.confirmed < Len(bars) + 1}
    BY <2>2, SwingsExtend
  <2>6. DetectSweeps(bars, pools(bars)) =
          {w \in DetectSweeps(Append(bars, x), pools(Append(bars, x))) : w.index < Len(bars) + 1}
    BY <2>2, <2>4, SweepsExtend
  <2>7. DetectConsumptions(bars, pools(bars)) =
          {w \in DetectConsumptions(Append(bars, x), pools(Append(bars, x))) :
             w.index < Len(bars) + 1}
    BY <2>2, <2>4, ConsumptionsExtend
  <2> QED
    BY <2>1, <2>2, <2>3, <2>5, <2>6, <2>7, LiquidityOfMarks
<1>2. PipelineInv /\ [Next]_vars => [Causal]_vars
  BY <1>1 DEF Next
<1>3. QED
  BY <1>2, PipelineInit, PipelineStep, PTL DEF Spec, LiquidityIsCausal

(***************************************************************************)
(* A series and the series with one bar more.                              *)
(***************************************************************************)
Grows(s, n) ==
  /\ s \in Seq(Candle) /\ n \in Seq(Candle)
  /\ Len(s) \in Nat /\ Len(n) = Len(s) + 1
  /\ \A t \in 1 .. Len(s) : n[t] = s[t]

\* What a series is, whatever it is built from.
LEMMA GrownBars ==
  ASSUME NEW s, NEW n, Grows(s, n)
  PROVE  /\ \A t \in 1 .. Len(s) : n[t] = s[t] /\ s[t] \in Candle
         /\ \A t \in 1 .. Len(n) : n[t] \in Candle
         /\ 1 .. Len(s) \subseteq 1 .. Len(n)
         /\ Len(n) \in Nat
  BY DEF Grows

(***************************************************************************)
(* Wilder's average at a bar is made of the ranges of the bars up to it.   *)
(***************************************************************************)
AtrAt(before, i, s) ==
  IF i = AtrLookback THEN SumFunction([j \in 1 .. AtrLookback |-> TrueRange(s, j)])
  ELSE (AtrLookback - 1) * before + TrueRange(s, i) * AtrLookback ^ (i - AtrLookback)

AtrUpTo(f, m, s) == f = [i \in AtrLookback .. m |-> AtrAt(f[i - 1], i, s)]

\* The average is defined, however long the series.
LEMMA AtrExists ==
  ASSUME NEW s
  PROVE  \A m \in Nat : \E f : AtrUpTo(f, m, s)
<1> DEFINE T == {m \in Nat : \E f : AtrUpTo(f, m, s)}
<1>0. AtrLookback \in Nat \ {0}
  BY StructureAssumption
<1>1. 0 \in T
  <2>1. AtrUpTo([i \in AtrLookback .. 0 |-> 0], 0, s)
    BY <1>0 DEF AtrUpTo
  <2> QED  BY <2>1
<1>2. ASSUME NEW m \in Nat, m \in T PROVE m + 1 \in T
  <2>1. PICK f : AtrUpTo(f, m, s)
    BY <1>2
  <2> DEFINE g == [i \in AtrLookback .. m + 1 |-> IF i <= m THEN f[i] ELSE AtrAt(f[m], m + 1, s)]
  <2>2. \A i \in AtrLookback .. m : f[i] = AtrAt(f[i - 1], i, s)
    BY <2>1 DEF AtrUpTo
  <2>3. ASSUME NEW i \in AtrLookback .. m + 1 PROVE g[i] = AtrAt(g[i - 1], i, s)
    <3>1. CASE i = AtrLookback
      <4>1. \A a, b : AtrAt(a, i, s) = AtrAt(b, i, s)
        BY <3>1 DEF AtrAt
      <4>2. g[i] = AtrAt(f[i - 1], i, s)
        <5>1. CASE i <= m
          BY <1>0, <2>2, <5>1
        <5>2. CASE i = m + 1
          BY <1>0, <5>2
        <5> QED  BY <1>0, <5>1, <5>2
      <4> QED  BY <4>1, <4>2
    <3>2. CASE i # AtrLookback /\ i <= m
      <4>1. g[i] = f[i] /\ g[i - 1] = f[i - 1]
        BY <1>0, <3>2
      <4> QED  BY <1>0, <2>2, <3>2, <4>1
    <3>3. CASE i # AtrLookback /\ i = m + 1
      <4>1. i - 1 = m /\ i - 1 \in AtrLookback .. m + 1
        BY <1>0, <3>3
      <4>2. g[i - 1] = f[m] /\ g[i] = AtrAt(f[m], m + 1, s)
        BY <3>3, <4>1
      <4> QED  BY <3>3, <4>2
    <3> QED  BY <1>0, <3>1, <3>2, <3>3
  <2>4. g = [i \in AtrLookback .. m + 1 |-> g[i]]
    OBVIOUS
  <2> HIDE DEF g
  <2>5. AtrUpTo(g, m + 1, s)
    BY <2>3, <2>4 DEF AtrUpTo
  <2> QED  BY <2>5
<1> HIDE DEF T
<1>3. Nat \subseteq T
  BY <1>1, <1>2, NaturalsFollow
<1> QED  BY <1>3 DEF T

\* The scaled average is the recursion it is defined by.
LEMMA AtrIsDefined ==
  ASSUME NEW s, Len(s) \in Nat
  PROVE  AtrUpTo(ScaledAtr(s), Len(s), s)
<1>1. ScaledAtr(s) = CHOOSE f : AtrUpTo(f, Len(s), s)
  BY DEF ScaledAtr, AtrUpTo, AtrAt
<1>2. \E f : AtrUpTo(f, Len(s), s)
  BY AtrExists
<1> QED  BY <1>1, <1>2

\* The true range of a bar does not see the bars after it.
LEMMA SameTrueRange ==
  ASSUME NEW s, NEW n, Grows(s, n), NEW i \in 1 .. Len(s)
  PROVE  TrueRange(n, i) = TrueRange(s, i)
<1>1. n[i] = s[i] /\ (i # 1 => n[i - 1] = s[i - 1])
  BY DEF Grows
<1> QED  BY <1>1 DEF TrueRange

\* The average of a bar is the same in the longer series.
LEMMA SameAtr ==
  ASSUME NEW s, NEW n, Grows(s, n)
  PROVE  \A t \in AtrLookback .. Len(s) : ScaledAtr(n)[t] = ScaledAtr(s)[t]
<1>0. AtrLookback \in Nat \ {0} /\ Len(s) \in Nat /\ Len(n) = Len(s) + 1
  BY StructureAssumption DEF Grows
<1> DEFINE f == ScaledAtr(s)
           g == ScaledAtr(n)
<1>1. /\ \A i \in AtrLookback .. Len(s) : f[i] = AtrAt(f[i - 1], i, s)
      /\ \A i \in AtrLookback .. Len(s) : g[i] = AtrAt(g[i - 1], i, n)
  <2>1. AtrUpTo(f, Len(s), s) /\ AtrUpTo(g, Len(s) + 1, n)
    BY <1>0, AtrIsDefined
  <2>2. AtrLookback .. Len(s) \subseteq AtrLookback .. Len(s) + 1
    BY <1>0
  <2> HIDE DEF f, g
  <2> QED  BY <2>1, <2>2 DEF AtrUpTo
<1> HIDE DEF f, g
<1>2. ASSUME NEW a, NEW i \in AtrLookback .. Len(s)
      PROVE  AtrAt(a, i, n) = AtrAt(a, i, s)
  <2>1. TrueRange(n, i) = TrueRange(s, i)
    BY <1>0, SameTrueRange
  <2>2. \A j \in 1 .. AtrLookback : TrueRange(n, j) = TrueRange(s, j)
    BY <1>0, SameTrueRange
  <2>3. [j \in 1 .. AtrLookback |-> TrueRange(n, j)] = [j \in 1 .. AtrLookback |-> TrueRange(s, j)]
    BY <2>2
  <2> QED  BY <2>1, <2>3 DEF AtrAt
<1> DEFINE T == {k \in Nat : AtrLookback + k <= Len(s) =>
                               f[AtrLookback + k] = g[AtrLookback + k]}
<1>3. 0 \in T
  <2>1. ASSUME AtrLookback <= Len(s) PROVE f[AtrLookback] = g[AtrLookback]
    <3>1. AtrLookback \in AtrLookback .. Len(s)
      BY <1>0, <2>1
    <3>2. \A a, b : AtrAt(a, AtrLookback, s) = AtrAt(b, AtrLookback, s)
      BY DEF AtrAt
    <3> QED  BY <1>1, <1>2, <3>1, <3>2
  <2>2. AtrLookback + 0 = AtrLookback
    BY <1>0
  <2> QED  BY <2>1, <2>2
<1>4. ASSUME NEW k \in Nat, k \in T PROVE k + 1 \in T
  <2>1. ASSUME AtrLookback + (k + 1) <= Len(s)
        PROVE  f[AtrLookback + (k + 1)] = g[AtrLookback + (k + 1)]
    <3>1. /\ AtrLookback + (k + 1) \in AtrLookback .. Len(s)
          /\ (AtrLookback + (k + 1)) - 1 = AtrLookback + k
          /\ AtrLookback + k <= Len(s)
      BY <1>0, <2>1
    <3>2. f[AtrLookback + k] = g[AtrLookback + k]
      BY <1>4, <3>1
    <3> QED  BY <1>1, <1>2, <3>1, <3>2
  <2> QED  BY <2>1
<1>5. Nat \subseteq T
  <2> HIDE DEF T
  <2> QED  BY <1>3, <1>4, NaturalsFollow
<1>6. ASSUME NEW t \in AtrLookback .. Len(s) PROVE g[t] = f[t]
  <2>1. t - AtrLookback \in Nat /\ AtrLookback + (t - AtrLookback) = t /\ t <= Len(s)
    BY <1>0
  <2> QED  BY <1>5, <2>1
<1> QED  BY <1>6 DEF f, g

(***************************************************************************)
(* Displacement, gaps and imbalances.                                      *)
(***************************************************************************)
LEMMA DisplacementExtends ==
  ASSUME NEW s, NEW n, Grows(s, n)
  PROVE  /\ DetectDisplacement(s) \in [1 .. Len(s) -> {BULL, BEAR, "none"}]
         /\ DetectDisplacement(n) \in [1 .. Len(n) -> {BULL, BEAR, "none"}]
         /\ \A t \in 1 .. Len(s) : DetectDisplacement(n)[t] = DetectDisplacement(s)[t]
<1>1. \A t \in 1 .. Len(s) : t > AtrLookback => ScaledAtr(n)[t] = ScaledAtr(s)[t]
  BY SameAtr, StructureAssumption DEF Grows
<1>2. \A t \in 1 .. Len(s) : n[t] = s[t] /\ t \in 1 .. Len(n)
  BY DEF Grows
<1>3. \A c : BarDir(c) \in {BULL, BEAR, "none"}
  BY DEF BarDir
<1> QED  BY <1>1, <1>2, <1>3 DEF DetectDisplacement

\* A gap is one from its third bar.
LEMMA InFvgs ==
  ASSUME NEW s, NEW d, NEW g
  PROVE  g \in DetectFvgs(s, d) <=>
           \E u \in 1 .. Len(s) - 2 :
             \/ /\ s[u + 2].low - s[u].high >= MinGap /\ d[u + 1] = BULL
                /\ g = Gap(BULL, u, s[u].high, s[u + 2].low)
             \/ /\ s[u].low - s[u + 2].high >= MinGap /\ d[u + 1] = BEAR
                /\ g = Gap(BEAR, u, s[u + 2].high, s[u].low)
  BY DEF DetectFvgs

\* A bar adds only the gaps that it closes.
LEMMA FvgsExtend ==
  ASSUME NEW s, NEW n, Grows(s, n), NEW d, NEW e, \A t \in 1 .. Len(s) : e[t] = d[t]
  PROVE  DetectFvgs(s, d) = {g \in DetectFvgs(n, e) : g.anchor + 2 < Len(s) + 1}
<1>1. ASSUME NEW u \in 1 .. Len(s) - 2
      PROVE  u \in 1 .. Len(n) - 2 /\ n[u] = s[u] /\ n[u + 2] = s[u + 2] /\ e[u + 1] = d[u + 1]
             /\ u + 2 < Len(s) + 1
  <2>1. u \in 1 .. Len(s) /\ u + 1 \in 1 .. Len(s) /\ u + 2 \in 1 .. Len(s) /\ u \in 1 .. Len(n) - 2
    BY DEF Grows
  <2> QED  BY <2>1 DEF Grows
<1>2. ASSUME NEW u \in 1 .. Len(n) - 2, u + 2 < Len(s) + 1 PROVE u \in 1 .. Len(s) - 2
  BY <1>2 DEF Grows
<1>3. \A dir, u, lo, hi : Gap(dir, u, lo, hi).anchor = u
  BY DEF Gap
<1>4. ASSUME NEW g \in DetectFvgs(s, d)
      PROVE  g \in DetectFvgs(n, e) /\ g.anchor + 2 < Len(s) + 1
  <2>1. PICK u \in 1 .. Len(s) - 2 :
             \/ /\ s[u + 2].low - s[u].high >= MinGap /\ d[u + 1] = BULL
                /\ g = Gap(BULL, u, s[u].high, s[u + 2].low)
             \/ /\ s[u].low - s[u + 2].high >= MinGap /\ d[u + 1] = BEAR
                /\ g = Gap(BEAR, u, s[u + 2].high, s[u].low)
    BY InFvgs
  <2>2. g.anchor = u
    BY <2>1, <1>3
  <2>3. g \in DetectFvgs(n, e)
    BY <1>1, <2>1, InFvgs
  <2> QED  BY <1>1, <2>2, <2>3
<1>5. ASSUME NEW g \in DetectFvgs(n, e), g.anchor + 2 < Len(s) + 1
      PROVE  g \in DetectFvgs(s, d)
  <2>1. PICK u \in 1 .. Len(n) - 2 :
             \/ /\ n[u + 2].low - n[u].high >= MinGap /\ e[u + 1] = BULL
                /\ g = Gap(BULL, u, n[u].high, n[u + 2].low)
             \/ /\ n[u].low - n[u + 2].high >= MinGap /\ e[u + 1] = BEAR
                /\ g = Gap(BEAR, u, n[u + 2].high, n[u].low)
    BY InFvgs
  <2>2. u \in 1 .. Len(s) - 2
    BY <1>2, <1>3, <1>5, <2>1
  <2> QED  BY <1>1, <2>1, <2>2, InFvgs
<1> QED  BY <1>4, <1>5

\* An imbalance is one from its second bar.
LEMMA InImbalances ==
  ASSUME NEW s, NEW g
  PROVE  g \in DetectVolumeImbalances(s) <=>
           \E u \in 1 .. Len(s) - 1 :
             \/ /\ s[u].close = BodyTop(s[u]) /\ s[u + 1].open > s[u].close
                /\ g = Gap(BULL, u, s[u].close, s[u + 1].open)
             \/ /\ s[u].close = BodyBot(s[u]) /\ s[u + 1].open < s[u].close
                /\ g = Gap(BEAR, u, s[u + 1].open, s[u].close)
  BY DEF DetectVolumeImbalances

\* And only the imbalances that it closes.
LEMMA ImbalancesExtend ==
  ASSUME NEW s, NEW n, Grows(s, n)
  PROVE  DetectVolumeImbalances(s) =
           {g \in DetectVolumeImbalances(n) : g.anchor + 1 < Len(s) + 1}
<1>1. ASSUME NEW u \in 1 .. Len(s) - 1
      PROVE  u \in 1 .. Len(n) - 1 /\ n[u] = s[u] /\ n[u + 1] = s[u + 1] /\ u + 1 < Len(s) + 1
  <2>1. u \in 1 .. Len(s) /\ u + 1 \in 1 .. Len(s) /\ u \in 1 .. Len(n) - 1
    BY DEF Grows
  <2> QED  BY <2>1 DEF Grows
<1>2. ASSUME NEW u \in 1 .. Len(n) - 1, u + 1 < Len(s) + 1 PROVE u \in 1 .. Len(s) - 1
  BY <1>2 DEF Grows
<1>3. \A dir, u, lo, hi : Gap(dir, u, lo, hi).anchor = u
  BY DEF Gap
<1>4. ASSUME NEW g \in DetectVolumeImbalances(s)
      PROVE  g \in DetectVolumeImbalances(n) /\ g.anchor + 1 < Len(s) + 1
  <2>1. PICK u \in 1 .. Len(s) - 1 :
             \/ /\ s[u].close = BodyTop(s[u]) /\ s[u + 1].open > s[u].close
                /\ g = Gap(BULL, u, s[u].close, s[u + 1].open)
             \/ /\ s[u].close = BodyBot(s[u]) /\ s[u + 1].open < s[u].close
                /\ g = Gap(BEAR, u, s[u + 1].open, s[u].close)
    BY InImbalances
  <2>2. g.anchor = u
    BY <2>1, <1>3
  <2>3. g \in DetectVolumeImbalances(n)
    BY <1>1, <2>1, InImbalances
  <2> QED  BY <1>1, <2>2, <2>3
<1>5. ASSUME NEW g \in DetectVolumeImbalances(n), g.anchor + 1 < Len(s) + 1
      PROVE  g \in DetectVolumeImbalances(s)
  <2>1. PICK u \in 1 .. Len(n) - 1 :
             \/ /\ n[u].close = BodyTop(n[u]) /\ n[u + 1].open > n[u].close
                /\ g = Gap(BULL, u, n[u].close, n[u + 1].open)
             \/ /\ n[u].close = BodyBot(n[u]) /\ n[u + 1].open < n[u].close
                /\ g = Gap(BEAR, u, n[u + 1].open, n[u].close)
    BY InImbalances
  <2>2. u \in 1 .. Len(s) - 1
    BY <1>2, <1>3, <1>5, <2>1
  <2> QED  BY <1>1, <2>1, <2>2, InImbalances
<1> QED  BY <1>4, <1>5

(***************************************************************************)
(* Extremes of finite sets of numbers, and the first bar of a set.         *)
(***************************************************************************)
HasExtremes(S) ==
  \E lo \in S, hi \in S : \A y \in S : lo <= y /\ y <= hi

\* A finite set of integers has a least and a greatest element.
LEMMA ExtremesExist ==
  ASSUME NEW S, IsFiniteSet(S), S \subseteq Int, S # {}
  PROVE  HasExtremes(S)
<1> DEFINE T == {s \in SUBSET S : s # {} => HasExtremes(s)}
<1>1. {} \in T
  OBVIOUS
<1>2. ASSUME NEW s \in SUBSET S, NEW x \in S, s \in T, x \notin s PROVE s \cup {x} \in T
  <2>1. CASE s = {}
    BY <2>1 DEF HasExtremes
  <2>2. CASE s # {}
    <3>1. PICK lo \in s, hi \in s : \A y \in s : lo <= y /\ y <= hi
      BY <1>2, <2>2 DEF HasExtremes
    <3>2. lo \in Int /\ hi \in Int /\ x \in Int
      OBVIOUS
    <3> DEFINE l == IF x <= lo THEN x ELSE lo
               h == IF hi <= x THEN x ELSE hi
    <3>3. l \in s \cup {x} /\ h \in s \cup {x}
      OBVIOUS
    <3>4. \A y \in s \cup {x} : l <= y /\ y <= h
      BY <3>1, <3>2
    <3> HIDE DEF l, h
    <3> QED  BY <3>3, <3>4 DEF HasExtremes
  <2> QED  BY <2>1, <2>2
<1> HIDE DEF T
<1>3. S \in T
  BY <1>1, <1>2, FiniteSetsGrow
<1> QED  BY <1>3 DEF T

\* Max and Min are what they say.
LEMMA Extremes ==
  ASSUME NEW S, IsFiniteSet(S), S \subseteq Int, S # {}
  PROVE  /\ Min(S) \in S /\ \A y \in S : Min(S) <= y
         /\ Max(S) \in S /\ \A y \in S : y <= Max(S)
         /\ Min(S) \in Int /\ Max(S) \in Int /\ Min(S) <= Max(S)
<1>1. PICK lo \in S, hi \in S : \A y \in S : lo <= y /\ y <= hi
  BY ExtremesExist DEF HasExtremes
<1>2. Min(S) \in S /\ \A y \in S : Min(S) <= y
  BY <1>1 DEF Min
<1>3. \E x \in S : \A y \in S : x >= y
  BY <1>1
<1>4. Max(S) \in S /\ \A y \in S : Max(S) >= y
  BY <1>3 DEF Max
<1> QED  BY <1>2, <1>4

\* So are those of a set of bars, and of their prices.
LEMMA ExtremesOfBars ==
  ASSUME NEW a \in Int, NEW b \in Int, NEW S, S \subseteq a .. b, S # {}
  PROVE  /\ Min(S) \in S /\ \A y \in S : Min(S) <= y
         /\ Max(S) \in S /\ \A y \in S : y <= Max(S)
         /\ Min(S) \in Int /\ Max(S) \in Int /\ Min(S) <= Max(S)
<1>1. IsFiniteSet(S)
  BY FS_Interval, FS_Subset
<1>2. S \subseteq Int
  OBVIOUS
<1> QED  BY <1>1, <1>2, Extremes

\* Whatever is least in a set is its Min.
LEMMA OnlyOneLeast ==
  ASSUME NEW S, S \subseteq Int, NEW x \in S, \A y \in S : x <= y
  PROVE  Min(S) = x
<1>1. Min(S) \in S /\ \A y \in S : Min(S) <= y
  BY DEF Min
<1>2. Min(S) \in Int /\ x \in Int /\ Min(S) <= x /\ x <= Min(S)
  BY <1>1
<1> QED  BY <1>2

\* Whatever is greatest in a set is its Max.
LEMMA OnlyOneGreatest ==
  ASSUME NEW S, S \subseteq Int, NEW x \in S, \A y \in S : y <= x
  PROVE  Max(S) = x
<1>1. \A y \in S : x >= y
  OBVIOUS
<1>2. Max(S) \in S /\ \A y \in S : Max(S) >= y
  BY <1>1 DEF Max
<1>3. Max(S) \in Int /\ x \in Int /\ Max(S) <= x /\ x <= Max(S)
  BY <1>2
<1> QED  BY <1>3

\* A first bar is found once: a later bar makes no difference.
LEMMA FirstStays ==
  ASSUME NEW m \in Nat, NEW A, NEW B, A \subseteq 1 .. m, B \subseteq 1 .. m + 1,
         A = {t \in B : t <= m}
  PROVE  /\ FirstOf(A) \in 0 .. m /\ FirstOf(B) \in 0 .. m + 1
         /\ A # {} => FirstOf(A) \in A /\ \A y \in A : FirstOf(A) <= y
         /\ B # {} => FirstOf(B) \in B /\ \A y \in B : FirstOf(B) <= y
         /\ FirstOf(A) = None <=> A = {}
         /\ FirstOf(A) # None => FirstOf(B) = FirstOf(A)
         /\ FirstOf(A) = None => FirstOf(B) \in {None, m + 1}
<1>1. A # {} => Min(A) \in A /\ \A y \in A : Min(A) <= y
  BY ExtremesOfBars
<1>2. B # {} => Min(B) \in B /\ \A y \in B : Min(B) <= y
  <2>1. 1 \in Int /\ m + 1 \in Int
    OBVIOUS
  <2> QED  BY <2>1, ExtremesOfBars
<1>3. ASSUME A # {} PROVE Min(B) = Min(A) /\ B # {}
  <2>1. Min(A) \in B /\ Min(A) <= m
    BY <1>1, <1>3
  <2>2. ASSUME NEW y \in B PROVE Min(A) <= y
    <3>1. y <= m => y \in A
      OBVIOUS
    <3>2. y \in Int
      OBVIOUS
    <3>3. Min(A) \in Int
      BY <1>1, <1>3
    <3> QED  BY <1>1, <1>3, <2>1, <3>1, <3>2, <3>3
  <2>3. B \subseteq Int
    OBVIOUS
  <2> QED  BY <2>1, <2>2, <2>3, OnlyOneLeast
<1>4. ASSUME A = {}, B # {} PROVE Min(B) = m + 1
  <2>1. \A y \in B : y \in 1 .. m + 1 /\ ~(y <= m)
    BY <1>4
  <2>2. \A y \in B : y = m + 1
    BY <2>1
  <2> QED  BY <1>2, <1>4, <2>2
<1>5. None = 0
  BY DEF None
<1>6. FirstOf(A) = IF A = {} THEN 0 ELSE Min(A)
  BY <1>5 DEF FirstOf
<1>7. FirstOf(B) = IF B = {} THEN 0 ELSE Min(B)
  BY <1>5 DEF FirstOf
<1> HIDE DEF None
<1>8. A = {} => FirstOf(A) = 0 /\ FirstOf(B) \in {0, m + 1} /\ FirstOf(A) \in 0 .. m
                /\ FirstOf(B) \in 0 .. m + 1
  BY <1>4, <1>6, <1>7
<1>9. ASSUME A # {} PROVE /\ FirstOf(A) \in A /\ FirstOf(B) = FirstOf(A)
                          /\ FirstOf(A) \in 1 .. m /\ FirstOf(A) # 0
  BY <1>1, <1>3, <1>6, <1>7, <1>9
<1>10. B # {} => FirstOf(B) \in B /\ \A y \in B : FirstOf(B) <= y
  BY <1>2, <1>7
<1>11. A # {} => \A y \in A : FirstOf(A) <= y
  BY <1>1, <1>6
<1> QED  BY <1>5, <1>8, <1>9, <1>10, <1>11

(***************************************************************************)
(* Legs.                                                                   *)
(***************************************************************************)
Displacements(d, m) == d \in [1 .. m -> {BULL, BEAR, "none"}]

StartsLeg(d, i) == d[i] # "none" /\ ~CarriesOn(d, i)

LegEnds(d, i) ==
  {e \in i .. Len(d) : d[e] # "none" /\ \A t \in i + 1 .. e : d[t] = "none" \/ CarriesOn(d, t)}

Leg(s, d, i) ==
  LET e == LegEnd(d, i)
  IN  [direction |-> d[i], start |-> i, end |-> e,
       range |-> Interval(Min({s[t].low : t \in i .. e}), Max({s[t].high : t \in i .. e}))]

\* There is a leg for each bar that starts one.
LEMMA LegsStart ==
  ASSUME NEW s, NEW d
  PROVE  /\ AggregateLegs(s, d) = {Leg(s, d, i) : i \in {t \in 1 .. Len(s) : StartsLeg(d, t)}}
         /\ \A i : LegEnd(d, i) = Max(LegEnds(d, i))
  BY DEF AggregateLegs, Leg, StartsLeg, LegEnd, LegEnds

\* Whether a bar carries a leg on is told by the directions up to it.
LEMMA SameCarries ==
  ASSUME NEW m \in Nat, NEW d, NEW e, \A t \in 1 .. m : e[t] = d[t], NEW t \in 1 .. m
  PROVE  CarriesOn(e, t) <=> CarriesOn(d, t)
<1> DEFINE before == Larger(1, t - LegGapMax - 1) .. t - 1
<1>0. LegGapMax \in Nat
  BY StructureAssumption
<1>1. before \subseteq 1 .. m
  BY <1>0 DEF Larger
<1>2. \A p \in before : e[p] = d[p] /\ \A u \in p + 1 .. t - 1 : e[u] = d[u]
  <2>1. \A p \in before : p \in 1 .. m /\ \A u \in p + 1 .. t - 1 : u \in 1 .. m
    BY <1>1
  <2> QED  BY <2>1
<1>3. e[t] = d[t]
  OBVIOUS
<1> HIDE DEF before
<1> QED  BY <1>2, <1>3 DEF CarriesOn, before

\* The end of a leg is one of its bars.
LEMMA LegEndIs ==
  ASSUME NEW m \in Nat, NEW d, Displacements(d, m), NEW i \in 1 .. m, d[i] # "none"
  PROVE  /\ LegEnd(d, i) \in LegEnds(d, i) /\ LegEnd(d, i) \in i .. m
         /\ \A t \in LegEnds(d, i) : t <= LegEnd(d, i)
<1>1. Len(d) = m
  BY DEF Displacements
<1>2. i \in LegEnds(d, i) /\ LegEnds(d, i) \subseteq i .. m
  BY <1>1 DEF LegEnds
<1>3. LegEnd(d, i) = Max(LegEnds(d, i))
  BY LegsStart
<1> QED  BY <1>2, <1>3, ExtremesOfBars

\* A bar more may move the end of a leg, to itself.
LEMMA LegEndsExtend ==
  ASSUME NEW m \in Nat, NEW d, Displacements(d, m), NEW e, Displacements(e, m + 1),
         \A t \in 1 .. m : e[t] = d[t], NEW i \in 1 .. m, d[i] # "none"
  PROVE  /\ LegEnd(d, i) <= LegEnd(e, i)
         /\ LegEnd(e, i) # m + 1 => LegEnd(e, i) = LegEnd(d, i)
<1>1. Len(d) = m /\ Len(e) = m + 1
  BY DEF Displacements
<1>2. ASSUME NEW x \in i .. m PROVE x \in LegEnds(e, i) <=> x \in LegEnds(d, i)
  <2>1. x \in 1 .. m /\ x \in i .. m + 1 /\ i + 1 .. x \subseteq 1 .. m
    OBVIOUS
  <2>2. \A t \in i + 1 .. x : e[t] = d[t] /\ (CarriesOn(e, t) <=> CarriesOn(d, t))
    BY <2>1, SameCarries
  <2> QED  BY <1>1, <2>1, <2>2 DEF LegEnds
<1>3. /\ LegEnd(d, i) \in LegEnds(d, i) /\ LegEnd(d, i) \in i .. m
      /\ \A t \in LegEnds(d, i) : t <= LegEnd(d, i)
  BY LegEndIs
<1>4. /\ LegEnd(e, i) \in LegEnds(e, i) /\ LegEnd(e, i) \in i .. m + 1
      /\ \A t \in LegEnds(e, i) : t <= LegEnd(e, i)
  <2>1. i \in 1 .. m + 1 /\ e[i] # "none" /\ m + 1 \in Nat
    OBVIOUS
  <2> QED  BY <2>1, LegEndIs
<1>5. LegEnd(d, i) <= LegEnd(e, i)
  BY <1>2, <1>3, <1>4
<1>6. ASSUME LegEnd(e, i) # m + 1 PROVE LegEnd(e, i) <= LegEnd(d, i)
  <2>1. LegEnd(e, i) \in i .. m
    BY <1>4, <1>6
  <2> QED  BY <1>2, <1>3, <1>4, <2>1
<1>7. LegEnd(d, i) \in Int /\ LegEnd(e, i) \in Int
  BY <1>3, <1>4
<1> QED  BY <1>5, <1>6, <1>7

(***************************************************************************)
(* The lowest low and the highest high of some bars.                       *)
(***************************************************************************)
LEMMA ValuesFinite ==
  ASSUME NEW f, NEW S, IsFiniteSet(S)
  PROVE  IsFiniteSet({f[x] : x \in S})
<1> DEFINE T == {f[x] : x \in S}
           g == [x \in S |-> f[x]]
<1>1. g \in Surjection(S, T)
  BY DEF Surjection
<1> HIDE DEF g, T
<1>2. IsFiniteSet(T)
  BY <1>1, FS_Surjection
<1> QED  BY <1>2 DEF T

\* The extremes of some bars are among their lows and highs.
LEMMA LowsAndHighs ==
  ASSUME NEW s \in Seq(Candle), NEW W, W \subseteq 1 .. Len(s), W # {}
  PROVE  LET lows  == {s[t].low : t \in W}
             highs == {s[t].high : t \in W}
         IN  /\ Min(lows) \in lows /\ Min(lows) \in Int /\ Max(lows) \in lows
             /\ \A t \in W : Min(lows) <= s[t].low
             /\ Max(highs) \in highs /\ Max(highs) \in Int /\ Min(highs) \in highs
             /\ \A t \in W : s[t].high <= Max(highs)
<1> DEFINE lows  == {s[t].low : t \in W}
           highs == {s[t].high : t \in W}
           lo == [t \in W |-> s[t].low]
           hi == [t \in W |-> s[t].high]
<1>1. \A t \in W : s[t] \in Candle
  OBVIOUS
<1>2. IsFiniteSet(W)
  <2>1. IsFiniteSet(1 .. Len(s))
    BY FS_Interval
  <2> QED  BY <2>1, FS_Subset
<1>3. IsFiniteSet(lows) /\ IsFiniteSet(highs)
  <2>1. lows = {lo[t] : t \in W} /\ highs = {hi[t] : t \in W}
    OBVIOUS
  <2> HIDE DEF lo, hi, lows, highs
  <2> QED  BY <1>2, <2>1, ValuesFinite
<1>4. lows \subseteq Int /\ highs \subseteq Int /\ lows # {} /\ highs # {}
  BY <1>1 DEF Candle
<1>5. \A t \in W : s[t].low \in lows /\ s[t].high \in highs
  OBVIOUS
<1> HIDE DEF lows, highs
<1>6. /\ Min(lows) \in lows /\ Max(lows) \in lows /\ Min(lows) \in Int
      /\ \A y \in lows : Min(lows) <= y
  BY <1>3, <1>4, Extremes
<1>7. /\ Min(highs) \in highs /\ Max(highs) \in highs /\ Max(highs) \in Int
      /\ \A y \in highs : y <= Max(highs)
  BY <1>3, <1>4, Extremes
<1> QED  BY <1>5, <1>6, <1>7 DEF lows, highs

(***************************************************************************)
(* Order blocks: of the bars before a leg, so that its growth leaves them. *)
(***************************************************************************)
LEMMA BlockBars ==
  ASSUME NEW s \in Seq(Candle), NEW leg, leg.start \in 1 .. Len(s) + 1
  PROVE  /\ OrderBlockBars(s, leg) \subseteq 1 .. leg.start - 1
         /\ OrderBlockBars(s, leg) \subseteq 1 .. Len(s)
<1>1. OpposingRun(s, leg) \subseteq 1 .. leg.start - 1
  BY PDArraysAssumption DEF OpposingRun, Larger
<1> DEFINE window == Larger(1, leg.start - ObLookback) .. leg.start - 1
           extreme == IF leg.direction = BULL THEN Min({s[t].low : t \in window})
                                              ELSE Max({s[t].high : t \in window})
           at == {t \in window : extreme = IF leg.direction = BULL THEN s[t].low ELSE s[t].high}
<1>2. window \subseteq 1 .. leg.start - 1 /\ window \subseteq 1 .. Len(s)
  BY PDArraysAssumption DEF Larger
<1>3. ExtremumBar(s, leg) = IF window = {} THEN {} ELSE {Min(at)}
  BY Zenon DEF ExtremumBar
<1>4. at \subseteq 1 .. leg.start - 1
  BY <1>2
<1>5. ASSUME window # {} PROVE at # {}
  <2> DEFINE lows == {s[t].low : t \in window}
             highs == {s[t].high : t \in window}
  <2>0. extreme = IF leg.direction = BULL THEN Min(lows) ELSE Max(highs)
    OBVIOUS
  <2> HIDE DEF window, extreme
  <2>1. Min(lows) \in lows /\ Max(highs) \in highs
    BY <1>2, <1>5, LowsAndHighs
  <2>2. (\E t \in window : Min(lows) = s[t].low) /\ (\E t \in window : Max(highs) = s[t].high)
    BY <2>1
  <2> HIDE DEF lows, highs
  <2>3. \E t \in window : extreme = IF leg.direction = BULL THEN s[t].low ELSE s[t].high
    BY <2>0, <2>2
  <2> QED  BY <2>3
<1> HIDE DEF at, window
<1>6. ASSUME window # {} PROVE Min(at) \in 1 .. leg.start - 1
  <2>1. 1 \in Int /\ leg.start - 1 \in Int
    OBVIOUS
  <2>2. Min(at) \in at
    BY <1>4, <1>5, <1>6, <2>1, ExtremesOfBars
  <2> QED  BY <1>4, <2>2
<1>7. OrderBlockBars(s, leg) \subseteq 1 .. leg.start - 1
  BY <1>1, <1>3, <1>6 DEF OrderBlockBars
<1> QED  BY <1>7

\* The bars of a block depend on the start and the direction of the leg alone.
LEMMA SameBlockBars ==
  ASSUME NEW s, NEW n, Grows(s, n), NEW leg, NEW grown, leg.start \in 1 .. Len(n),
         grown.start = leg.start, grown.direction = leg.direction
  PROVE  OrderBlockBars(n, grown) = OrderBlockBars(s, leg)
<1>0. /\ s \in Seq(Candle) /\ n \in Seq(Candle) /\ Len(s) \in Nat /\ Len(n) = Len(s) + 1
      /\ leg.start \in 1 .. Len(s) + 1
      /\ \A t \in 1 .. Len(s) : n[t] = s[t]
  BY DEF Grows
<1>1. \A t \in 1 .. leg.start - 1 : n[t] = s[t]
  BY <1>0
<1>2. OpposingRun(n, grown) = OpposingRun(s, leg)
  <2> DEFINE before == Larger(1, leg.start - MaxRun) .. leg.start - 1
  <2>1. \A t \in before : \A u \in t .. leg.start - 1 : n[u] = s[u]
    BY <1>0, <1>1, PDArraysAssumption DEF Larger
  <2> HIDE DEF before
  <2>2. ASSUME NEW t \in before
        PROVE  (\A u \in t .. leg.start - 1 : BarDir(n[u]) = Against(leg.direction))
               <=> (\A u \in t .. leg.start - 1 : BarDir(s[u]) = Against(leg.direction))
    BY <2>1
  <2>3. OpposingRun(n, grown) =
          {t \in before : \A u \in t .. leg.start - 1 : BarDir(n[u]) = Against(leg.direction)}
    BY DEF OpposingRun, before
  <2>4. OpposingRun(s, leg) =
          {t \in before : \A u \in t .. leg.start - 1 : BarDir(s[u]) = Against(leg.direction)}
    BY DEF OpposingRun, before
  <2> QED  BY <2>2, <2>3, <2>4
<1>3. ExtremumBar(n, grown) = ExtremumBar(s, leg)
  <2> DEFINE window == Larger(1, leg.start - ObLookback) .. leg.start - 1
             low(q) == {q[t].low : t \in window}
             high(q) == {q[t].high : t \in window}
             extreme(q) == IF leg.direction = BULL THEN Min(low(q)) ELSE Max(high(q))
             at(q) == {t \in window : extreme(q) = IF leg.direction = BULL THEN q[t].low
                                                                          ELSE q[t].high}
  <2>1. \A t \in window : n[t] = s[t]
    BY <1>0, <1>1, PDArraysAssumption DEF Larger
  <2>2. /\ ExtremumBar(n, grown) = IF window = {} THEN {} ELSE {Min(at(n))}
        /\ ExtremumBar(s, leg) = IF window = {} THEN {} ELSE {Min(at(s))}
    BY Zenon DEF ExtremumBar
  <2> HIDE DEF window
  <2>3. low(n) = low(s) /\ high(n) = high(s)
    BY <2>1
  <2> HIDE DEF low, high
  <2>4. extreme(n) = extreme(s)
    BY <2>3
  <2> HIDE DEF extreme
  <2>5. at(n) = at(s)
    BY <2>1, <2>4
  <2> HIDE DEF at
  <2> QED  BY <2>2, <2>5
<1> QED  BY <1>2, <1>3 DEF OrderBlockBars

\* A leg that has grown has the order block it had.
LEMMA SameBlock ==
  ASSUME NEW s, NEW n, Grows(s, n), NEW leg, NEW grown, leg.start \in 1 .. Len(n),
         grown.start = leg.start, grown.direction = leg.direction
  PROVE  BlockKey(OrderBlock(n, grown)) = BlockKey(OrderBlock(s, leg))
<1> DEFINE run == OrderBlockBars(s, leg)
<1>1. OrderBlockBars(n, grown) = run
  BY SameBlockBars
<1>2. run \subseteq 1 .. Len(s) /\ \A t \in run : n[t] = s[t]
  <2>1. s \in Seq(Candle) /\ leg.start \in 1 .. Len(s) + 1 /\ \A t \in 1 .. Len(s) : n[t] = s[t]
    BY DEF Grows
  <2>2. run \subseteq 1 .. Len(s)
    BY <2>1, BlockBars
  <2> QED  BY <2>1, <2>2
<1> HIDE DEF run
<1>3. {n[t].low : t \in run} = {s[t].low : t \in run} /\ {n[t].high : t \in run} = {s[t].high : t \in run}
  BY <1>2
<1> DEFINE range == Interval(Min({s[t].low : t \in run}), Max({s[t].high : t \in run}))
<1>4. /\ OrderBlock(s, leg) = [direction |-> leg.direction, anchor |-> Min(run), leg |-> leg,
                               range |-> range]
      /\ OrderBlock(n, grown) = [direction |-> leg.direction, anchor |-> Min(run), leg |-> grown,
                                 range |-> range]
  BY <1>1, <1>3 DEF OrderBlock, run
<1> HIDE DEF range
<1> QED  BY <1>4 DEF BlockKey

\* What a block is.
LEMMA InOrderBlocks ==
  ASSUME NEW s, NEW d, NEW fvgs, NEW o
  PROVE  o \in DetectOrderBlocks(s, AggregateLegs(s, d), fvgs) <=>
           \E i \in 1 .. Len(s) :
             /\ StartsLeg(d, i)
             /\ FvgsOfLeg(Leg(s, d, i), fvgs) # {}
             /\ OrderBlockBars(s, Leg(s, d, i)) # {}
             /\ o = OrderBlock(s, Leg(s, d, i))
  BY LegsStart DEF DetectOrderBlocks

\* What the legs and blocks are made of.
LEMMA LegFields ==
  ASSUME NEW s, NEW d, NEW i
  PROVE  /\ Leg(s, d, i).start = i /\ Leg(s, d, i).direction = d[i]
         /\ Leg(s, d, i).end = LegEnd(d, i)
         /\ OrderBlock(s, Leg(s, d, i)).leg = Leg(s, d, i)
  BY DEF Leg, OrderBlock

\* A leg that no new bar carries on is the same leg.
LEMMA SameLeg ==
  ASSUME NEW s, NEW n, Grows(s, n), NEW d, Displacements(d, Len(s)),
         NEW e, Displacements(e, Len(n)), \A t \in 1 .. Len(s) : e[t] = d[t],
         NEW i \in 1 .. Len(s), d[i] # "none", LegEnd(e, i) # Len(n)
  PROVE  Leg(n, e, i) = Leg(s, d, i)
<1>1. LegEnd(e, i) = LegEnd(d, i) /\ LegEnd(d, i) \in i .. Len(s)
  BY LegEndsExtend, LegEndIs DEF Grows
<1> DEFINE x == LegEnd(d, i)
           low(q) == {q[t].low : t \in i .. x}
           high(q) == {q[t].high : t \in i .. x}
<1>2. \A t \in i .. x : n[t] = s[t]
  BY <1>1 DEF Grows
<1> HIDE DEF x
<1>3. low(n) = low(s) /\ high(n) = high(s)
  BY <1>2
<1>4. /\ Leg(n, e, i) = [direction |-> e[i], start |-> i, end |-> x,
                         range |-> Interval(Min(low(n)), Max(high(n)))]
      /\ Leg(s, d, i) = [direction |-> d[i], start |-> i, end |-> x,
                         range |-> Interval(Min(low(s)), Max(high(s)))]
  BY <1>1 DEF Leg, x
<1> QED  BY <1>3, <1>4

\* The displacement and the gaps of a series and of the longer one.
Told(s, n, d, e, fvgs, all) ==
  /\ Grows(s, n)
  /\ Displacements(d, Len(s)) /\ Displacements(e, Len(n))
  /\ \A t \in 1 .. Len(s) : e[t] = d[t]
  /\ fvgs = {g \in all : g.anchor + 2 < Len(s) + 1}

\* A leg that starts in the series starts in the longer one.
LEMMA SameStarts ==
  ASSUME NEW s, NEW n, NEW d, NEW e, NEW fvgs, NEW all, Told(s, n, d, e, fvgs, all),
         NEW i \in 1 .. Len(s)
  PROVE  StartsLeg(e, i) <=> StartsLeg(d, i)
<1>1. Len(s) \in Nat /\ (\A t \in 1 .. Len(s) : e[t] = d[t])
  BY DEF Told, Grows
<1>2. CarriesOn(e, i) <=> CarriesOn(d, i)
  BY <1>1, SameCarries
<1> QED  BY <1>1, <1>2 DEF StartsLeg

\* A block of the series is one of the longer series, whose leg may have grown.
LEMMA BlocksStay ==
  ASSUME NEW s, NEW n, NEW d, NEW e, NEW fvgs, NEW all, Told(s, n, d, e, fvgs, all),
         NEW o \in DetectOrderBlocks(s, AggregateLegs(s, d), fvgs)
  PROVE  \E p \in DetectOrderBlocks(n, AggregateLegs(n, e), all) : BlockKey(p) = BlockKey(o)
<1>0. /\ Grows(s, n) /\ Len(s) \in Nat /\ Len(n) = Len(s) + 1
      /\ Displacements(d, Len(s)) /\ Displacements(e, Len(s) + 1)
      /\ \A t \in 1 .. Len(s) : e[t] = d[t]
      /\ fvgs = {g \in all : g.anchor + 2 < Len(s) + 1}
  BY DEF Told, Grows
<1>1. PICK i \in 1 .. Len(s) : /\ StartsLeg(d, i)
                               /\ FvgsOfLeg(Leg(s, d, i), fvgs) # {}
                               /\ OrderBlockBars(s, Leg(s, d, i)) # {}
                               /\ o = OrderBlock(s, Leg(s, d, i))
  BY InOrderBlocks
<1> DEFINE leg == Leg(s, d, i)
           grown == Leg(n, e, i)
<1>2. d[i] # "none" /\ e[i] = d[i] /\ StartsLeg(e, i)
  BY <1>0, <1>1, SameStarts DEF StartsLeg
<1>3. /\ leg.start = i /\ leg.direction = d[i] /\ leg.end = LegEnd(d, i)
      /\ grown.start = i /\ grown.direction = d[i] /\ grown.end = LegEnd(e, i)
  BY <1>2, LegFields
<1>4. LegEnd(d, i) \in i .. Len(s) /\ LegEnd(e, i) \in i .. Len(s) + 1 /\ LegEnd(d, i) <= LegEnd(e, i)
  <2>1. LegEnd(d, i) \in i .. Len(s)
    BY <1>0, <1>2, LegEndIs
  <2>2. LegEnd(e, i) \in i .. Len(s) + 1
    <3>1. Len(s) + 1 \in Nat /\ i \in 1 .. Len(s) + 1 /\ e[i] # "none"
      BY <1>0, <1>2
    <3> QED  BY <1>0, <3>1, LegEndIs
  <2> QED  BY <1>0, <1>2, <2>1, <2>2, LegEndsExtend
<1> HIDE DEF leg, grown
<1>5. FvgsOfLeg(grown, all) # {}
  <2>1. PICK g \in FvgsOfLeg(leg, fvgs) : TRUE
    BY <1>1 DEF leg
  <2>2. g \in FvgsOfLeg(grown, all)
    BY <1>0, <1>3, <1>4, <2>1 DEF FvgsOfLeg
  <2> QED  BY <2>2
<1>6. i \in 1 .. Len(n) /\ leg.start \in 1 .. Len(n)
  BY <1>0, <1>3
<1>7. OrderBlockBars(n, grown) # {}
  BY <1>0, <1>1, <1>3, <1>6, SameBlockBars DEF leg
<1>8. BlockKey(OrderBlock(n, grown)) = BlockKey(o)
  BY <1>0, <1>1, <1>3, <1>6, SameBlock DEF leg
<1>9. OrderBlock(n, grown) \in DetectOrderBlocks(n, AggregateLegs(n, e), all)
  BY <1>2, <1>5, <1>6, <1>7, InOrderBlocks DEF grown
<1> QED  BY <1>8, <1>9

\* A block of the longer series is one of the series, unless the last bar ends
\* its leg or tells one of its gaps.
LEMMA BlocksAreTold ==
  ASSUME NEW s, NEW n, NEW d, NEW e, NEW fvgs, NEW all, Told(s, n, d, e, fvgs, all),
         NEW p \in DetectOrderBlocks(n, AggregateLegs(n, e), all),
         \A g \in all : g.anchor \in Nat /\ g.anchor + 2 <= Len(n)
  PROVE  \/ p.leg.end = Len(n)
         \/ \E g \in FvgsOfLeg(p.leg, all) : g.anchor + 2 = Len(n)
         \/ p \in DetectOrderBlocks(s, AggregateLegs(s, d), fvgs)
<1>0. /\ Grows(s, n) /\ Len(s) \in Nat /\ Len(n) = Len(s) + 1
      /\ Displacements(d, Len(s)) /\ Displacements(e, Len(s) + 1)
      /\ \A t \in 1 .. Len(s) : e[t] = d[t]
      /\ fvgs = {g \in all : g.anchor + 2 < Len(s) + 1}
  BY DEF Told, Grows
<1>1. PICK i \in 1 .. Len(n) : /\ StartsLeg(e, i)
                               /\ FvgsOfLeg(Leg(n, e, i), all) # {}
                               /\ OrderBlockBars(n, Leg(n, e, i)) # {}
                               /\ p = OrderBlock(n, Leg(n, e, i))
  BY InOrderBlocks
<1>2. p.leg = Leg(n, e, i) /\ p.leg.end = LegEnd(e, i)
  BY <1>1, LegFields
<1> SUFFICES ASSUME LegEnd(e, i) # Len(n),
                    ~\E g \in FvgsOfLeg(p.leg, all) : g.anchor + 2 = Len(n)
             PROVE  p \in DetectOrderBlocks(s, AggregateLegs(s, d), fvgs)
  BY <1>2
<1>3. i \in 1 .. Len(s) /\ e[i] # "none"
  <2>1. LegEnd(e, i) \in i .. Len(s) + 1
    BY <1>0, <1>1, LegEndIs DEF StartsLeg
  <2> QED  BY <1>0, <1>1, <2>1 DEF StartsLeg
<1>4. d[i] # "none" /\ StartsLeg(d, i)
  BY <1>0, <1>1, <1>3, SameStarts
<1>5. Leg(n, e, i) = Leg(s, d, i)
  <2>1. Displacements(e, Len(n)) /\ LegEnd(e, i) # Len(n)
    BY <1>0
  <2> QED  BY <1>0, <1>3, <1>4, <2>1, SameLeg
<1> DEFINE leg == Leg(s, d, i)
<1>6. leg.start = i /\ leg.start \in 1 .. Len(n)
  BY <1>1, LegFields
<1>7. FvgsOfLeg(leg, fvgs) # {}
  <2>1. PICK g \in FvgsOfLeg(leg, all) : TRUE
    BY <1>1, <1>5
  <2>2. g \in all /\ g.anchor + 2 # Len(n)
    BY <1>2, <1>5, <2>1 DEF FvgsOfLeg
  <2>3. g.anchor + 2 < Len(s) + 1
    BY <1>0, <2>2
  <2> QED  BY <1>0, <2>1, <2>2, <2>3 DEF FvgsOfLeg
<1>8. OrderBlockBars(s, leg) # {}
  <2>1. OrderBlockBars(n, leg) = OrderBlockBars(s, leg)
    <3> HIDE DEF leg
    <3> QED  BY <1>0, <1>6, SameBlockBars
  <2> QED  BY <1>1, <1>5, <2>1
<1>9. OrderBlock(n, leg) = OrderBlock(s, leg)
  <2>1. BlockKey(OrderBlock(n, leg)) = BlockKey(OrderBlock(s, leg))
    BY <1>0, <1>6, SameBlock
  <2> DEFINE O(q) == [direction |-> leg.direction, anchor |-> OrderBlock(q, leg).anchor, leg |-> leg,
                      range |-> OrderBlock(q, leg).range]
  <2>2. OrderBlock(n, leg) = O(n) /\ OrderBlock(s, leg) = O(s)
    BY DEF OrderBlock
  <2>3. /\ OrderBlock(n, leg).anchor = OrderBlock(s, leg).anchor
        /\ OrderBlock(n, leg).range = OrderBlock(s, leg).range
    BY <2>1 DEF BlockKey
  <2> QED  BY <2>2, <2>3
<1> QED  BY <1>1, <1>3, <1>4, <1>5, <1>7, <1>8, <1>9, InOrderBlocks

(***************************************************************************)
(* What is looked for from a block on is found once.                       *)
(***************************************************************************)
Stays(a, b, m) ==
  /\ a \in 0 .. m /\ b \in 0 .. m + 1
  /\ a # None => b = a
  /\ a = None => b \in {None, m + 1}

\* A block is anchored at a bar of the series.
LEMMA BlockAnchor ==
  ASSUME NEW s \in Seq(Candle), NEW d, NEW fvgs,
         NEW o \in DetectOrderBlocks(s, AggregateLegs(s, d), fvgs)
  PROVE  o.anchor \in 1 .. Len(s)
<1>1. PICK i \in 1 .. Len(s) : /\ OrderBlockBars(s, Leg(s, d, i)) # {}
                               /\ o = OrderBlock(s, Leg(s, d, i))
  BY InOrderBlocks
<1> DEFINE run == OrderBlockBars(s, Leg(s, d, i))
<1>2. run \subseteq 1 .. Len(s)
  <2>1. Leg(s, d, i).start \in 1 .. Len(s) + 1
    BY LegFields
  <2> QED  BY <2>1, BlockBars
<1>3. o.anchor = Min(run)
  BY <1>1 DEF OrderBlock
<1> HIDE DEF run
<1>4. Min(run) \in run
  <2>1. 1 \in Int /\ Len(s) \in Int /\ run # {}
    BY <1>1 DEF run
  <2> QED  BY <1>2, <2>1, ExtremesOfBars
<1> QED  BY <1>2, <1>3, <1>4

\* Blocks with one key agree on what the key holds.
LEMMA KeyFields ==
  ASSUME NEW o, NEW p, BlockKey(p) = BlockKey(o)
  PROVE  p.direction = o.direction /\ p.anchor = o.anchor /\ p.range = o.range
  BY DEF BlockKey

\* The touch, the invalidation and the retest of a block.
LEMMA TouchStays ==
  ASSUME NEW s, NEW n, Grows(s, n), NEW o, NEW p, BlockKey(p) = BlockKey(o),
         o.anchor \in 1 .. Len(s)
  PROVE  /\ Stays(FirstTouch(s, o), FirstTouch(n, p), Len(s))
         /\ FirstTouch(s, o) # None => FirstTouch(s, o) > o.anchor
         /\ FirstTouch(n, p) # None => FirstTouch(n, p) > o.anchor
<1>0. /\ p.direction = o.direction /\ p.anchor = o.anchor /\ p.range = o.range
      /\ Len(s) \in Nat /\ Len(n) = Len(s) + 1 /\ \A t \in 1 .. Len(s) : n[t] = s[t]
  BY KeyFields DEF Grows
<1> DEFINE A == {t \in o.anchor + 1 .. Len(s) : TradesBackTo(s[t], o)}
           B == {t \in o.anchor + 1 .. Len(s) + 1 : TradesBackTo(n[t], p)}
<1>1. \A t \in o.anchor + 1 .. Len(s) : TradesBackTo(n[t], p) <=> TradesBackTo(s[t], o)
  BY <1>0 DEF TradesBackTo
<1>2. A \subseteq 1 .. Len(s) /\ B \subseteq 1 .. Len(s) + 1 /\ A = {t \in B : t <= Len(s)}
  BY <1>0, <1>1
<1>3. FirstTouch(s, o) = FirstOf(A) /\ FirstTouch(n, p) = FirstOf(B)
  BY <1>0 DEF FirstTouch
<1>4. \A t \in A \cup B : t > o.anchor
  OBVIOUS
<1> HIDE DEF A, B
<1>5. /\ FirstOf(A) \in 0 .. Len(s) /\ FirstOf(B) \in 0 .. Len(s) + 1
      /\ FirstOf(A) # None => FirstOf(A) \in A /\ FirstOf(B) = FirstOf(A)
      /\ FirstOf(A) = None => FirstOf(B) \in {None, Len(s) + 1}
      /\ FirstOf(B) # None => FirstOf(B) \in B
  <2>1. /\ A # {} => FirstOf(A) \in A
        /\ B # {} => FirstOf(B) \in B
        /\ FirstOf(A) = None <=> A = {}
        /\ FirstOf(A) \in 0 .. Len(s) /\ FirstOf(B) \in 0 .. Len(s) + 1
        /\ FirstOf(A) # None => FirstOf(B) = FirstOf(A)
        /\ FirstOf(A) = None => FirstOf(B) \in {None, Len(s) + 1}
    BY <1>0, <1>2, FirstStays
  <2>2. B = {} => FirstOf(B) = None
    BY DEF FirstOf
  <2> QED  BY <2>1, <2>2
<1> QED  BY <1>3, <1>4, <1>5 DEF Stays

\* A block that was invalidated stays so, at the same bar.
LEMMA InvalidationStays ==
  ASSUME NEW s, NEW n, Grows(s, n), NEW o, NEW p, BlockKey(p) = BlockKey(o),
         o.anchor \in 1 .. Len(s)
  PROVE  /\ Stays(ObInvalidatedAt(s, o), ObInvalidatedAt(n, p), Len(s))
         /\ ObInvalidatedAt(s, o) # None => ObInvalidatedAt(s, o) > o.anchor
<1>0. /\ p.direction = o.direction /\ p.anchor = o.anchor /\ p.range = o.range
      /\ Len(s) \in Nat /\ Len(n) = Len(s) + 1 /\ \A t \in 1 .. Len(s) : n[t] = s[t]
  BY KeyFields DEF Grows
<1> DEFINE A == {t \in o.anchor + 1 .. Len(s) : ClosesBeyondMid(s[t], o.direction, o.range)}
           B == {t \in o.anchor + 1 .. Len(s) + 1 : ClosesBeyondMid(n[t], o.direction, o.range)}
<1>1. \A t \in o.anchor + 1 .. Len(s) : n[t] = s[t]
  BY <1>0
<1>2. A \subseteq 1 .. Len(s) /\ B \subseteq 1 .. Len(s) + 1 /\ A = {t \in B : t <= Len(s)}
  BY <1>0, <1>1
<1>3. ObInvalidatedAt(s, o) = FirstOf(A) /\ ObInvalidatedAt(n, p) = FirstOf(B)
  BY <1>0 DEF ObInvalidatedAt
<1>4. \A t \in A \cup B : t > o.anchor
  OBVIOUS
<1> HIDE DEF A, B
<1>5. /\ FirstOf(A) \in 0 .. Len(s) /\ FirstOf(B) \in 0 .. Len(s) + 1
      /\ FirstOf(A) # None => FirstOf(A) \in A /\ FirstOf(B) = FirstOf(A)
      /\ FirstOf(A) = None => FirstOf(B) \in {None, Len(s) + 1}
      /\ FirstOf(B) # None => FirstOf(B) \in B
  <2>1. /\ A # {} => FirstOf(A) \in A
        /\ B # {} => FirstOf(B) \in B
        /\ FirstOf(A) = None <=> A = {}
        /\ FirstOf(A) \in 0 .. Len(s) /\ FirstOf(B) \in 0 .. Len(s) + 1
        /\ FirstOf(A) # None => FirstOf(B) = FirstOf(A)
        /\ FirstOf(A) = None => FirstOf(B) \in {None, Len(s) + 1}
    BY <1>0, <1>2, FirstStays
  <2>2. B = {} => FirstOf(B) = None
    BY DEF FirstOf
  <2> QED  BY <2>1, <2>2
<1> QED  BY <1>3, <1>4, <1>5 DEF Stays

\* A block that was retested stays so, at the same bar.
LEMMA RetestStays ==
  ASSUME NEW s, NEW n, Grows(s, n), NEW o, NEW p, BlockKey(p) = BlockKey(o),
         o.anchor \in 1 .. Len(s)
  PROVE  Stays(FirstRetest(s, o), FirstRetest(n, p), Len(s))
<1>0. /\ p.direction = o.direction /\ p.anchor = o.anchor /\ p.range = o.range
      /\ Len(s) \in Nat /\ Len(n) = Len(s) + 1 /\ \A t \in 1 .. Len(s) : n[t] = s[t]
  BY KeyFields DEF Grows
<1> DEFINE i == ObInvalidatedAt(s, o)
           j == ObInvalidatedAt(n, p)
           last == IF i = None THEN Len(s) ELSE i - 1
           end == IF j = None THEN Len(n) ELSE j - 1
           A == {t \in o.anchor + 1 .. last : TradesBackTo(s[t], o)}
           B == {t \in o.anchor + 1 .. end : TradesBackTo(n[t], p)}
<1>1. Stays(i, j, Len(s))
  BY InvalidationStays
<1>2. FirstRetest(s, o) = FirstOf(A) /\ FirstRetest(n, p) = FirstOf(B)
  BY <1>0 DEF FirstRetest
<1> HIDE DEF i, j
<1>3. last \in Int /\ end \in Int /\ last <= Len(s) /\ end <= Len(s) + 1
      /\ \A t \in 1 .. Len(s) : t <= end <=> t <= last
  BY <1>0, <1>1 DEF Stays, None
<1> HIDE DEF last, end
<1>4. \A t \in o.anchor + 1 .. last : TradesBackTo(n[t], p) <=> TradesBackTo(s[t], o)
  BY <1>0, <1>3 DEF TradesBackTo
<1>5. A \subseteq 1 .. Len(s) /\ B \subseteq 1 .. Len(s) + 1
  BY <1>0, <1>3
<1>6. A = {t \in B : t <= Len(s)}
  <2>1. \A t \in B : t \in Int /\ o.anchor + 1 <= t /\ t <= end
    BY <1>0, <1>3
  <2>2. \A t \in A : t \in Int /\ o.anchor + 1 <= t /\ t <= last
    BY <1>0, <1>3
  <2>3. \A t \in A : t \in B /\ t <= Len(s)
    BY <1>0, <1>3, <1>4, <1>5, <2>2
  <2>4. ASSUME NEW t \in B, t <= Len(s) PROVE t \in A
    <3>1. t \in o.anchor + 1 .. last
      BY <1>0, <1>3, <2>1, <2>4
    <3> QED  BY <1>4, <2>4, <3>1
  <2> HIDE DEF A, B
  <2> QED  BY <2>3, <2>4
<1> HIDE DEF A, B
<1>7. /\ FirstOf(A) \in 0 .. Len(s) /\ FirstOf(B) \in 0 .. Len(s) + 1
      /\ FirstOf(A) # None => FirstOf(B) = FirstOf(A)
      /\ FirstOf(A) = None => FirstOf(B) \in {None, Len(s) + 1}
  BY <1>0, <1>5, <1>6, FirstStays
<1> QED  BY <1>2, <1>7 DEF Stays

(***************************************************************************)
(* Mitigations and breakers.                                               *)
(***************************************************************************)
\* The sweeps of the series among those of the longer one.
EarlierSweeps(sweeps, all, m) ==
  /\ \A w \in all : w.index \in Nat
  /\ sweeps = {w \in all : w.index < m + 1}

\* Later sweeps are not between bars that are over.
LEMMA SameSweepsBetween ==
  ASSUME NEW m \in Nat, NEW sweeps, NEW all, EarlierSweeps(sweeps, all, m),
         NEW o, NEW p, p.direction = o.direction, NEW a, NEW x \in Int, x <= m + 1
  PROVE  SweepsBetween(all, p, a, x) = SweepsBetween(sweeps, o, a, x)
<1>1. \A w \in all : w.index < x => w.index < m + 1
  BY DEF EarlierSweeps
<1> QED  BY <1>1 DEF SweepsBetween, EarlierSweeps

\* When there is a mitigation.
LEMMA InMitigations ==
  ASSUME NEW s, NEW obs, NEW sweeps, NEW m
  PROVE  m \in DetectMitigations(s, obs, sweeps) <=>
           \E o \in obs : /\ FirstTouch(s, o) # None
                          /\ SweepsBetween(sweeps, o, o.anchor, FirstTouch(s, o)) = {}
                          /\ Survives(s, o)
                          /\ m = [direction |-> o.direction, origin |-> o, touch |-> FirstTouch(s, o)]
  BY DEF DetectMitigations

\* A mitigation past its grace is one of the longer series too.
LEMMA MitigationsStay ==
  ASSUME NEW s, NEW n, Grows(s, n), NEW obs, NEW blocks, NEW sweeps, NEW all,
         EarlierSweeps(sweeps, all, Len(s)),
         \A o \in obs : o.anchor \in 1 .. Len(s),
         \A o \in obs : \E p \in blocks : BlockKey(p) = BlockKey(o),
         NEW m \in DetectMitigations(s, obs, sweeps), m.touch + GraceBars < Len(n)
  PROVE  \E q \in DetectMitigations(n, blocks, all) :
           /\ BlockKey(q.origin) = BlockKey(m.origin) /\ q.touch = m.touch
           /\ q.touch + GraceBars < Len(n)
<1>0. Len(s) \in Nat /\ Len(n) = Len(s) + 1 /\ GraceBars \in Nat
  BY PDRegistryAssumption DEF Grows
<1>1. PICK o \in obs : /\ FirstTouch(s, o) # None
                       /\ SweepsBetween(sweeps, o, o.anchor, FirstTouch(s, o)) = {}
                       /\ Survives(s, o)
                       /\ m = [direction |-> o.direction, origin |-> o, touch |-> FirstTouch(s, o)]
  BY DEF DetectMitigations
<1>2. m.origin = o /\ m.touch = FirstTouch(s, o)
  BY <1>1
<1>3. PICK p \in blocks : BlockKey(p) = BlockKey(o)
  OBVIOUS
<1>4. p.direction = o.direction /\ p.anchor = o.anchor
  BY <1>3, KeyFields
<1>5. Stays(FirstTouch(s, o), FirstTouch(n, p), Len(s))
  BY <1>3, TouchStays
<1>6. FirstTouch(n, p) = FirstTouch(s, o) /\ FirstTouch(s, o) \in Int /\ FirstTouch(s, o) <= Len(s) + 1
  BY <1>0, <1>1, <1>5 DEF Stays
<1>7. SweepsBetween(all, p, p.anchor, FirstTouch(n, p)) = {}
  <2>1. SweepsBetween(all, p, o.anchor, FirstTouch(s, o))
          = SweepsBetween(sweeps, o, o.anchor, FirstTouch(s, o))
    BY <1>0, <1>4, <1>6, SameSweepsBetween
  <2> QED  BY <1>1, <1>4, <1>6, <2>1
<1>8. Stays(ObInvalidatedAt(s, o), ObInvalidatedAt(n, p), Len(s))
  BY <1>3, InvalidationStays
<1>9. Survives(n, p)
  BY <1>0, <1>1, <1>2, <1>6, <1>8 DEF Survives, Stays
<1> DEFINE q == [direction |-> p.direction, origin |-> p, touch |-> FirstTouch(n, p)]
<1>10. q \in DetectMitigations(n, blocks, all)
  BY <1>1, <1>6, <1>7, <1>9, InMitigations
<1>11. q.origin = p /\ q.touch = FirstTouch(n, p)
  OBVIOUS
<1> QED  BY <1>2, <1>3, <1>6, <1>10, <1>11

\* A mitigation of a block of the series is told by its touch.
LEMMA MitigationsAreTold ==
  ASSUME NEW s, NEW n, Grows(s, n), NEW obs, NEW sweeps, NEW all,
         EarlierSweeps(sweeps, all, Len(s)),
         NEW o \in obs, o.anchor \in 1 .. Len(s), NEW blocks, NEW q \in DetectMitigations(n, blocks, all),
         q.origin = o, q.touch # Len(n)
  PROVE  \E m \in DetectMitigations(s, obs, sweeps) : m.origin = o /\ m.touch = q.touch
<1>0. Len(s) \in Nat /\ Len(n) = Len(s) + 1 /\ GraceBars \in Nat
  BY PDRegistryAssumption DEF Grows
<1>1. /\ FirstTouch(n, o) # None
      /\ SweepsBetween(all, o, o.anchor, FirstTouch(n, o)) = {}
      /\ Survives(n, o)
      /\ q.touch = FirstTouch(n, o)
  <2>1. PICK p \in blocks : /\ FirstTouch(n, p) # None
                            /\ SweepsBetween(all, p, p.anchor, FirstTouch(n, p)) = {}
                            /\ Survives(n, p)
                            /\ q = [direction |-> p.direction, origin |-> p,
                                    touch |-> FirstTouch(n, p)]
    BY DEF DetectMitigations
  <2>2. p = o /\ q.touch = FirstTouch(n, p)
    BY <2>1
  <2> QED  BY <2>1, <2>2
<1>2. /\ Stays(FirstTouch(s, o), FirstTouch(n, o), Len(s))
      /\ Stays(ObInvalidatedAt(s, o), ObInvalidatedAt(n, o), Len(s))
  BY TouchStays, InvalidationStays
<1>3. /\ FirstTouch(s, o) = FirstTouch(n, o) /\ FirstTouch(s, o) \in Int
      /\ FirstTouch(s, o) <= Len(s) + 1
  BY <1>0, <1>1, <1>2 DEF Stays
<1>4. SweepsBetween(sweeps, o, o.anchor, FirstTouch(s, o)) = {}
  BY <1>0, <1>1, <1>3, SameSweepsBetween
<1>5. Survives(s, o)
  BY <1>0, <1>1, <1>2, <1>3 DEF Survives, Stays
<1> DEFINE m == [direction |-> o.direction, origin |-> o, touch |-> FirstTouch(s, o)]
<1>6. m \in DetectMitigations(s, obs, sweeps)
  BY <1>1, <1>3, <1>4, <1>5, InMitigations
<1>7. m.origin = o /\ m.touch = FirstTouch(s, o)
  OBVIOUS
<1> QED  BY <1>1, <1>3, <1>6, <1>7

\* A breaker, as the setups see it.
BreakerKey(b) ==
  [direction |-> b.direction, range |-> b.range, sweep |-> b.sweep, invalidator |-> b.invalidator]

Breaker(s, ob, sweeps) ==
  LET inv == ObInvalidatedAt(s, ob)
      prior == SweepsBetween(sweeps, ob, ob.anchor, inv)
  IN  [direction |-> Against(ob.direction), origin |-> ob, range |-> ob.range,
       sweep |-> Max({w.index : w \in prior}), invalidator |-> inv]

\* When there is a breaker.
LEMMA InBreakers ==
  ASSUME NEW s, NEW obs, NEW sweeps, NEW b
  PROVE  b \in DetectBreakers(s, obs, sweeps) <=>
           \E o \in obs : /\ SweepsBetween(sweeps, o, o.anchor, ObInvalidatedAt(s, o)) # {}
                          /\ b = Breaker(s, o, sweeps)
  BY DEF DetectBreakers, Breaker

\* A breaker stays one.
LEMMA BreakersStay ==
  ASSUME NEW s, NEW n, Grows(s, n), NEW obs, NEW blocks, NEW sweeps, NEW all,
         EarlierSweeps(sweeps, all, Len(s)),
         \A o \in obs : o.anchor \in 1 .. Len(s),
         \A o \in obs : \E p \in blocks : BlockKey(p) = BlockKey(o),
         NEW b \in DetectBreakers(s, obs, sweeps)
  PROVE  \E c \in DetectBreakers(n, blocks, all) : BreakerKey(c) = BreakerKey(b)
<1>0. Len(s) \in Nat /\ Len(n) = Len(s) + 1
  BY DEF Grows
<1>1. PICK o \in obs : /\ SweepsBetween(sweeps, o, o.anchor, ObInvalidatedAt(s, o)) # {}
                       /\ b = Breaker(s, o, sweeps)
  BY DEF DetectBreakers, Breaker
<1>2. PICK p \in blocks : BlockKey(p) = BlockKey(o)
  OBVIOUS
<1>3. p.direction = o.direction /\ p.anchor = o.anchor /\ p.range = o.range
  BY <1>2, KeyFields
<1>4. Stays(ObInvalidatedAt(s, o), ObInvalidatedAt(n, p), Len(s))
  BY <1>2, InvalidationStays
<1>5. ObInvalidatedAt(s, o) # None
  <2>1. PICK w \in SweepsBetween(sweeps, o, o.anchor, ObInvalidatedAt(s, o)) : TRUE
    BY <1>1
  <2>2. w.index \in Nat /\ w.index < ObInvalidatedAt(s, o)
    BY <2>1 DEF SweepsBetween, EarlierSweeps
  <2> QED  BY <1>4, <2>2 DEF None, Stays
<1>6. /\ ObInvalidatedAt(n, p) = ObInvalidatedAt(s, o) /\ ObInvalidatedAt(s, o) \in Int
      /\ ObInvalidatedAt(s, o) <= Len(s) + 1
  BY <1>0, <1>4, <1>5 DEF Stays
<1>7. SweepsBetween(all, p, p.anchor, ObInvalidatedAt(n, p))
        = SweepsBetween(sweeps, o, o.anchor, ObInvalidatedAt(s, o))
  BY <1>0, <1>3, <1>6, SameSweepsBetween
<1>8. BreakerKey(Breaker(n, p, all)) = BreakerKey(Breaker(s, o, sweeps))
  BY <1>3, <1>6, <1>7 DEF BreakerKey, Breaker
<1>9. Breaker(n, p, all) \in DetectBreakers(n, blocks, all)
  BY <1>1, <1>7, InBreakers
<1> QED  BY <1>1, <1>8, <1>9

(***************************************************************************)
(* Rejections and the dealing range.                                       *)
(***************************************************************************)
LEMMA InRejections ==
  ASSUME NEW s, NEW pools, NEW r
  PROVE  r \in DetectRejections(s, pools) <=>
           \E p \in pools : \E t \in p.created .. Len(s) : Rejects(s, p, t) /\ r = Rejection(s, p, t)
  BY DEF DetectRejections

\* What a bar that can be confirmed by bars up to u says of a pool.
LEMMA SameRejection ==
  ASSUME NEW s, NEW n, Grows(s, n), NEW p, NEW t \in 1 .. Len(s)
  PROVE  /\ Rejection(n, p, t) = Rejection(s, p, t)
         /\ Rejects(s, p, t) => Rejects(n, p, t)
         /\ Rejects(n, p, t) /\ t + LookForward < Len(n) => Rejects(s, p, t)
<1>0. /\ Len(s) \in Nat /\ Len(n) = Len(s) + 1 /\ LookForward \in Nat
      /\ \A u \in 1 .. Len(s) : n[u] = s[u]
  BY PDRegistryAssumption DEF Grows
<1>1. n[t] = s[t] /\ (t # 1 => n[t - 1] = s[t - 1])
  BY <1>0
<1>2. /\ WickBeyond(n[t], p) <=> WickBeyond(s[t], p)
      /\ \A c : BackInside(n, p, t, c) <=> BackInside(s, p, t, c)
  BY <1>1 DEF BackInside
<1> DEFINE Confirms(q, u) == /\ Body(q[u]) > 0
                             /\ 100 * PoolWick(q[u], p) >= WickToBodyMin * Body(q[u])
                             /\ BackInside(q, p, t, q[u])
<1>3. \A u \in 1 .. Len(s) : Confirms(n, u) <=> Confirms(s, u)
  BY <1>0, <1>2
<1>4. /\ Rejects(n, p, t) <=> /\ WickBeyond(n[t], p)
                              /\ \E u \in t .. Smaller(t + LookForward, Len(n)) : Confirms(n, u)
      /\ Rejects(s, p, t) <=> /\ WickBeyond(s[t], p)
                              /\ \E u \in t .. Smaller(t + LookForward, Len(s)) : Confirms(s, u)
  BY DEF Rejects
<1> HIDE DEF Confirms
<1>5. /\ t .. Smaller(t + LookForward, Len(s)) \subseteq t .. Smaller(t + LookForward, Len(n))
      /\ t .. Smaller(t + LookForward, Len(s)) \subseteq 1 .. Len(s)
      /\ t + LookForward < Len(n) =>
           t .. Smaller(t + LookForward, Len(n)) = t .. Smaller(t + LookForward, Len(s))
  BY <1>0 DEF Smaller
<1>6. Rejection(n, p, t) = Rejection(s, p, t)
  BY <1>1 DEF Rejection
<1>7. Rejects(s, p, t) => Rejects(n, p, t)
  BY <1>2, <1>3, <1>4, <1>5
<1>8. Rejects(n, p, t) /\ t + LookForward < Len(n) => Rejects(s, p, t)
  BY <1>2, <1>3, <1>4, <1>5
<1> QED  BY <1>6, <1>7, <1>8

\* Rejections stay, and a new one needs the bar that was added.
LEMMA RejectionsExtend ==
  ASSUME NEW s, NEW n, Grows(s, n), NEW pools, NEW all, \A p \in all : p.created \in Nat \ {0},
         pools = {p \in all : p.created < Len(s) + 1}
  PROVE  /\ DetectRejections(s, pools) \subseteq DetectRejections(n, all)
         /\ \A r \in DetectRejections(n, all) \ DetectRejections(s, pools) :
              r.anchor + LookForward >= Len(n)
<1>0. Len(s) \in Nat /\ Len(n) = Len(s) + 1 /\ LookForward \in Nat
  BY PDRegistryAssumption DEF Grows
<1>1. ASSUME NEW r \in DetectRejections(s, pools) PROVE r \in DetectRejections(n, all)
  <2>1. PICK p \in pools : \E t \in p.created .. Len(s) : Rejects(s, p, t) /\ r = Rejection(s, p, t)
    BY DEF DetectRejections
  <2>2. PICK t \in p.created .. Len(s) : Rejects(s, p, t) /\ r = Rejection(s, p, t)
    BY <2>1
  <2>3. p \in all /\ t \in 1 .. Len(s) /\ t \in p.created .. Len(n)
    BY <1>0
  <2> QED  BY <2>2, <2>3, SameRejection, InRejections
<1>2. ASSUME NEW r \in DetectRejections(n, all), r \notin DetectRejections(s, pools)
      PROVE  r.anchor + LookForward >= Len(n)
  <2>1. PICK p \in all : \E t \in p.created .. Len(n) : Rejects(n, p, t) /\ r = Rejection(n, p, t)
    BY DEF DetectRejections
  <2>2. PICK t \in p.created .. Len(n) : Rejects(n, p, t) /\ r = Rejection(n, p, t)
    BY <2>1
  <2>3. r.anchor = t /\ t \in Int /\ p.created \in Nat \ {0} /\ p.created <= t
    BY <2>2 DEF Rejection
  <2>4. ASSUME t + LookForward < Len(n) PROVE FALSE
    <3>1. t \in 1 .. Len(s) /\ t \in p.created .. Len(s) /\ p \in pools
      BY <1>0, <2>3, <2>4
    <3>2. Rejects(s, p, t) /\ r = Rejection(s, p, t)
      BY <2>2, <2>4, <3>1, SameRejection
    <3> QED  BY <1>2, <3>1, <3>2, InRejections
  <2> QED  BY <1>0, <2>3, <2>4
<1> QED  BY <1>1, <1>2

\* The dealing range of a bar does not see the bars after it.
LEMMA SameDealing ==
  ASSUME NEW s, NEW n, Grows(s, n), NEW swings, NEW all,
         swings = {w \in all : w.confirmed < Len(s) + 1}, \A w \in all : w.confirmed \in Nat,
         NEW t \in 1 .. Len(s)
  PROVE  DealingAt(n, all, t) = DealingAt(s, swings, t)
<1>1. n[t] = s[t] /\ Len(s) \in Nat
  BY DEF Grows
<1>2. ASSUME NEW kind PROVE LastSwing(all, kind, t) = LastSwing(swings, kind, t)
  <2>1. \A w \in all : w.confirmed <= t => w.confirmed < Len(s) + 1
    BY <1>1
  <2>2. {w \in OfKind(all, kind) : w.confirmed <= t} = {w \in OfKind(swings, kind) : w.confirmed <= t}
    BY <2>1 DEF OfKind
  <2> QED  BY <2>2 DEF LastSwing
<1>3. DealingRangeAt(all, t) = DealingRangeAt(swings, t)
  <2>1. /\ LastSwing(all, "HIGH", t) = LastSwing(swings, "HIGH", t)
        /\ LastSwing(all, "LOW", t) = LastSwing(swings, "LOW", t)
    BY <1>2
  <2>2. ASSUME NEW r
        PROVE  r \in DealingRangeAt(all, t) <=> r \in DealingRangeAt(swings, t)
    <3>1. \A u : r \in DealingRangeAt(u, t) <=>
                 \E h \in LastSwing(u, "HIGH", t), l \in LastSwing(u, "LOW", t) :
                   r = Interval(Smaller(h.price, l.price), Larger(h.price, l.price))
      BY DEF DealingRangeAt
    <3> QED  BY <2>1, <3>1
  <2> QED  BY <2>2
<1> QED  BY <1>1, <1>3 DEF DealingAt

(***************************************************************************)
(* Clusters. Which prices lead depends on the prices below.                *)
(***************************************************************************)
LeadsOn(f, P) == f = [q \in P |-> ~\E l \in P : l < q /\ q - l <= Tolerance /\ f[l]]

\* The leaders of a finite set of prices can be told from below.
LEMMA LeadersExist ==
  \A k \in Nat : \A P \in SUBSET Int :
    IsFiniteSet(P) /\ Cardinality(P) = k => \E f : LeadsOn(f, P)
<1> DEFINE T == {k \in Nat : \A P \in SUBSET Int :
                   IsFiniteSet(P) /\ Cardinality(P) = k => \E f : LeadsOn(f, P)}
<1>1. 0 \in T
  <2>1. LeadsOn([q \in {} |-> TRUE], {})
    BY DEF LeadsOn
  <2>2. \A P : IsFiniteSet(P) /\ Cardinality(P) = 0 => P = {}
    BY FS_EmptySet
  <2> QED  BY <2>1, <2>2
<1>2. ASSUME NEW k \in Nat, k \in T PROVE k + 1 \in T
  <2> SUFFICES ASSUME NEW P \in SUBSET Int, IsFiniteSet(P), Cardinality(P) = k + 1
               PROVE  \E f : LeadsOn(f, P)
    OBVIOUS
  <2>1. P # {} /\ \A x \in P : IsFiniteSet(P \ {x}) /\ Cardinality(P \ {x}) = k
    BY OneSmaller
  <2> DEFINE M == Max(P)
             R == P \ {M}
  <2>2. M \in P /\ \A y \in P : y <= M
    BY <2>1, Extremes
  <2>3. PICK f : LeadsOn(f, R)
    BY <1>2, <2>1, <2>2
  <2> HIDE DEF M
  <2> DEFINE g == [q \in P |-> IF q # M THEN f[q]
                               ELSE ~\E l \in R : l < q /\ q - l <= Tolerance /\ f[l]]
  <2>4. \A q \in R : f[q] = ~\E l \in R : l < q /\ q - l <= Tolerance /\ f[l]
    BY <2>3, Zenon DEF LeadsOn
  <2>5. ASSUME NEW q \in P
        PROVE  g[q] = ~\E l \in P : l < q /\ q - l <= Tolerance /\ g[l]
    <3>1. \A l \in R : g[l] = f[l] /\ l \in P
      OBVIOUS
    <3>2. \A l \in P : l < q => l \in R
      <4>1. ~(M < q)
        BY <2>2
      <4> QED  BY <4>1
    <3>3. g[q] = ~\E l \in R : l < q /\ q - l <= Tolerance /\ f[l]
      BY <2>4
    <3> HIDE DEF g, R
    <3>4. (\E l \in R : l < q /\ q - l <= Tolerance /\ f[l]) <=>
          (\E l \in P : l < q /\ q - l <= Tolerance /\ g[l])
      BY <3>1, <3>2
    <3> QED  BY <3>3, <3>4
  <2>6. g = [q \in P |-> g[q]]
    OBVIOUS
  <2> HIDE DEF g
  <2>7. LeadsOn(g, P)
    BY <2>5, <2>6, Zenon DEF LeadsOn
  <2> QED  BY <2>7
<1> HIDE DEF T
<1>3. Nat \subseteq T
  BY <1>1, <1>2, NaturalsFollow
<1> QED  BY <1>3 DEF T

\* So the leaders are what their recursion says.
LEMMA LeadersAre ==
  ASSUME NEW P, P \subseteq Int, IsFiniteSet(P)
  PROVE  \A q \in P : Leads(P)[q] <=> ~\E l \in P : l < q /\ q - l <= Tolerance /\ Leads(P)[l]
<1>1. Cardinality(P) \in Nat /\ P \in SUBSET Int
  BY FS_CardinalityType
<1>2. \E f : LeadsOn(f, P)
  BY <1>1, LeadersExist
<1>3. Leads(P) = CHOOSE f : LeadsOn(f, P)
  BY DEF Leads, LeadsOn
<1>4. LeadsOn(Leads(P), P)
  BY <1>2, <1>3
<1> QED  BY <1>4, Zenon DEF LeadsOn

\* Prices above a bound do not change the leaders below it.
LEMMA SameLeaders ==
  ASSUME NEW P, P \subseteq Int, IsFiniteSet(P), NEW Q, Q \subseteq Int, IsFiniteSet(Q),
         NEW b \in Int, \A x \in Int : x <= b => (x \in P <=> x \in Q)
  PROVE  \A q \in P : q <= b => (Leads(P)[q] <=> Leads(Q)[q])
<1> DEFINE D == {q \in P : q <= b /\ ~(Leads(P)[q] <=> Leads(Q)[q])}
<1>1. ASSUME D # {} PROVE FALSE
  <2>1. IsFiniteSet(D) /\ D \subseteq Int
    BY FS_Subset
  <2> DEFINE m == Min(D)
  <2>2. m \in D /\ \A y \in D : m <= y
    BY <1>1, <2>1, Extremes
  <2> HIDE DEF m
  <2>3. m \in P /\ m \in Q /\ m \in Int /\ m <= b
    BY <2>2
  <2>4. \A l \in Int : l < m => (l \in P <=> l \in Q) /\ (l \in P => (Leads(P)[l] <=> Leads(Q)[l]))
    BY <2>2, <2>3
  <2>5. (\E l \in P : l < m /\ m - l <= Tolerance /\ Leads(P)[l]) <=>
        (\E l \in Q : l < m /\ m - l <= Tolerance /\ Leads(Q)[l])
    BY <2>4
  <2>6. Leads(P)[m] <=> Leads(Q)[m]
    BY <2>3, <2>5, LeadersAre
  <2> QED  BY <2>2, <2>6
<1> QED  BY <1>1

Kinds == {"HIGH", "LOW"}
KindPrices(swings, kind) == {w.price : w \in OfKind(swings, kind)}
Run(swings, kind, q) == {w \in OfKind(swings, kind) : w.price \in q .. q + Tolerance}

\* Swings as the detector returns them.
SwingSet(swings) ==
  /\ IsFiniteSet(swings)
  /\ \A w \in swings : w.kind \in Kinds /\ w.price \in Int /\ w.confirmed \in Nat \ {0}

\* Swings are finite in number, on bars of the series, at their extremes.
LEMMA SwingsAreSwings ==
  ASSUME NEW s \in Seq(Candle)
  PROVE  /\ SwingSet(DetectSwings(s))
         /\ \A w \in DetectSwings(s) :
              /\ w.index \in 1 .. Len(s)
              /\ w.price \in {s[w.index].low, s[w.index].high}
<1> DEFINE h == [t \in Inner(s) |-> Swing(t, "HIGH", s[t].high)]
           l == [t \in Inner(s) |-> Swing(t, "LOW", s[t].low)]
           H == {t \in Inner(s) : IsSwingHigh(s, t)}
           L == {t \in Inner(s) : IsSwingLow(s, t)}
<1>0. SwingN \in Nat \ {0} /\ Len(s) \in Nat
  BY StructureAssumption
<1>1. Inner(s) \subseteq 1 .. Len(s) /\ IsFiniteSet(Inner(s))
  <2>1. SwingN + 1 \in Int /\ Len(s) - SwingN \in Int
    BY <1>0
  <2>2. IsFiniteSet(SwingN + 1 .. Len(s) - SwingN)
    BY <2>1, FS_Interval
  <2>3. SwingN + 1 .. Len(s) - SwingN \subseteq 1 .. Len(s)
    BY <1>0
  <2> QED  BY <2>2, <2>3 DEF Inner
<1>2. IsFiniteSet(H) /\ IsFiniteSet(L) /\ H \subseteq Inner(s) /\ L \subseteq Inner(s)
  BY <1>1, FS_Subset
<1>3. DetectSwings(s) = {h[t] : t \in H} \cup {l[t] : t \in L}
  BY <1>2 DEF DetectSwings
<1>4. IsFiniteSet(DetectSwings(s))
  <2> HIDE DEF h, l, H, L
  <2>1. IsFiniteSet({h[t] : t \in H}) /\ IsFiniteSet({l[t] : t \in L})
    BY <1>2, ValuesFinite
  <2> QED  BY <1>3, <2>1, FS_Union
<1>5. ASSUME NEW w \in DetectSwings(s)
      PROVE  /\ w.kind \in Kinds /\ w.price \in Int /\ w.confirmed \in Nat \ {0}
             /\ w.index \in 1 .. Len(s)
             /\ w.price \in {s[w.index].low, s[w.index].high}
  <2>1. PICK t \in Inner(s) : \/ w = Swing(t, "HIGH", s[t].high)
                              \/ w = Swing(t, "LOW", s[t].low)
    BY DEF DetectSwings
  <2>2. t \in 1 .. Len(s) /\ s[t] \in Candle /\ t + SwingN \in Nat \ {0}
    BY <1>0, <1>1
  <2> QED  BY <2>1, <2>2 DEF Swing, Kinds, Candle
<1> QED  BY <1>4, <1>5 DEF SwingSet

\* The prices of the swings of a kind are finitely many integers.
LEMMA KindPricesFinite ==
  ASSUME NEW swings, SwingSet(swings), NEW kind
  PROVE  IsFiniteSet(KindPrices(swings, kind)) /\ KindPrices(swings, kind) \subseteq Int
<1> DEFINE f == [w \in swings |-> w.price]
           W == OfKind(swings, kind)
<1>1. W \subseteq swings /\ IsFiniteSet(W)
  BY FS_Subset DEF SwingSet, OfKind
<1>2. KindPrices(swings, kind) = {f[w] : w \in W}
  BY <1>1 DEF KindPrices
<1>3. IsFiniteSet({f[w] : w \in W})
  <2> HIDE DEF f, W
  <2> QED  BY <1>1, ValuesFinite
<1> QED  BY <1>1, <1>2, <1>3 DEF KindPrices, SwingSet

\* What a cluster is: the run of a price that leads.
LEMMA InClusters ==
  ASSUME NEW swings, NEW c
  PROVE  c \in ClusterEqualExtremes(swings) <=>
           \E kind \in Kinds : \E q \in KindPrices(swings, kind) :
             /\ Leads(KindPrices(swings, kind))[q]
             /\ Cardinality(Run(swings, kind, q)) >= MinCluster
             /\ c = Cluster(Run(swings, kind, q))
<1> DEFINE runs(kind) == {Run(swings, kind, q) :
                           q \in {l \in KindPrices(swings, kind) : Leads(KindPrices(swings, kind))[l]}}
<1>1. ClusterEqualExtremes(swings) =
        {Cluster(run) : run \in {r \in runs("HIGH") \cup runs("LOW") : Cardinality(r) >= MinCluster}}
  BY Zenon DEF ClusterEqualExtremes, Run, KindPrices
<1>2. \A r : r \in runs("HIGH") \cup runs("LOW") <=>
             \E kind \in Kinds : \E q \in KindPrices(swings, kind) :
               Leads(KindPrices(swings, kind))[q] /\ r = Run(swings, kind, q)
  BY DEF Kinds
<1> HIDE DEF runs
<1>3. c \in ClusterEqualExtremes(swings) <=>
        \E r \in runs("HIGH") \cup runs("LOW") : Cardinality(r) >= MinCluster /\ c = Cluster(r)
  BY <1>1
<1> QED  BY <1>2, <1>3

\* A cluster has the members of its run.
LEMMA ClusterMembers ==
  ASSUME NEW run
  PROVE  Cluster(run).members = run
  BY DEF Cluster

\* A swing is in one cluster at the most.
LEMMA ClustersApart ==
  ASSUME NEW swings, SwingSet(swings),
         NEW x \in ClusterEqualExtremes(swings), NEW y \in ClusterEqualExtremes(swings),
         x.members \cap y.members # {}
  PROVE  x = y
<1>1. PICK kx \in Kinds : \E q \in KindPrices(swings, kx) :
             /\ Leads(KindPrices(swings, kx))[q]
             /\ x = Cluster(Run(swings, kx, q))
  BY InClusters, Zenon
<1>2. PICK qx \in KindPrices(swings, kx) : /\ Leads(KindPrices(swings, kx))[qx]
                                           /\ x = Cluster(Run(swings, kx, qx))
  BY <1>1
<1>3. PICK ky \in Kinds : \E q \in KindPrices(swings, ky) :
             /\ Leads(KindPrices(swings, ky))[q]
             /\ y = Cluster(Run(swings, ky, q))
  BY InClusters, Zenon
<1>4. PICK qy \in KindPrices(swings, ky) : /\ Leads(KindPrices(swings, ky))[qy]
                                           /\ y = Cluster(Run(swings, ky, qy))
  BY <1>3
<1>5. PICK w : w \in Run(swings, kx, qx) /\ w \in Run(swings, ky, qy)
  BY <1>2, <1>4, ClusterMembers
<1>6. /\ kx = ky /\ w.price \in qx .. qx + Tolerance /\ w.price \in qy .. qy + Tolerance
  BY <1>5 DEF Run, OfKind
<1> DEFINE P == KindPrices(swings, kx)
<1>7. IsFiniteSet(P) /\ P \subseteq Int
  BY KindPricesFinite
<1>8. qx \in P /\ qy \in P /\ Leads(P)[qx] /\ Leads(P)[qy]
  BY <1>2, <1>4, <1>6
<1> HIDE DEF P
<1>9. qx \in Int /\ qy \in Int /\ Tolerance \in Nat /\ qx - qy <= Tolerance /\ qy - qx <= Tolerance
  BY <1>6, <1>7, <1>8, PDRegistryAssumption
<1>10. \A q \in P : Leads(P)[q] <=> ~\E l \in P : l < q /\ q - l <= Tolerance /\ Leads(P)[l]
  BY <1>7, LeadersAre
<1>11. ~(qx < qy) /\ ~(qy < qx)
  BY <1>8, <1>9, <1>10
<1>12. qx = qy
  BY <1>9, <1>11
<1> QED  BY <1>2, <1>4, <1>6, <1>12

\* Swings out of its reach leave a cluster as it is.
LEMMA ClustersStay ==
  ASSUME NEW swings, SwingSet(swings), NEW all, SwingSet(all), swings \subseteq all,
         NEW c \in ClusterEqualExtremes(swings), c \notin ClusterEqualExtremes(all)
  PROVE  \E w \in all \ swings : \A v \in c.members : w.kind = v.kind /\ w.price <= v.price + Tolerance
<1>0. Tolerance \in Nat
  BY PDRegistryAssumption
<1>1. PICK kind \in Kinds : \E q \in KindPrices(swings, kind) :
             /\ Leads(KindPrices(swings, kind))[q]
             /\ Cardinality(Run(swings, kind, q)) >= MinCluster
             /\ c = Cluster(Run(swings, kind, q))
  BY InClusters, Zenon
<1>2. PICK q \in KindPrices(swings, kind) : /\ Leads(KindPrices(swings, kind))[q]
                                            /\ Cardinality(Run(swings, kind, q)) >= MinCluster
                                            /\ c = Cluster(Run(swings, kind, q))
  BY <1>1
<1> DEFINE P == KindPrices(swings, kind)
           Q == KindPrices(all, kind)
<1>3. IsFiniteSet(P) /\ P \subseteq Int /\ IsFiniteSet(Q) /\ Q \subseteq Int
  BY KindPricesFinite
<1>4. q \in Int /\ q + Tolerance \in Int
  BY <1>0, <1>3
<1>5. \A v \in c.members : v \in swings /\ v.kind = kind /\ v.price \in Int /\ q <= v.price
  BY <1>2, <1>4, ClusterMembers DEF Run, OfKind, SwingSet
<1>6. ASSUME \A w \in all \ swings : ~(w.kind = kind /\ w.price <= q + Tolerance) PROVE FALSE
  <2>1. \A w \in all : w.kind = kind /\ w.price <= q + Tolerance => w \in swings
    BY <1>6
  <2>2. \A x \in Int : x <= q + Tolerance => (x \in P <=> x \in Q)
    BY <2>1 DEF KindPrices, OfKind
  <2>3. Run(all, kind, q) = Run(swings, kind, q)
    BY <1>0, <1>4, <2>1 DEF Run, OfKind, SwingSet
  <2>4. Leads(P)[q] <=> Leads(Q)[q]
    <3>1. q \in P /\ q <= q + Tolerance
      BY <1>0, <1>4
    <3> HIDE DEF P, Q
    <3> QED  BY <1>3, <1>4, <2>2, <3>1, SameLeaders
  <2>5. q \in Q
    BY <1>0, <1>4, <2>2
  <2> QED  BY <1>2, <2>3, <2>4, <2>5, InClusters
<1>7. PICK w \in all \ swings : w.kind = kind /\ w.price <= q + Tolerance
  BY <1>6
<1>8. w.price \in Int
  BY DEF SwingSet
<1> QED  BY <1>0, <1>4, <1>5, <1>7, <1>8

(***************************************************************************)
(* The marks of a series and of the longer one.                            *)
(***************************************************************************)
LEMMA MarksAre ==
  ASSUME NEW s
  PROVE  LET d     == DetectDisplacement(s)
             fvgs  == DetectFvgs(s, d)
             pools == PoolsFromSwings(DetectSwings(s))
             obs   == DetectOrderBlocks(s, AggregateLegs(s, d), fvgs)
         IN  /\ Marks(s).displacement = d
             /\ Marks(s).fvgs = fvgs
             /\ Marks(s).obs = obs
             /\ Marks(s).pools = pools
             /\ Marks(s).swings = DetectSwings(s)
             /\ Marks(s).sweeps = DetectSweeps(s, pools)
             /\ Marks(s).taken = DetectConsumptions(s, pools)
             /\ Marks(s).breakers = DetectBreakers(s, obs, DetectSweeps(s, pools))
             /\ Marks(s).bprs = DetectBprs(s, fvgs)
             /\ Marks(s).events = DetectStructureEvents(s, DetectSwings(s), d, fvgs,
                                                        DetectConsumptions(s, pools))
  BY DEF Marks

\* A gap lies within the series.
LEMMA GapBars ==
  ASSUME NEW s \in Seq(Candle), NEW d, NEW g \in DetectFvgs(s, d)
  PROVE  g.anchor \in Nat \ {0} /\ g.anchor + 2 <= Len(s) /\ g.anchor \in 1 .. Len(s)
<1>1. PICK u \in 1 .. Len(s) - 2 : g.anchor = u
  BY DEF DetectFvgs, Gap
<1> QED  BY <1>1

\* A sweep lies within the series.
LEMMA SweepBars ==
  ASSUME NEW s \in Seq(Candle), NEW w \in Marks(s).sweeps
  PROVE  w.index \in Nat /\ w.index \in 1 .. Len(s)
<1> DEFINE pools == PoolsFromSwings(DetectSwings(s))
<1>1. w \in DetectSweeps(s, pools)
  BY MarksAre
<1>2. \A p \in pools : p.created \in Nat \ {0}
  BY PoolCreated
<1> HIDE DEF pools
<1>3. PICK p \in pools : \E t \in p.created .. Len(s) : w = Touch(p, t)
  BY <1>1, InSweeps
<1>4. PICK t \in p.created .. Len(s) : w = Touch(p, t)
  BY <1>3
<1> QED  BY <1>2, <1>4 DEF Touch

\* What the lemmas on gaps, blocks, pools and sweeps ask for.
LEMMA MarksGrow ==
  ASSUME NEW s, NEW n, Grows(s, n)
  PROVE  /\ Told(s, n, Marks(s).displacement, Marks(n).displacement, Marks(s).fvgs, Marks(n).fvgs)
         /\ \A g \in Marks(n).fvgs : g.anchor \in Nat /\ g.anchor + 2 <= Len(n)
         /\ Marks(s).pools = {p \in Marks(n).pools : p.created < Len(s) + 1}
         /\ \A p \in Marks(n).pools : p.created \in Nat \ {0}
         /\ EarlierSweeps(Marks(s).sweeps, Marks(n).sweeps, Len(s))
         /\ Marks(s).taken = {w \in Marks(n).taken : w.index < Len(s) + 1}
         /\ Marks(s).swings = {w \in Marks(n).swings : w.confirmed < Len(s) + 1}
         /\ SwingSet(Marks(s).swings) /\ SwingSet(Marks(n).swings)
         /\ \A o \in Marks(s).obs : o.anchor \in 1 .. Len(s)
<1>0. s \in Seq(Candle) /\ n \in Seq(Candle) /\ Len(s) \in Nat /\ Len(n) = Len(s) + 1
  BY DEF Grows
<1>1. PICK x \in Candle : n = Append(s, x)
  <2>1. n[Len(s) + 1] \in Candle
    BY <1>0
  <2>2. n = Append(s, n[Len(s) + 1])
    BY <1>0 DEF Grows
  <2> QED  BY <2>1, <2>2
<1> DEFINE d == DetectDisplacement(s)
           e == DetectDisplacement(n)
           pools == PoolsFromSwings(DetectSwings(s))
           all == PoolsFromSwings(DetectSwings(n))
<1>2. /\ Displacements(d, Len(s)) /\ Displacements(e, Len(n))
      /\ \A t \in 1 .. Len(s) : e[t] = d[t]
  BY DisplacementExtends DEF Displacements
<1>3. DetectFvgs(s, d) = {g \in DetectFvgs(n, e) : g.anchor + 2 < Len(s) + 1}
  BY <1>2, FvgsExtend
<1>4. Told(s, n, d, e, DetectFvgs(s, d), DetectFvgs(n, e))
  BY <1>2, <1>3 DEF Told
<1>5. \A g \in DetectFvgs(n, e) : g.anchor \in Nat /\ g.anchor + 2 <= Len(n)
  BY <1>0, GapBars
<1>6. /\ \A p \in all : p.created \in Nat \ {0}
      /\ pools = {p \in all : p.created < Len(s) + 1}
  BY <1>0, <1>1, PoolCreated, PoolsExtend
<1>7. DetectSwings(s) = {w \in DetectSwings(n) : w.confirmed < Len(s) + 1}
  BY <1>0, <1>1, SwingsExtend
<1> HIDE DEF pools, all
<1>8. /\ DetectSweeps(s, pools) = {w \in DetectSweeps(n, all) : w.index < Len(s) + 1}
      /\ DetectConsumptions(s, pools) = {w \in DetectConsumptions(n, all) : w.index < Len(s) + 1}
  BY <1>0, <1>1, <1>6, SweepsExtend, ConsumptionsExtend
<1>9. SwingSet(DetectSwings(s)) /\ SwingSet(DetectSwings(n))
  BY <1>0, SwingsAreSwings
<1>10. \A w \in Marks(n).sweeps : w.index \in Nat
  BY <1>0, SweepBars
<1>11. \A o \in Marks(s).obs : o.anchor \in 1 .. Len(s)
  BY <1>0, MarksAre, BlockAnchor
<1> QED  BY <1>4, <1>5, <1>6, <1>7, <1>8, <1>9, <1>10, <1>11, MarksAre DEF pools, all, EarlierSweeps

\* Blocks keep their keys, and a block that is new or changed needs the new bar.
LEMMA BlocksGrow ==
  ASSUME NEW s, NEW n, Grows(s, n)
  PROVE  /\ \A o \in Marks(s).obs : \E p \in Marks(n).obs : BlockKey(p) = BlockKey(o)
         /\ \A p \in Marks(n).obs :
              \/ p.leg.end = Len(n)
              \/ \E g \in FvgsOfLeg(p.leg, Marks(n).fvgs) : g.anchor + 2 = Len(n)
              \/ p \in Marks(s).obs
<1> DEFINE d == Marks(s).displacement
           e == Marks(n).displacement
           fvgs == Marks(s).fvgs
           all == Marks(n).fvgs
<1>1. /\ Told(s, n, d, e, fvgs, all)
      /\ \A g \in all : g.anchor \in Nat /\ g.anchor + 2 <= Len(n)
  BY MarksGrow
<1>2. /\ Marks(s).obs = DetectOrderBlocks(s, AggregateLegs(s, d), fvgs)
      /\ Marks(n).obs = DetectOrderBlocks(n, AggregateLegs(n, e), all)
  BY MarksAre
<1> HIDE DEF d, e, fvgs, all
<1> QED  BY <1>1, <1>2, BlocksStay, BlocksAreTold DEF all

\* What the registry holds of each kind.
LEMMA RegistryIs ==
  ASSUME NEW s, NEW m
  PROVE  /\ Registry(s, m).imbalances = DetectVolumeImbalances(s)
         /\ Registry(s, m).rejections = DetectRejections(s, m.pools)
         /\ Registry(s, m).mitigations = DetectMitigations(s, m.obs, m.sweeps)
         /\ Registry(s, m).clusters = ClusterEqualExtremes(m.swings)
         /\ \A t \in 1 .. Len(s) : Registry(s, m).dealing[t] = DealingAt(s, m.swings, t)
  BY DEF Registry

\* The settled mitigations, without the growing leg of their blocks.
Past(ms, now) ==
  {[block |-> BlockKey(m.origin), touch |-> m.touch] : m \in {x \in ms : x.touch + GraceBars < now}}

\* The registry keeps what it held of the bars that are over.
LEMMA RegistryGrows ==
  ASSUME NEW s, NEW n, Grows(s, n)
  PROVE  LET old == Registry(s, Marks(s))
             new == Registry(n, Marks(n))
         IN  /\ old.imbalances = {v \in new.imbalances : v.anchor + 1 < Len(n)}
             /\ old.rejections \subseteq new.rejections
             /\ \A r \in new.rejections \ old.rejections : r.anchor + LookForward >= Len(n)
             /\ Past(old.mitigations, Len(n)) \subseteq Past(new.mitigations, Len(n))
             /\ \A m \in new.mitigations :
                  \/ m.touch = Len(n)
                  \/ m.origin.leg.end = Len(n)
                  \/ \E g \in FvgsOfLeg(m.origin.leg, Marks(n).fvgs) : g.anchor + 2 = Len(n)
                  \/ \E o \in old.mitigations :
                       BlockKey(o.origin) = BlockKey(m.origin) /\ o.touch = m.touch
             /\ \A t \in 1 .. Len(s) : new.dealing[t] = old.dealing[t]
             /\ \A c \in old.clusters \ new.clusters :
                  \E w \in Marks(n).swings \ Marks(s).swings :
                    \A v \in c.members : w.kind = v.kind /\ w.price <= v.price + Tolerance
<1> DEFINE old == Registry(s, Marks(s))
           new == Registry(n, Marks(n))
<1>0. Len(s) \in Nat /\ Len(n) = Len(s) + 1
  BY DEF Grows
<1>1. /\ Marks(s).pools = {p \in Marks(n).pools : p.created < Len(s) + 1}
      /\ \A p \in Marks(n).pools : p.created \in Nat \ {0}
      /\ EarlierSweeps(Marks(s).sweeps, Marks(n).sweeps, Len(s))
      /\ Marks(s).swings = {w \in Marks(n).swings : w.confirmed < Len(s) + 1}
      /\ SwingSet(Marks(s).swings) /\ SwingSet(Marks(n).swings)
      /\ \A o \in Marks(s).obs : o.anchor \in 1 .. Len(s)
  BY MarksGrow
<1>2. /\ \A o \in Marks(s).obs : \E p \in Marks(n).obs : BlockKey(p) = BlockKey(o)
      /\ \A p \in Marks(n).obs :
           \/ p.leg.end = Len(n)
           \/ \E g \in FvgsOfLeg(p.leg, Marks(n).fvgs) : g.anchor + 2 = Len(n)
           \/ p \in Marks(s).obs
  BY BlocksGrow
<1>3. old.imbalances = {v \in new.imbalances : v.anchor + 1 < Len(n)}
  BY <1>0, ImbalancesExtend, RegistryIs
<1>4. /\ old.rejections \subseteq new.rejections
      /\ \A r \in new.rejections \ old.rejections : r.anchor + LookForward >= Len(n)
  BY <1>1, RejectionsExtend, RegistryIs
<1>5. Past(old.mitigations, Len(n)) \subseteq Past(new.mitigations, Len(n))
  <2>1. ASSUME NEW m \in DetectMitigations(s, Marks(s).obs, Marks(s).sweeps),
               m.touch + GraceBars < Len(n)
        PROVE  \E q \in DetectMitigations(n, Marks(n).obs, Marks(n).sweeps) :
                 /\ BlockKey(q.origin) = BlockKey(m.origin) /\ q.touch = m.touch
                 /\ q.touch + GraceBars < Len(n)
    BY <1>1, <1>2, <2>1, MitigationsStay
  <2> QED  BY <2>1, RegistryIs DEF Past
<1>6. ASSUME NEW m \in new.mitigations
      PROVE  \/ m.touch = Len(n)
             \/ m.origin.leg.end = Len(n)
             \/ \E g \in FvgsOfLeg(m.origin.leg, Marks(n).fvgs) : g.anchor + 2 = Len(n)
             \/ \E o \in old.mitigations :
                  BlockKey(o.origin) = BlockKey(m.origin) /\ o.touch = m.touch
  <2>1. m \in DetectMitigations(n, Marks(n).obs, Marks(n).sweeps)
    BY RegistryIs
  <2>2. m.origin \in Marks(n).obs
    BY <2>1 DEF DetectMitigations
  <2>3. ASSUME m.origin \in Marks(s).obs, m.touch # Len(n)
        PROVE  \E o \in old.mitigations : o.origin = m.origin /\ o.touch = m.touch
    <3> DEFINE o == m.origin
    <3>1. o \in Marks(s).obs /\ o.anchor \in 1 .. Len(s)
      BY <1>1, <2>3
    <3> HIDE DEF old, new
    <3>2. \E q \in DetectMitigations(s, Marks(s).obs, Marks(s).sweeps) :
            q.origin = o /\ q.touch = m.touch
      BY <1>1, <2>1, <2>3, <3>1, MitigationsAreTold
    <3> QED  BY <3>2, RegistryIs DEF old
  <2> QED  BY <1>2, <2>2, <2>3
<1>7. \A t \in 1 .. Len(s) : new.dealing[t] = old.dealing[t]
  <2>1. \A w \in Marks(n).swings : w.confirmed \in Nat
    BY <1>1 DEF SwingSet
  <2>2. \A t \in 1 .. Len(s) : DealingAt(n, Marks(n).swings, t) = DealingAt(s, Marks(s).swings, t)
    BY <1>1, <2>1, SameDealing
  <2>3. \A t \in 1 .. Len(s) : t \in 1 .. Len(n)
    BY <1>0
  <2> QED  BY <2>2, <2>3, RegistryIs
<1>8. \A c \in old.clusters \ new.clusters :
        \E w \in Marks(n).swings \ Marks(s).swings :
          \A v \in c.members : w.kind = v.kind /\ w.price <= v.price + Tolerance
  <2>1. Marks(s).swings \subseteq Marks(n).swings
    BY <1>1
  <2>2. \A c \in ClusterEqualExtremes(Marks(s).swings) :
          c \notin ClusterEqualExtremes(Marks(n).swings) =>
            \E w \in Marks(n).swings \ Marks(s).swings :
              \A v \in c.members : w.kind = v.kind /\ w.price <= v.price + Tolerance
    BY <1>1, <2>1, ClustersStay
  <2>3. /\ old.clusters = ClusterEqualExtremes(Marks(s).swings)
        /\ new.clusters = ClusterEqualExtremes(Marks(n).swings)
    BY RegistryIs
  <2> QED  BY <2>2, <2>3
<1> QED  BY <1>3, <1>4, <1>5, <1>6, <1>7, <1>8

(***************************************************************************)
(* A step appends a bar.                                                   *)
(***************************************************************************)
LEMMA StepGrows ==
  ASSUME PipelineInv, NEW c \in Shapes, NewBar(c)
  PROVE  \E n : /\ bars' = n /\ marks' = Marks(n) /\ Grows(bars, n) /\ Now = Len(n)
                /\ marks = Marks(bars)
<1>1. PICK x \in Candle : bars' = Append(bars, x) /\ marks' = Marks(Append(bars, x))
  BY BarAppended
<1>2. bars \in Seq(Candle) /\ marks = Marks(bars)
  BY DEF PipelineInv
<1> DEFINE n == Append(bars, x)
<1>3. Grows(bars, n)
  BY <1>2, AppendKeeps DEF Grows
<1>4. Now = Len(n)
  BY <1>1 DEF Now
<1> QED  BY <1>1, <1>2, <1>3, <1>4

\* The gaps, the blocks and the registry are told on time: no detector but the
\* structure walk revises what it said of a bar, for every series and threshold.
THEOREM ArraysCausal == Spec => ArraysAreCausal
<1>1. ASSUME PipelineInv, NEW c \in Shapes, NewBar(c)
      PROVE  BlocksAreCausal /\ RegistryIsCausal
  <2>1. PICK n : bars' = n /\ marks' = Marks(n) /\ Grows(bars, n) /\ Now = Len(n)
                 /\ marks = Marks(bars)
    BY <1>1, StepGrows
  <2>2. Len(n) = Len(bars) + 1
    BY <2>1 DEF Grows
  <2>3. BlocksAreCausal
    <3>1. /\ Told(bars, n, marks.displacement, marks'.displacement, marks.fvgs, marks'.fvgs)
      BY <2>1, MarksGrow
    <3>2. /\ \A t \in 1 .. Len(bars) : marks'.displacement[t] = marks.displacement[t]
          /\ marks.fvgs = {g \in marks'.fvgs : g.anchor + 2 < Now}
      BY <2>1, <2>2, <3>1 DEF Told
    <3>3. /\ \A o \in marks.obs : \E p \in marks'.obs : BlockKey(p) = BlockKey(o)
          /\ \A p \in marks'.obs : BornNow(p, marks') \/ p \in marks.obs
      BY <2>1, BlocksGrow DEF BornNow
    <3> QED  BY <3>2, <3>3 DEF BlocksAreCausal
  <2>4. RegistryIsCausal
    <3> DEFINE old == Registry(bars, marks)
               new == Registry(bars', marks')
    <3>1. /\ old.imbalances = {v \in new.imbalances : v.anchor + 1 < Now}
          /\ old.rejections \subseteq new.rejections
          /\ \A r \in new.rejections \ old.rejections : r.anchor + LookForward >= Now
          /\ Past(old.mitigations, Now) \subseteq Past(new.mitigations, Now)
          /\ \A m \in new.mitigations :
               \/ m.touch = Now \/ BornNow(m.origin, marks')
               \/ \E o \in old.mitigations :
                    BlockKey(o.origin) = BlockKey(m.origin) /\ o.touch = m.touch
          /\ \A t \in 1 .. Len(bars) : new.dealing[t] = old.dealing[t]
          /\ \A k \in old.clusters \ new.clusters :
               \E w \in marks'.swings \ marks.swings :
                 \A v \in k.members : w.kind = v.kind /\ w.price <= v.price + Tolerance
      BY <2>1, RegistryGrows DEF BornNow
    <3> QED  BY <3>1 DEF RegistryIsCausal, Past
  <2> QED  BY <2>3, <2>4
<1>2. PipelineInv /\ [Next]_vars => [BlocksAreCausal /\ RegistryIsCausal]_vars
  BY <1>1 DEF Next
<1> QED  BY <1>2, PipelineInit, PipelineStep, PTL DEF Spec, ArraysAreCausal

(***************************************************************************)
(* The structure walk, one bar at a time, on the marks k of a series.      *)
(***************************************************************************)
WalkStart == [last |-> [r \in Roles |-> NoSwing], state |-> "RANGE", events |-> {}]

WalkStep(w, s, t, k) ==
  LET seen == Continue(PromoteAll(w, k.swings, t), s, t)
  IN  Break(Break(seen, s, t, BULL, k.displacement, k.fvgs, k.taken),
            s, t, BEAR, k.displacement, k.fvgs, k.taken)

WalkUpTo(f, m, s, k) ==
  f = [t \in 0 .. m |-> IF t = 0 THEN WalkStart ELSE WalkStep(f[t - 1], s, t, k)]

\* The walk over the bars can be made as far as one likes.
LEMMA WalkExists ==
  ASSUME NEW s, NEW k
  PROVE  \A m \in Nat : \E f : WalkUpTo(f, m, s, k)
<1> DEFINE T == {m \in Nat : \E f : WalkUpTo(f, m, s, k)}
<1>1. 0 \in T
  <2>1. WalkUpTo([t \in 0 .. 0 |-> WalkStart], 0, s, k)
    BY DEF WalkUpTo
  <2> QED  BY <2>1
<1>2. ASSUME NEW m \in Nat, m \in T PROVE m + 1 \in T
  <2>1. PICK f : WalkUpTo(f, m, s, k)
    BY <1>2
  <2> DEFINE g == [t \in 0 .. m + 1 |-> IF t <= m THEN f[t] ELSE WalkStep(f[m], s, m + 1, k)]
  <2>2. \A t \in 0 .. m : f[t] = IF t = 0 THEN WalkStart ELSE WalkStep(f[t - 1], s, t, k)
    BY <2>1, Zenon DEF WalkUpTo
  <2>3. ASSUME NEW t \in 0 .. m + 1
        PROVE  g[t] = IF t = 0 THEN WalkStart ELSE WalkStep(g[t - 1], s, t, k)
    <3>1. CASE t = m + 1
      <4>1. t # 0 /\ t - 1 = m /\ m \in 0 .. m + 1 /\ ~(t <= m)
        BY <3>1
      <4>2. g[t] = WalkStep(f[m], s, m + 1, k) /\ g[m] = f[m]
        BY <4>1
      <4> QED  BY <3>1, <4>1, <4>2
    <3>2. CASE t # m + 1
      <4>1. t \in 0 .. m
        BY <3>2
      <4>2. t # 0 => t - 1 \in 0 .. m /\ t - 1 \in 0 .. m + 1
        BY <4>1
      <4>3. g[t] = f[t] /\ (t # 0 => g[t - 1] = f[t - 1])
        BY <4>1, <4>2
      <4> HIDE DEF g
      <4> QED  BY <2>2, <4>1, <4>3
    <3> QED  BY <3>1, <3>2
  <2>4. g = [t \in 0 .. m + 1 |-> g[t]]
    OBVIOUS
  <2> HIDE DEF g
  <2>5. WalkUpTo(g, m + 1, s, k)
    BY <2>3, <2>4, Zenon DEF WalkUpTo
  <2> QED  BY <2>5
<1> HIDE DEF T
<1>3. Nat \subseteq T
  BY <1>1, <1>2, NaturalsFollow
<1> QED  BY <1>3 DEF T

\* So the events of a series are those of its walk.
LEMMA EventsOfWalk ==
  ASSUME NEW s, Len(s) \in Nat
  PROVE  \E f : /\ WalkUpTo(f, Len(s), s, Marks(s))
                /\ Marks(s).events = f[Len(s)].events
<1> DEFINE k == Marks(s)
           f == CHOOSE walk : WalkUpTo(walk, Len(s), s, k)
<1>1. WalkUpTo(f, Len(s), s, k)
  <2>1. \E walk : WalkUpTo(walk, Len(s), s, k)
    BY WalkExists
  <2> QED  BY <2>1
<1>2. k.events = DetectStructureEvents(s, k.swings, k.displacement, k.fvgs, k.taken)
  BY MarksAre
<1>3. Walk(s, k.swings, k.displacement, k.fvgs, k.taken) = f[Len(s)]
  <2> HIDE DEF k
  <2> QED  BY Zenon DEF Walk, WalkUpTo, WalkStep, WalkStart
<1> QED  BY <1>1, <1>2, <1>3 DEF DetectStructureEvents

\* A walk's state, and what a bar does to its events.
WalkState(w) == w = [last |-> w.last, state |-> w.state, events |-> w.events]

AddsOnly(w, v, t) ==
  /\ WalkState(v)
  /\ w.events \subseteq v.events
  /\ \A e \in v.events \ w.events : e.index = t

\* Promoting swings adds no event.
LEMMA PromoteKeeps ==
  ASSUME NEW w, WalkState(w), NEW swings, NEW t
  PROVE  WalkState(PromoteAll(w, swings, t)) /\ PromoteAll(w, swings, t).events = w.events
<1>1. ASSUME NEW v, WalkState(v), NEW sw
      PROVE  WalkState(Promote(v, sw)) /\ Promote(v, sw).events = v.events
  <2> DEFINE last == [v.last EXCEPT ![Role(v.last, sw)] =
                       [price |-> sw.price, confirmed |-> sw.confirmed]]
  <2>1. Promote(v, sw) = [v EXCEPT !.last = last, !.state = StateOf(last)]
    BY DEF Promote
  <2> HIDE DEF last
  <2> DEFINE r == [last |-> last, state |-> StateOf(last), events |-> v.events]
  <2>2. Promote(v, sw) = r
    BY <1>1, <2>1 DEF WalkState
  <2>3. WalkState(r) /\ r.events = v.events
    BY DEF WalkState
  <2> QED  BY <2>2, <2>3
<1> DEFINE of(kind) == {sw \in swings : sw.confirmed = t /\ sw.kind = kind}
           high == IF of("HIGH") = {} THEN w ELSE Promote(w, CHOOSE sw \in of("HIGH") : TRUE)
<1>2. PromoteAll(w, swings, t) =
        IF of("LOW") = {} THEN high ELSE Promote(high, CHOOSE sw \in of("LOW") : TRUE)
  BY DEF PromoteAll
<1>3. WalkState(high) /\ high.events = w.events
  BY <1>1
<1> HIDE DEF high, of
<1> QED  BY <1>1, <1>2, <1>3

\* What a step of the walk leaves as it was.
LEMMA TaleExtended ==
  ASSUME NEW w, WalkState(w), NEW e, NEW state
  PROVE  /\ [w EXCEPT !.events = @ \cup {e}]
              = [last |-> w.last, state |-> w.state, events |-> w.events \cup {e}]
         /\ [w EXCEPT !.events = @ \cup {e}, !.state = state]
              = [last |-> w.last, state |-> state, events |-> w.events \cup {e}]
<1>0. PICK a, b, c : w = [last |-> a, state |-> b, events |-> c]
  BY DEF WalkState
<1> DEFINE y == c \cup {e}
           u == [last |-> a, state |-> b, events |-> y]
<1>1. w.last = a /\ w.state = b /\ w.events = c
  BY <1>0
<1>2. /\ [w EXCEPT !.events = @ \cup {e}] = [w EXCEPT !.events = y]
      /\ [w EXCEPT !.events = @ \cup {e}, !.state = state] = [w EXCEPT !.events = y, !.state = state]
  BY <1>1, Zenon
<1> HIDE DEF y
<1>3. [w EXCEPT !.events = y] = u
  BY <1>0
<1>4. [w EXCEPT !.events = y, !.state = state] = [[w EXCEPT !.events = y] EXCEPT !.state = state]
  <2>1. ASSUME NEW x PROVE [x EXCEPT !.events = y, !.state = state]
                             = [[x EXCEPT !.events = y] EXCEPT !.state = state]
    OBVIOUS
  <2> QED  BY <2>1, Zenon
<1>5. [u EXCEPT !.state = state] = [last |-> a, state |-> state, events |-> y]
  OBVIOUS
<1> HIDE DEF u
<1>6. /\ [w EXCEPT !.events = @ \cup {e}] = u
      /\ [w EXCEPT !.events = @ \cup {e}, !.state = state]
           = [last |-> a, state |-> state, events |-> y]
  BY <1>2, <1>3, <1>4, <1>5, Zenon
<1> QED  BY <1>1, <1>6, Zenon DEF u, y

\* Nothing, or an event of the bar, is added.
LEMMA EventAdded ==
  ASSUME NEW w, WalkState(w), NEW kind, NEW dir, NEW t, NEW price, NEW state
  PROVE  /\ AddsOnly(w, w, t)
         /\ AddsOnly(w, [w EXCEPT !.events = @ \cup {Event(kind, dir, t, price)}], t)
         /\ AddsOnly(w, [w EXCEPT !.events = @ \cup {Event(kind, dir, t, price)},
                                  !.state = state], t)
<1> DEFINE e == Event(kind, dir, t, price)
           u == [last |-> w.last, state |-> w.state, events |-> w.events \cup {e}]
           v == [last |-> w.last, state |-> state, events |-> w.events \cup {e}]
<1>1. e.index = t
  BY DEF Event
<1> HIDE DEF e
<1>2. /\ [w EXCEPT !.events = @ \cup {e}] = u
      /\ [w EXCEPT !.events = @ \cup {e}, !.state = state] = v
  BY TaleExtended, Zenon
<1>3. AddsOnly(w, u, t) /\ AddsOnly(w, v, t) /\ AddsOnly(w, w, t)
  BY <1>1 DEF AddsOnly, WalkState
<1> HIDE DEF u, v
<1> QED  BY <1>2, <1>3 DEF e

\* A step of the walk adds only events of its bar.
LEMMA BarAddsItsOwn ==
  ASSUME NEW w, WalkState(w), NEW s, NEW t, NEW k
  PROVE  AddsOnly(w, WalkStep(w, s, t, k), t)
<1> DEFINE p == PromoteAll(w, k.swings, t)
           c == Continue(p, s, t)
           B(v, dir) == Break(v, s, t, dir, k.displacement, k.fvgs, k.taken)
<1>1. WalkState(p) /\ p.events = w.events
  BY PromoteKeeps
<1>2. ASSUME NEW v, WalkState(v) PROVE AddsOnly(v, Continue(v, s, t), t)
  BY <1>2, EventAdded DEF Continue
<1>3. ASSUME NEW v, WalkState(v), NEW dir PROVE AddsOnly(v, B(v, dir), t)
  <2> DEFINE level == IF dir = BULL THEN v.last["LH"] ELSE v.last["HL"]
             kind == Reversal(dir, t, k.displacement, k.fvgs, k.taken)
             broken == [v EXCEPT !.events = @ \cup {Event(kind, dir, t, level.price)},
                                 !.state = IF kind = "MSS" THEN dir ELSE @]
  <2>1. B(v, dir) = v \/ B(v, dir) = broken
    BY DEF Break
  <2>2. broken = [v EXCEPT !.events = @ \cup {Event(kind, dir, t, level.price)},
                           !.state = IF kind = "MSS" THEN dir ELSE v.state]
    BY <1>3 DEF WalkState
  <2>3. AddsOnly(v, broken, t) /\ AddsOnly(v, v, t)
    <3> HIDE DEF level, kind
    <3> QED  BY <1>3, <2>2, EventAdded
  <2> HIDE DEF broken, B
  <2> QED  BY <2>1, <2>3
<1>4. WalkStep(w, s, t, k) = B(B(c, BULL), BEAR)
  BY DEF WalkStep
<1> HIDE DEF p, B
<1>5. AddsOnly(p, c, t)
  BY <1>1, <1>2
<1>6. AddsOnly(c, B(c, BULL), t)
  BY <1>3, <1>5 DEF AddsOnly
<1>7. AddsOnly(B(c, BULL), B(B(c, BULL), BEAR), t)
  BY <1>3, <1>6 DEF AddsOnly
<1> HIDE DEF c
<1> QED  BY <1>1, <1>4, <1>5, <1>6, <1>7 DEF AddsOnly

\* The events of a walk up to a bar are those it tells of the bars up to it.
LEMMA EventsUpTo ==
  ASSUME NEW s, NEW k, NEW m \in Nat, NEW f, WalkUpTo(f, m, s, k), NEW u \in 0 .. m
  PROVE  /\ f[u].events = {e \in f[m].events : e.index <= u}
         /\ \A e \in f[m].events : e.index \in 1 .. m
<1>0. \A t \in 0 .. m : f[t] = IF t = 0 THEN WalkStart ELSE WalkStep(f[t - 1], s, t, k)
  BY Zenon DEF WalkUpTo
<1>1. WalkState(WalkStart) /\ WalkStart.events = {}
  BY DEF WalkStart, WalkState
<1> DEFINE Good(t) == WalkState(f[t]) /\ \A e \in f[t].events : e.index \in 1 .. t
           T == {t \in Nat : t <= m => Good(t)}
<1>2. 0 \in T
  <2>1. f[0] = WalkStart
    BY <1>0
  <2>2. 0 \in Nat /\ Good(0)
    BY <1>1, <2>1
  <2> QED  BY <2>2
<1>3. ASSUME NEW t \in Nat, t \in T PROVE t + 1 \in T
  <2>1. ASSUME t + 1 <= m PROVE Good(t + 1)
    <3>1. t \in 0 .. m /\ t + 1 \in 0 .. m /\ t + 1 # 0 /\ (t + 1) - 1 = t
      BY <2>1
    <3>2. f[t + 1] = WalkStep(f[t], s, t + 1, k)
      BY <1>0, <3>1
    <3>3. Good(t)
      BY <1>3, <3>1
    <3>4. AddsOnly(f[t], f[t + 1], t + 1)
      BY <3>2, <3>3, BarAddsItsOwn
    <3>5. ASSUME NEW e \in f[t + 1].events PROVE e.index \in 1 .. t + 1
      BY <3>3, <3>4 DEF AddsOnly
    <3> QED  BY <3>4, <3>5 DEF AddsOnly
  <2> QED  BY <2>1
<1>4. Nat \subseteq T
  <2> HIDE DEF T
  <2> QED  BY <1>2, <1>3, NaturalsFollow
<1>5. \A t \in 0 .. m : Good(t)
  BY <1>4
<1> DEFINE R == {j \in Nat : u + j <= m => f[u].events = {e \in f[u + j].events : e.index <= u}}
<1>6. 0 \in R
  <2>1. u + 0 = u /\ u \in 0 .. m
    OBVIOUS
  <2>2. \A e \in f[u].events : e.index <= u
    BY <1>5
  <2>3. f[u].events = {e \in f[u].events : e.index <= u}
    BY <2>2
  <2> HIDE DEF T, Good
  <2> QED  BY <2>1, <2>3
<1>7. ASSUME NEW j \in Nat, j \in R PROVE j + 1 \in R
  <2>1. ASSUME u + (j + 1) <= m PROVE f[u].events = {e \in f[u + (j + 1)].events : e.index <= u}
    <3> DEFINE a == u + j
               b == u + (j + 1)
    <3>1. a \in 0 .. m /\ b \in 0 .. m /\ b # 0 /\ b - 1 = a /\ b > u /\ a <= m
      BY <2>1
    <3>2. f[u].events = {e \in f[a].events : e.index <= u}
      BY <1>7, <3>1
    <3> HIDE DEF a, b
    <3>3. f[b] = WalkStep(f[a], s, b, k)
      BY <1>0, <3>1
    <3>4. WalkState(f[a])
      BY <1>5, <3>1
    <3>5. AddsOnly(f[a], f[b], b)
      BY <3>3, <3>4, BarAddsItsOwn
    <3>6. \A e \in f[b].events : e.index <= u => e \in f[a].events
      BY <3>1, <3>5 DEF AddsOnly
    <3>7. f[a].events \subseteq f[b].events
      BY <3>5 DEF AddsOnly
    <3> HIDE DEF T, Good
    <3>8. f[u].events = {e \in f[b].events : e.index <= u}
      BY <3>2, <3>6, <3>7
    <3> QED  BY <3>8 DEF b
  <2> QED  BY <2>1
<1>8. Nat \subseteq R
  <2> HIDE DEF R
  <2> QED  BY <1>6, <1>7, NaturalsFollow
<1>9. m - u \in Nat /\ u + (m - u) = m
  OBVIOUS
<1>10. m - u \in R
  BY <1>8, <1>9
<1>11. \A e \in f[m].events : e.index \in 1 .. m
  BY <1>5
<1> HIDE DEF T, Good
<1> QED  BY <1>9, <1>10, <1>11

\* The same, in one word, for walks that are written out.
Tale(f, m, u) ==
  /\ f[u].events = {e \in f[m].events : e.index <= u}
  /\ \A e \in f[m].events : e.index \in 1 .. m

\* So the walk up to a bar tells every event up to it, and no other.
LEMMA TaleOfWalk ==
  \A s, k, f : \A m \in Nat : \A u \in 0 .. m : WalkUpTo(f, m, s, k) => Tale(f, m, u)
BY EventsUpTo, Zenon DEF Tale

\* The bar of a walk whose gap can have its three bars reads the same marks in
\* the longer series.
LEMMA SameStep ==
  ASSUME NEW s, NEW n, Grows(s, n), NEW w, NEW t \in 1 .. Len(s), t <= Len(s) - 2
  PROVE  WalkStep(w, n, t, Marks(n)) = WalkStep(w, s, t, Marks(s))
<1> DEFINE k == Marks(s)
           l == Marks(n)
<1>0. /\ Len(s) \in Nat /\ Len(n) = Len(s) + 1 /\ n[t] = s[t]
      /\ TakenLookback \in Nat /\ FvgLookback \in Nat
  BY MarketStructureAssumption DEF Grows
<1>1. /\ \A u \in 1 .. Len(s) : l.displacement[u] = k.displacement[u]
      /\ k.fvgs = {g \in l.fvgs : g.anchor + 2 < Len(s) + 1}
      /\ \A g \in l.fvgs : g.anchor \in Nat
      /\ k.taken = {c \in l.taken : c.index < Len(s) + 1}
      /\ k.swings = {v \in l.swings : v.confirmed < Len(s) + 1}
  BY MarksGrow DEF Told
<1> HIDE DEF k, l
<1>2. \A v : PromoteAll(v, l.swings, t) = PromoteAll(v, k.swings, t)
  <2>1. ASSUME NEW kind
        PROVE  {v \in l.swings : v.confirmed = t /\ v.kind = kind}
                 = {v \in k.swings : v.confirmed = t /\ v.kind = kind}
    BY <1>0, <1>1
  <2>2. /\ {v \in l.swings : v.confirmed = t /\ v.kind = "HIGH"}
             = {v \in k.swings : v.confirmed = t /\ v.kind = "HIGH"}
        /\ {v \in l.swings : v.confirmed = t /\ v.kind = "LOW"}
             = {v \in k.swings : v.confirmed = t /\ v.kind = "LOW"}
    BY <2>1
  <2> DEFINE Of(swings, kind) == {v \in swings : v.confirmed = t /\ v.kind = kind}
             High(v, high) == IF high = {} THEN v ELSE Promote(v, CHOOSE sw \in high : TRUE)
             Both(v, high, low) == High(High(v, high), low)
  <2>3. \A v, swings : PromoteAll(v, swings, t) = Both(v, Of(swings, "HIGH"), Of(swings, "LOW"))
    BY DEF PromoteAll
  <2>4. Of(l.swings, "HIGH") = Of(k.swings, "HIGH") /\ Of(l.swings, "LOW") = Of(k.swings, "LOW")
    BY <2>2
  <2> HIDE DEF Of, Both
  <2> QED  BY <2>3, <2>4
<1>3. \A v : Continue(v, n, t) = Continue(v, s, t)
  BY <1>0 DEF Continue
<1>4. ASSUME NEW dir
      PROVE  Reversal(dir, t, l.displacement, l.fvgs, l.taken)
               = Reversal(dir, t, k.displacement, k.fvgs, k.taken)
  <2>1. HasBreakingFvg(l.fvgs, dir, t) <=> HasBreakingFvg(k.fvgs, dir, t)
    <3>1. \A g \in l.fvgs : g.anchor \in t - FvgLookback .. t => g \in k.fvgs
      BY <1>0, <1>1
    <3>2. k.fvgs \subseteq l.fvgs
      BY <1>1
    <3> QED  BY <3>1, <3>2 DEF HasBreakingFvg
  <2>2. ASSUME NEW u \in 1 .. Len(s) PROVE TakenSide(l.taken, u) = TakenSide(k.taken, u)
    <3>1. {c \in l.taken : c.index = u} = {c \in k.taken : c.index = u}
      BY <1>0, <1>1
    <3> QED  BY <3>1 DEF TakenSide
  <2>3. Larger(1, t - TakenLookback) .. t - 1 \subseteq 1 .. Len(s)
    BY <1>0 DEF Larger
  <2>4. \A side : HadRecentConsumption(l.taken, side, t) <=> HadRecentConsumption(k.taken, side, t)
    BY <2>2, <2>3 DEF HadRecentConsumption
  <2> QED  BY <1>1, <2>1, <2>4 DEF Reversal
<1>5. \A v, dir : Break(v, n, t, dir, l.displacement, l.fvgs, l.taken)
                    = Break(v, s, t, dir, k.displacement, k.fvgs, k.taken)
  <2> SUFFICES ASSUME NEW v, NEW dir
               PROVE  Break(v, n, t, dir, l.displacement, l.fvgs, l.taken)
                        = Break(v, s, t, dir, k.displacement, k.fvgs, k.taken)
    BY Zenon
  <2>1. /\ Reversal(dir, t, l.displacement, l.fvgs, l.taken)
             = Reversal(dir, t, k.displacement, k.fvgs, k.taken)
        /\ n[t] = s[t]
    BY <1>0, <1>4
  <2> QED  BY <2>1, Zenon DEF Break
<1>6. WalkStep(w, n, t, l) = WalkStep(w, s, t, k)
  BY <1>2, <1>3, <1>5 DEF WalkStep
<1> QED  BY <1>6 DEF k, l

\* So the two walks tell the same events of the bars before the last two.
LEMMA EventsGrow ==
  ASSUME NEW s, NEW n, Grows(s, n)
  PROVE  {e \in Marks(n).events : e.index <= Len(s) - 2}
           = {e \in Marks(s).events : e.index <= Len(s) - 2}
<1>0. Len(s) \in Nat /\ Len(n) = Len(s) + 1
  BY DEF Grows
<1>1. PICK f : WalkUpTo(f, Len(s), s, Marks(s)) /\ Marks(s).events = f[Len(s)].events
  BY <1>0, EventsOfWalk
<1>2. PICK g : WalkUpTo(g, Len(s) + 1, n, Marks(n)) /\ Marks(n).events = g[Len(s) + 1].events
  <2>1. Len(n) \in Nat
    BY <1>0
  <2> QED  BY <1>0, <2>1, EventsOfWalk
<1>3. /\ \A t \in 0 .. Len(s) :
           f[t] = IF t = 0 THEN WalkStart ELSE WalkStep(f[t - 1], s, t, Marks(s))
      /\ \A t \in 0 .. Len(s) + 1 :
           g[t] = IF t = 0 THEN WalkStart ELSE WalkStep(g[t - 1], n, t, Marks(n))
  BY <1>1, <1>2, Zenon DEF WalkUpTo
<1> DEFINE T == {t \in Nat : t = 0 \/ t <= Len(s) - 2 => f[t] = g[t]}
<1>4. 0 \in T
  BY <1>0, <1>3
<1>5. ASSUME NEW t \in Nat, t \in T PROVE t + 1 \in T
  <2>1. ASSUME t + 1 <= Len(s) - 2 PROVE f[t + 1] = g[t + 1]
    <3>1. /\ t + 1 \in 1 .. Len(s) /\ t + 1 \in 0 .. Len(s) /\ t + 1 \in 0 .. Len(s) + 1
          /\ t + 1 # 0 /\ (t + 1) - 1 = t
      BY <1>0, <2>1
    <3>2. f[t] = g[t]
      BY <1>0, <1>5, <2>1
    <3>3. WalkStep(g[t], n, t + 1, Marks(n)) = WalkStep(f[t], s, t + 1, Marks(s))
      BY <2>1, <3>1, <3>2, SameStep
    <3> QED  BY <1>3, <3>1, <3>3
  <2> QED  BY <2>1
<1>6. Nat \subseteq T
  <2> HIDE DEF T
  <2> QED  BY <1>4, <1>5, NaturalsFollow
<1>7. CASE Len(s) - 2 \in Nat
  <2> DEFINE u == Len(s) - 2
  <2>1. u \in 0 .. Len(s) /\ u \in 0 .. Len(s) + 1 /\ f[u] = g[u]
    BY <1>0, <1>6, <1>7
  <2> HIDE DEF u, T
  <2>2. f[u].events = {e \in f[Len(s)].events : e.index <= u}
    <3>1. Tale(f, Len(s), u)
      BY <1>0, <1>1, <2>1, TaleOfWalk
    <3> QED  BY <3>1 DEF Tale
  <2>3. g[u].events = {e \in g[Len(s) + 1].events : e.index <= u}
    <3>1. Len(s) + 1 \in Nat
      BY <1>0
    <3>2. Tale(g, Len(s) + 1, u)
      BY <1>2, <2>1, <3>1, TaleOfWalk
    <3> QED  BY <3>2 DEF Tale
  <2>4. {e \in Marks(n).events : e.index <= u} = {e \in Marks(s).events : e.index <= u}
    BY <1>1, <1>2, <2>1, <2>2, <2>3
  <2> QED  BY <2>4 DEF u
<1>8. CASE Len(s) - 2 \notin Nat
  <2>1. 0 \in 0 .. Len(s) /\ 0 \in 0 .. Len(s) + 1 /\ Len(s) + 1 \in Nat
    BY <1>0
  <2>2. \A e \in Marks(s).events : e.index \in Nat
    <3>1. Tale(f, Len(s), 0)
      BY <1>0, <1>1, <2>1, TaleOfWalk
    <3> QED  BY <1>1, <3>1 DEF Tale
  <2>3. \A e \in Marks(n).events : e.index \in Nat
    <3>1. Tale(g, Len(s) + 1, 0)
      BY <1>2, <2>1, TaleOfWalk
    <3> QED  BY <1>2, <3>1 DEF Tale
  <2>4. \A i \in Nat : ~(i <= Len(s) - 2)
    BY <1>0, <1>8
  <2> QED  BY <2>2, <2>3, <2>4
<1> QED  BY <1>7, <1>8

\* A structure event is revised by the two bars after it at most: the walk
\* reads of a bar what the detectors tell of it, and only the gap of its
\* breaking leg is told later, by its third bar.
THEOREM EventsSettled == Spec => EventsSettle
<1> DEFINE Settled(m) == {e \in m.events : e.index <= Len(bars) - 2}
<1>1. ASSUME PipelineInv, NEW c \in Shapes, NewBar(c)
      PROVE  Settled(marks') = Settled(marks)
  <2>1. PICK n : bars' = n /\ marks' = Marks(n) /\ Grows(bars, n) /\ Now = Len(n)
                 /\ marks = Marks(bars)
    BY <1>1, StepGrows
  <2> QED  BY <2>1, EventsGrow
<1> DEFINE Settle == Settled(marks') = Settled(marks)
<1>2. PipelineInv /\ [Next]_vars => [Settle]_vars
  BY <1>1 DEF Next
<1> QED  BY <1>2, PipelineInit, PipelineStep, PTL DEF Spec, EventsSettle

(***************************************************************************)
(* Signals: what a pool that is told later may change of one.              *)
(***************************************************************************)
LEMMA SignalFields ==
  ASSUME NEW setup, NEW dir, NEW bar, NEW zone, NEW extreme, NEW pools,
         NEW x \in SignalIf(setup, dir, bar, zone, extreme, pools)
  PROVE  x.setup = setup /\ x.bar = bar
<1>1. PICK side, entry, sl, tp :
        x = [setup |-> setup, side |-> side, bar |-> bar, entry |-> entry, sl |-> sl, tp |-> tp]
  BY DEF SignalIf
<1> QED  BY <1>1

\* Pools as the detectors use them.
PoolSet(pools) ==
  IsFiniteSet(pools) /\ \A p \in pools : p.price \in Int /\ p.created \in Nat \ {0}

LEMMA PoolsArePools ==
  ASSUME NEW s \in Seq(Candle)
  PROVE  PoolSet(Marks(s).pools)
<1> DEFINE swings == DetectSwings(s)
           f == [w \in swings |-> PoolOf(w)]
<1>1. IsFiniteSet(swings) /\ \A w \in swings : w.price \in Int /\ w.confirmed \in Nat \ {0}
  BY SwingsAreSwings DEF SwingSet
<1>2. Marks(s).pools = {f[w] : w \in swings}
  <2>1. Marks(s).pools = PoolsFromSwings(swings)
    BY MarksAre
  <2> QED  BY <2>1 DEF PoolsFromSwings, PoolOf
<1>3. \A w \in swings : f[w].price = w.price /\ f[w].created = w.confirmed
  BY DEF PoolOf
<1>4. IsFiniteSet({f[w] : w \in swings})
  <2> HIDE DEF swings, f
  <2> QED  BY <1>1, ValuesFinite
<1> QED  BY <1>1, <1>2, <1>3, <1>4 DEF PoolSet

\* The distances that are far enough for a target.
Far(pools, entry, least, dir) == {d \in PoolDistances(pools, entry, dir) : d >= least}

LEMMA FarFinite ==
  ASSUME NEW pools, PoolSet(pools), NEW entry \in Int, NEW least \in Int, NEW dir
  PROVE  IsFiniteSet(Far(pools, entry, least, dir)) /\ Far(pools, entry, least, dir) \subseteq Int
<1> DEFINE bsl == {q \in pools : q.side = "BSL"}
           ssl == {q \in pools : q.side = "SSL"}
           f == [p \in pools |-> p.price - entry]
           h == [p \in pools |-> entry - p.price]
           D == PoolDistances(pools, entry, dir)
<1>1. IsFiniteSet(bsl) /\ IsFiniteSet(ssl)
  BY FS_Subset DEF PoolSet
<1>2. D = IF dir = BULL THEN {f[p] : p \in bsl} ELSE {h[p] : p \in ssl}
  BY DEF PoolDistances
<1>3. IsFiniteSet({f[p] : p \in bsl}) /\ IsFiniteSet({h[p] : p \in ssl})
  <2> HIDE DEF f, h, bsl, ssl
  <2> QED  BY <1>1, ValuesFinite
<1>4. IsFiniteSet(D)
  <2> HIDE DEF D, f, h, bsl, ssl
  <2> QED  BY <1>2, <1>3
<1>5. D \subseteq Int
  BY <1>2 DEF PoolSet
<1>6. Far(pools, entry, least, dir) \subseteq D
  BY DEF Far
<1> HIDE DEF D
<1> QED  BY <1>4, <1>5, <1>6, FS_Subset

\* A distance is to a pool that was known or to one that was told since.
LEMMA FarSplits ==
  ASSUME NEW old, NEW all, old \subseteq all, NEW entry, NEW least, NEW dir
  PROVE  Far(all, entry, least, dir)
           = Far(old, entry, least, dir) \cup Far(all \ old, entry, least, dir)
  BY DEF Far, PoolDistances

\* How far ahead the target is.
Aim(far, risk) ==
  CASE TpStrategy = "fixed_R" -> FixedR * risk
    [] TpStrategy = "nearest_pool" /\ far # {} -> Min(far)
    [] OTHER -> FallbackR * risk

LEMMA TargetIs ==
  ASSUME NEW pools, NEW entry, NEW risk, NEW least, NEW dir
  PROVE  Target(pools, entry, risk, least, dir)
           = Ahead(entry, Aim(Far(pools, entry, least, dir), risk), dir)
  BY DEF Target, Aim, Far

\* The least reach of a setup is never behind the entry.
LEMMA LeastIs ==
  ASSUME NEW setup, NEW risk \in Nat
  PROVE  /\ LeastTarget(setup, risk) \in Nat
         /\ FixedR * risk \in Nat /\ FallbackR * risk \in Nat /\ MinRR * risk \in Nat
<1>1. MinTpDistance \in Nat /\ FixedR \in Nat /\ FallbackR \in Nat /\ MinRR \in Nat
  BY SetupsAssumption
<1>2. \A a \in Nat : a * risk \in Nat
  OBVIOUS
<1> QED  BY <1>1, <1>2 DEF LeastTarget

LEMMA AimIs ==
  ASSUME NEW far, IsFiniteSet(far), far \subseteq Nat, NEW risk \in Nat
  PROVE  Aim(far, risk) \in Nat
<1>1. FixedR * risk \in Nat /\ FallbackR * risk \in Nat
  BY LeastIs
<1>2. far # {} => Min(far) \in Nat
  <2>1. far \subseteq Int
    OBVIOUS
  <2> QED  BY <2>1, Extremes
<1> QED  BY <1>1, <1>2 DEF Aim

\* A target ahead is as far away as it is ahead.
LEMMA AheadIs ==
  ASSUME NEW entry \in Int, NEW k \in Nat, NEW dir
  PROVE  Distance(Ahead(entry, k, dir), entry) = k
  BY DEF Distance, Ahead, Larger, Smaller

\* A signal, its risk and its target taken apart.
LEMMA InSignalIf ==
  ASSUME NEW setup, NEW dir, NEW bar, NEW zone, NEW extreme, NEW pools, PoolSet(pools),
         zone.low \in Int, zone.high \in Int, extreme \in Int
  PROVE  LET entry == Proximal(zone, dir)
             sl    == Ahead(extreme, -SlOffset, dir)
             risk  == Distance(entry, sl)
             far   == Far(pools, entry, LeastTarget(setup, risk), dir)
         IN  /\ entry \in Int /\ sl \in Int /\ risk \in Nat /\ far \subseteq Nat
             /\ IsFiniteSet(far) /\ Aim(far, risk) \in Nat
             /\ \A x : x \in SignalIf(setup, dir, bar, zone, extreme, pools) <=>
                  /\ risk > 0 /\ 10 * Aim(far, risk) >= MinRR * risk
                  /\ x = [setup |-> setup, side |-> Side(dir), bar |-> bar, entry |-> entry,
                          sl |-> sl, tp |-> Ahead(entry, Aim(far, risk), dir)]
<1> DEFINE entry == Proximal(zone, dir)
           sl    == Ahead(extreme, -SlOffset, dir)
           risk  == Distance(entry, sl)
           least == LeastTarget(setup, risk)
           far   == Far(pools, entry, least, dir)
           tp    == Target(pools, entry, risk, least, dir)
           made(p) == [setup |-> setup, side |-> Side(dir), bar |-> bar, entry |-> entry,
                       sl |-> sl, tp |-> p]
<1>1. entry \in Int /\ sl \in Int
  BY SetupsAssumption DEF Proximal, Ahead
<1>2. SignalIf(setup, dir, bar, zone, extreme, pools) =
        IF risk > 0 /\ 10 * Distance(tp, entry) >= MinRR * risk THEN {made(tp)} ELSE {}
  BY Zenon DEF SignalIf
<1> HIDE DEF entry, sl
<1>3. risk \in Nat
  BY <1>1 DEF Distance, Larger, Smaller
<1> HIDE DEF risk
<1>4. least \in Nat
  BY <1>3, LeastIs
<1> HIDE DEF least
<1>5. IsFiniteSet(far) /\ far \subseteq Int
  BY <1>1, <1>4, FarFinite
<1>6. far \subseteq Nat
  <2>1. \A d \in far : d >= least
    BY DEF Far
  <2> QED  BY <1>4, <1>5, <2>1
<1>7. tp = Ahead(entry, Aim(far, risk), dir)
  BY TargetIs
<1> HIDE DEF far
<1>8. Aim(far, risk) \in Nat
  BY <1>3, <1>5, <1>6, AimIs
<1> HIDE DEF tp
<1>9. Distance(tp, entry) = Aim(far, risk)
  BY <1>1, <1>7, <1>8, AheadIs
<1>10. \A x : x \in SignalIf(setup, dir, bar, zone, extreme, pools) <=>
         /\ risk > 0 /\ 10 * Aim(far, risk) >= MinRR * risk
         /\ x = made(Ahead(entry, Aim(far, risk), dir))
  <2> HIDE DEF made
  <2> QED  BY <1>2, <1>7, <1>9, Zenon
<1> QED  BY <1>1, <1>3, <1>5, <1>6, <1>8, <1>10 DEF entry, sl, risk, least, far

\* What the pools in reach of a signal are.
LEMMA ReachIs ==
  ASSUME NEW setup, NEW dir, NEW bar, NEW entry, NEW sl, NEW tp, NEW told, NEW x,
         x = [setup |-> setup, side |-> Side(dir), bar |-> bar, entry |-> entry,
              sl |-> sl, tp |-> tp]
  PROVE  /\ Reach(x, told) = Far(told, entry, LeastTarget(setup, Distance(entry, sl)), dir)
         /\ Crowded(x, told) <=>
              \E d \in Far(told, entry, LeastTarget(setup, Distance(entry, sl)), dir) :
                10 * d < MinRR * Distance(entry, sl)
<1> DEFINE back == IF x.side = "BUY" THEN BULL ELSE BEAR
<1>1. x.setup = setup /\ x.entry = entry /\ x.sl = sl /\ x.side = Side(dir)
  OBVIOUS
<1>2. back = BULL <=> dir = BULL
  BY <1>1 DEF Side, BULL, BEAR
<1> HIDE DEF back
<1>3. Reach(x, told) = {d \in PoolDistances(told, entry, back) : d >= LeastTarget(setup, Distance(entry, sl))}
  BY <1>1 DEF Reach, back
<1>4. PoolDistances(told, entry, back) = PoolDistances(told, entry, dir)
  BY <1>2 DEF PoolDistances
<1>5. Reach(x, told) = Far(told, entry, LeastTarget(setup, Distance(entry, sl)), dir)
  BY <1>3, <1>4 DEF Far
<1> QED  BY <1>1, <1>5 DEF Crowded

\* The nearest pool when some are told: one of them, or the nearest there was.
LEMMA NearestOf ==
  ASSUME NEW F, NEW T, IsFiniteSet(F \cup T), F \cup T \subseteq Int
  PROVE  /\ F \cup T # {} => Min(F \cup T) \in T \/ (F # {} /\ Min(F \cup T) = Min(F))
         /\ F # {} => Min(F) \in F /\ Min(F) \in Int /\ Min(F \cup T) \in Int
                      /\ Min(F \cup T) <= Min(F)
<1> DEFINE A == F \cup T
<1>1. IsFiniteSet(F) /\ F \subseteq Int
  BY FS_Subset
<1>2. A # {} => Min(A) \in A /\ Min(A) \in Int /\ \A y \in A : Min(A) <= y
  <2> HIDE DEF A
  <2> QED  BY Extremes DEF A
<1>3. F # {} => Min(F) \in F /\ Min(F) \in Int /\ \A y \in F : Min(F) <= y
  BY <1>1, Extremes
<1>4. F \subseteq A /\ \A y \in A : y \in T \/ y \in F
  OBVIOUS
<1> HIDE DEF A
<1>5. A # {} /\ Min(A) \notin T => Min(A) \in F /\ F # {}
  BY <1>2, <1>4
<1>6. F # {} => A # {} /\ Min(A) <= Min(F)
  BY <1>2, <1>3, <1>4
<1>7. A # {} /\ Min(A) \notin T => Min(A) = Min(F)
  BY <1>2, <1>3, <1>5, <1>6
<1> QED  BY <1>2, <1>3, <1>5, <1>6, <1>7 DEF A

\* The target of a signal with no pool in reach pays, as with the defaults
\* (fallback_R 3.0, min_rr 1.5).
FallbackPays == TpStrategy = "nearest_pool" => 10 * FallbackR >= MinRR

\* So the target stays, or is at a pool told since; it is not further away than
\* the nearest pool was, and further than a multiple of the risk only at a pool
\* that pays.
LEMMA AimMoves ==
  ASSUME NEW F, NEW T, IsFiniteSet(F \cup T), F \cup T \subseteq Nat, NEW risk \in Nat
  PROVE  /\ Aim(F \cup T, risk) = Aim(F, risk) \/ Aim(F \cup T, risk) \in T
         /\ FallbackPays /\ 10 * Aim(F \cup T, risk) >= MinRR * risk
              => 10 * Aim(F, risk) >= MinRR * risk
<1>1. F \cup T \subseteq Int
  OBVIOUS
<1>2. TpStrategy \in {"nearest_pool", "fixed_R"} /\ MinRR \in Nat /\ FallbackR \in Nat
  BY SetupsAssumption
<1>3. CASE TpStrategy = "fixed_R"
  <2>1. Aim(F \cup T, risk) = Aim(F, risk)
    BY <1>3 DEF Aim
  <2> QED  BY <2>1
<1>4. CASE TpStrategy = "nearest_pool" /\ F \cup T = {}
  <2>1. F \cup T = F
    BY <1>4
  <2> QED  BY <2>1
<1>5. CASE TpStrategy = "nearest_pool" /\ F \cup T # {}
  <2>1. Aim(F \cup T, risk) = Min(F \cup T)
    BY <1>5 DEF Aim
  <2>2. CASE F # {}
    <3>1. Aim(F, risk) = Min(F)
      BY <1>5, <2>2 DEF Aim
    <3>2. Min(F \cup T) \in T \/ Min(F \cup T) = Min(F)
      BY <1>1, <1>5, NearestOf
    <3>3. Min(F) \in Int /\ Min(F \cup T) \in Int /\ Min(F \cup T) <= Min(F)
      BY <1>1, <2>2, NearestOf
    <3>4. MinRR * risk \in Nat
      BY LeastIs
    <3> QED  BY <2>1, <3>1, <3>2, <3>3, <3>4
  <2>3. CASE F = {}
    <3>1. Aim(F, risk) = FallbackR * risk
      BY <1>5, <2>3 DEF Aim
    <3>2. Min(F \cup T) \in T
      BY <1>1, <1>5, <2>3, NearestOf
    <3>3. \A a, b \in Nat : a >= b => a * risk >= b * risk
      OBVIOUS
    <3>4. 10 * FallbackR >= MinRR => 10 * (FallbackR * risk) >= MinRR * risk
      <4>1. 10 * FallbackR \in Nat /\ (10 * FallbackR) * risk = 10 * (FallbackR * risk)
        BY <1>2
      <4> QED  BY <1>2, <3>3, <4>1
    <3>5. FallbackPays => 10 * FallbackR >= MinRR
      BY <1>5 DEF FallbackPays
    <3> QED  BY <2>1, <3>1, <3>2, <3>4, <3>5
  <2> QED  BY <2>2, <2>3
<1> QED  BY <1>2, <1>3, <1>4, <1>5

\* What pools told since may change of a signal, either way.
Retells(before, after, told) ==
  /\ \A x \in before : Crowded(x, told) \/ \E y \in after : Retold(y, x, told)
  /\ FallbackPays => \A y \in after : \E x \in before : Retold(y, x, told)

LEMMA SignalRetold ==
  ASSUME NEW setup, NEW dir, NEW bar, NEW zone, NEW extreme,
         zone.low \in Int, zone.high \in Int, extreme \in Int,
         NEW old, NEW all, old \subseteq all, PoolSet(all)
  PROVE  Retells(SignalIf(setup, dir, bar, zone, extreme, old),
                 SignalIf(setup, dir, bar, zone, extreme, all), all \ old)
<1> DEFINE entry == Proximal(zone, dir)
           sl    == Ahead(extreme, -SlOffset, dir)
           risk  == Distance(entry, sl)
           least == LeastTarget(setup, risk)
           F == Far(old, entry, least, dir)
           T == Far(all \ old, entry, least, dir)
           made(k) == [setup |-> setup, side |-> Side(dir), bar |-> bar, entry |-> entry,
                       sl |-> sl, tp |-> Ahead(entry, k, dir)]
           Before == SignalIf(setup, dir, bar, zone, extreme, old)
           After_ == SignalIf(setup, dir, bar, zone, extreme, all)
           told == all \ old
<1>1. PoolSet(old)
  BY FS_Subset DEF PoolSet
<1>2. /\ risk \in Nat /\ entry \in Int
      /\ F \subseteq Nat /\ Aim(F, risk) \in Nat
      /\ \A x : x \in Before <=>
           risk > 0 /\ 10 * Aim(F, risk) >= MinRR * risk /\ x = made(Aim(F, risk))
  BY <1>1, InSignalIf, Zenon
<1>3. Far(all, entry, least, dir) = F \cup T
  BY FarSplits
<1>4. /\ F \cup T \subseteq Nat /\ IsFiniteSet(F \cup T) /\ Aim(F \cup T, risk) \in Nat
      /\ \A x : x \in After_ <=>
           risk > 0 /\ 10 * Aim(F \cup T, risk) >= MinRR * risk /\ x = made(Aim(F \cup T, risk))
  <2>1. LET far == Far(all, entry, least, dir)
        IN  /\ far \subseteq Nat /\ IsFiniteSet(far) /\ Aim(far, risk) \in Nat
            /\ \A x : x \in After_ <=>
                 risk > 0 /\ 10 * Aim(far, risk) >= MinRR * risk /\ x = made(Aim(far, risk))
    BY InSignalIf, Zenon
  <2> HIDE DEF F, T, After_, made
  <2> QED  BY <1>3, <2>1, Zenon
<1>5. \A k : /\ Reach(made(k), told) = T
             /\ Crowded(made(k), told) <=> \E d \in T : 10 * d < MinRR * risk
  <2>1. TAKE k
  <2>2. PICK tp : tp = Ahead(entry, k, dir)
    OBVIOUS
  <2>3. made(k) = [setup |-> setup, side |-> Side(dir), bar |-> bar, entry |-> entry,
                   sl |-> sl, tp |-> tp]
    BY <2>2, Zenon
  <2>4. T = Far(told, entry, LeastTarget(setup, Distance(entry, sl)), dir)
    OBVIOUS
  <2> HIDE DEF made, T, told, entry, sl
  <2>5. /\ Reach(made(k), told) = Far(told, entry, LeastTarget(setup, Distance(entry, sl)), dir)
        /\ Crowded(made(k), told) <=>
             \E d \in Far(told, entry, LeastTarget(setup, Distance(entry, sl)), dir) :
               10 * d < MinRR * Distance(entry, sl)
    BY <2>3, ReachIs
  <2> QED  BY <2>3, <2>4, <2>5, Zenon
<1>6. \A k, j : Trade(made(k)) = Trade(made(j)) /\ made(k).tp = Ahead(entry, k, dir)
                /\ made(k).entry = entry
  BY DEF Trade
<1> HIDE DEF entry, sl, risk, least, F, T, made, Before, After_, told
<1>7. /\ Aim(F \cup T, risk) = Aim(F, risk) \/ Aim(F \cup T, risk) \in T
      /\ FallbackPays /\ 10 * Aim(F \cup T, risk) >= MinRR * risk
           => 10 * Aim(F, risk) >= MinRR * risk
  BY <1>2, <1>4, AimMoves
<1> DEFINE a == Aim(F, risk)
           b == Aim(F \cup T, risk)
<1>8. Retold(made(b), made(a), told)
  <2>1. b \in T => Distance(made(b).tp, made(b).entry) \in Reach(made(b), told)
    <3>1. Distance(Ahead(entry, b, dir), entry) = b
      BY <1>2, <1>4, AheadIs
    <3> HIDE DEF a, b
    <3> QED  BY <1>5, <1>6, <3>1
  <2>2. b = a => made(b).tp = made(a).tp
    BY Zenon
  <2> HIDE DEF a, b
  <2> QED  BY <1>6, <1>7, <2>1, <2>2 DEF Retold, a, b
<1>9. ASSUME NEW x \in Before PROVE Crowded(x, told) \/ \E y \in After_ : Retold(y, x, told)
  <2>1. risk > 0 /\ 10 * a >= MinRR * risk /\ x = made(a)
    BY <1>2
  <2>2. CASE 10 * b >= MinRR * risk
    <3>1. made(b) \in After_
      BY <1>4, <2>1, <2>2
    <3> QED  BY <1>8, <2>1, <3>1
  <2>3. CASE ~(10 * b >= MinRR * risk)
    <3>1. a # b /\ b \in T
      BY <1>7, <2>1, <2>3
    <3>2. MinRR * risk \in Nat /\ b \in Nat
      BY <1>2, <1>4, LeastIs
    <3>3. 10 * b < MinRR * risk
      <4> HIDE DEF a, b
      <4> QED  BY <2>3, <3>2
    <3> QED  BY <1>5, <2>1, <3>1, <3>3
  <2> QED  BY <2>2, <2>3
<1>10. ASSUME FallbackPays, NEW y \in After_ PROVE \E x \in Before : Retold(y, x, told)
  <2>1. risk > 0 /\ 10 * b >= MinRR * risk /\ y = made(b)
    BY <1>4
  <2>2. made(a) \in Before
    BY <1>2, <1>7, <1>10, <2>1
  <2> QED  BY <1>8, <2>1, <2>2
<1>11. Retells(Before, After_, told)
  BY <1>9, <1>10 DEF Retells
<1> QED  BY <1>11 DEF Before, After_, told

\* When there is an MSS signal.
LEMMA InMssFvg ==
  ASSUME NEW s, NEW events, NEW fvgs, NEW pools, NEW x
  PROVE  x \in DetectMssFvg(s, events, fvgs, pools) <=>
           \E e \in events : \E g \in MssGaps(e, fvgs) :
             /\ e.kind = "MSS"
             /\ x \in SignalIf("mss_fvg", e.direction, e.index, g.range,
                               Extreme(s[g.anchor + 1], e.direction), pools)
  BY DEF DetectMssFvg

\* When there is a silver bullet.
LEMMA InSilverBullet ==
  ASSUME NEW s, NEW fvgs, NEW pools, NEW x
  PROVE  x \in DetectSilverBullet(s, fvgs, pools) <=>
           \E g \in fvgs :
             /\ g.anchor + 1 \in SilverBullet
             /\ x \in SignalIf("silver_bullet", g.direction, g.anchor, g.range,
                               Extreme(s[g.anchor + 1], g.direction), pools)
  BY DEF DetectSilverBullet

\* When there is an order block signal.
LEMMA InObOte ==
  ASSUME NEW s, NEW obs, NEW pools, NEW x
  PROVE  x \in DetectObOte(s, obs, pools) <=>
           \E o \in obs :
             /\ FirstRetest(s, o) # None
             /\ RequireInsideOte => InsideOte(o.leg, o.range)
             /\ x \in SignalIf("ob_ote", o.direction, FirstRetest(s, o), o.range,
                               Extreme(o.range, o.direction), pools)
  BY DEF DetectObOte

\* When there is a unicorn.
LEMMA InUnicorns ==
  ASSUME NEW s, NEW breakers, NEW fvgs, NEW pools, NEW x
  PROVE  x \in DetectUnicorns(s, breakers, fvgs, pools) <=>
           \E b \in breakers : \E g \in UnicornGaps(b, fvgs) :
             x \in SignalIf("unicorn", b.direction, b.invalidator, Intersection(b.range, g.range),
                            Extreme(s[g.anchor + 1], b.direction), pools)
  BY DEF DetectUnicorns

\* Which setup a signal of the pipeline is of.
LEMMA SignalsBySetup ==
  ASSUME NEW s, NEW m, NEW x
  PROVE  x \in DetectAllSignals(s, m) <=>
           \/ x \in DetectUnicorns(s, m.breakers, m.fvgs, m.pools) /\ x.setup = "unicorn"
           \/ x \in DetectMssFvg(s, m.events, m.fvgs, m.pools) /\ x.setup = "mss_fvg"
           \/ x \in DetectObOte(s, m.obs, m.pools) /\ x.setup = "ob_ote"
           \/ x \in DetectSilverBullet(s, m.fvgs, m.pools) /\ x.setup = "silver_bullet"
<1>1. x \in DetectUnicorns(s, m.breakers, m.fvgs, m.pools) => x.setup = "unicorn"
  BY InUnicorns, SignalFields
<1>2. x \in DetectMssFvg(s, m.events, m.fvgs, m.pools) => x.setup = "mss_fvg"
  BY InMssFvg, SignalFields
<1>3. x \in DetectObOte(s, m.obs, m.pools) => x.setup = "ob_ote"
  BY InObOte, SignalFields
<1>4. x \in DetectSilverBullet(s, m.fvgs, m.pools) => x.setup = "silver_bullet"
  BY InSilverBullet, SignalFields
<1> QED  BY <1>1, <1>2, <1>3, <1>4, Zenon DEF DetectAllSignals

\* The bars and the gaps a signal of a settled bar is made of.
LEMMA SettledGaps ==
  ASSUME NEW s, NEW n, Grows(s, n)
  PROVE  /\ \A g : g.anchor <= Len(s) - 2 => (g \in Marks(n).fvgs <=> g \in Marks(s).fvgs)
         /\ \A g \in Marks(n).fvgs : g.anchor \in Nat
         /\ \A g \in Marks(s).fvgs : g \in Marks(n).fvgs /\ n[g.anchor + 1] = s[g.anchor + 1]
<1>0. /\ Len(s) \in Nat /\ Len(n) = Len(s) + 1 /\ s \in Seq(Candle)
      /\ \A t \in 1 .. Len(s) : n[t] = s[t]
  BY DEF Grows
<1>1. /\ Marks(s).fvgs = {g \in Marks(n).fvgs : g.anchor + 2 < Len(s) + 1}
      /\ \A g \in Marks(n).fvgs : g.anchor \in Nat
  BY MarksGrow DEF Told
<1>2. ASSUME NEW g \in Marks(s).fvgs PROVE g.anchor + 1 \in 1 .. Len(s)
  <2>1. g \in DetectFvgs(s, DetectDisplacement(s))
    BY MarksAre
  <2>2. g.anchor \in Nat \ {0} /\ g.anchor + 2 <= Len(s)
    BY <1>0, <2>1, GapBars
  <2> QED  BY <1>0, <2>2
<1> QED  BY <1>0, <1>1, <1>2

\* An event is on a bar of the series.
LEMMA EventBars ==
  ASSUME NEW s, Len(s) \in Nat, NEW e \in Marks(s).events
  PROVE  e.index \in 1 .. Len(s) /\ e.index \in Nat
<1>1. PICK f : WalkUpTo(f, Len(s), s, Marks(s)) /\ Marks(s).events = f[Len(s)].events
  BY EventsOfWalk
<1>2. 0 \in 0 .. Len(s)
  OBVIOUS
<1>3. Tale(f, Len(s), 0)
  BY <1>1, <1>2, TaleOfWalk
<1> QED  BY <1>1, <1>3 DEF Tale

\* The gap of a settled shift is the same in the longer series.
LEMMA SameMssGaps ==
  ASSUME NEW s, NEW n, Grows(s, n), NEW e, e.index \in Nat, e.index <= Len(s) - 2
  PROVE  MssGaps(e, Marks(n).fvgs) = MssGaps(e, Marks(s).fvgs)
<1> DEFINE Cands(fvgs) == {g \in fvgs : /\ g.direction = e.direction
                                        /\ g.anchor \in e.index - MssLookback .. e.index}
<1>1. Len(s) \in Nat /\ MssLookback \in Nat
  BY SetupsAssumption DEF Grows
<1>2. \A g : g.anchor \in e.index - MssLookback .. e.index => g.anchor <= Len(s) - 2
  BY <1>1
<1>3. Cands(Marks(n).fvgs) = Cands(Marks(s).fvgs)
  BY <1>2, SettledGaps
<1>4. \A fvgs : MssGaps(e, fvgs) = {g \in Cands(fvgs) : \A h \in Cands(fvgs) : h.anchor <= g.anchor}
  BY DEF MssGaps
<1> HIDE DEF Cands
<1> QED  BY <1>3, <1>4

\* The signals of mss_fvg and silver_bullet on settled bars.
SettledSignals(s, m, last) ==
  {x \in DetectAllSignals(s, m) : x.setup \in {"mss_fvg", "silver_bullet"} /\ x.bar <= last}

\* The prices a signal is made of are numbers.
LEMMA GapZones ==
  ASSUME NEW s \in Seq(Candle), NEW g \in Marks(s).fvgs
  PROVE  /\ g.range.low \in Int /\ g.range.high \in Int
         /\ \A dir : Extreme(s[g.anchor + 1], dir) \in Int
<1>0. Len(s) \in Nat
  OBVIOUS
<1>1. g \in DetectFvgs(s, DetectDisplacement(s))
  BY MarksAre
<1>2. PICK u \in 1 .. Len(s) - 2 :
        \/ g = Gap(BULL, u, s[u].high, s[u + 2].low)
        \/ g = Gap(BEAR, u, s[u + 2].high, s[u].low)
  BY <1>1, InFvgs
<1>3. u \in 1 .. Len(s) /\ u + 1 \in 1 .. Len(s) /\ u + 2 \in 1 .. Len(s)
  BY <1>0
<1>4. s[u] \in Candle /\ s[u + 1] \in Candle /\ s[u + 2] \in Candle
  BY <1>3
<1>5. g.anchor = u
  BY <1>2 DEF Gap
<1>6. g.range.low \in Int /\ g.range.high \in Int
  <2>1. s[u].low \in Int /\ s[u].high \in Int /\ s[u + 2].low \in Int /\ s[u + 2].high \in Int
    BY <1>4 DEF Candle
  <2> QED  BY <1>2, <2>1 DEF Gap, Interval
<1>7. s[g.anchor + 1].low \in Int /\ s[g.anchor + 1].high \in Int
  BY <1>4, <1>5 DEF Candle
<1> QED  BY <1>6, <1>7 DEF Extreme

LEMMA BlockZones ==
  ASSUME NEW s \in Seq(Candle), NEW o \in Marks(s).obs
  PROVE  /\ o.range.low \in Int /\ o.range.high \in Int
         /\ \A dir : Extreme(o.range, dir) \in Int
<1> DEFINE d == DetectDisplacement(s)
<1>0. Len(s) \in Nat
  OBVIOUS
<1>1. o \in DetectOrderBlocks(s, AggregateLegs(s, d), DetectFvgs(s, d))
  BY MarksAre
<1>2. PICK i \in 1 .. Len(s) :
             /\ OrderBlockBars(s, Leg(s, d, i)) # {}
             /\ o = OrderBlock(s, Leg(s, d, i))
  BY <1>1, InOrderBlocks
<1> DEFINE run == OrderBlockBars(s, Leg(s, d, i))
<1>3. Leg(s, d, i).start = i /\ i - 1 <= Len(s) /\ i \in 1 .. Len(s) + 1
  BY <1>0, LegFields
<1>4. run \subseteq 1 .. Len(s) /\ run # {}
  <2>1. run \subseteq 1 .. i - 1
    BY <1>3, BlockBars
  <2> QED  BY <1>0, <1>2, <1>3, <2>1
<1>5. o.range.low = Min({s[t].low : t \in run}) /\ o.range.high = Max({s[t].high : t \in run})
  BY <1>2 DEF OrderBlock, Interval
<1> HIDE DEF run
<1>6. Min({s[u].low : u \in run}) \in Int /\ Max({s[u].high : u \in run}) \in Int
  BY <1>4, LowsAndHighs
<1> QED  BY <1>5, <1>6 DEF Extreme

\* The pools told since are those the longer series adds.
LEMMA PoolsTold ==
  ASSUME NEW s, NEW n, Grows(s, n)
  PROVE  /\ Marks(s).pools \subseteq Marks(n).pools /\ PoolSet(Marks(n).pools)
         /\ Marks(n).pools \ Marks(s).pools = ToldSince(Marks(n), Len(s))
<1>1. /\ Marks(s).pools = {p \in Marks(n).pools : p.created < Len(s) + 1}
      /\ \A p \in Marks(n).pools : p.created \in Nat \ {0}
  BY MarksGrow
<1>2. Len(s) \in Nat /\ n \in Seq(Candle)
  BY DEF Grows
<1> QED  BY <1>1, <1>2, PoolsArePools DEF ToldSince

\* So a signal made of the same prices on both series is retold by them.
LEMMA RetoldBy ==
  ASSUME NEW s, NEW n, Grows(s, n), NEW setup, NEW dir, NEW bar, NEW zone, NEW extreme,
         zone.low \in Int, zone.high \in Int, extreme \in Int
  PROVE  Retells(SignalIf(setup, dir, bar, zone, extreme, Marks(s).pools),
                 SignalIf(setup, dir, bar, zone, extreme, Marks(n).pools),
                 ToldSince(Marks(n), Len(s)))
<1>1. /\ Marks(s).pools \subseteq Marks(n).pools /\ PoolSet(Marks(n).pools)
      /\ Marks(n).pools \ Marks(s).pools = ToldSince(Marks(n), Len(s))
  BY PoolsTold
<1>2. Retells(SignalIf(setup, dir, bar, zone, extreme, Marks(s).pools),
              SignalIf(setup, dir, bar, zone, extreme, Marks(n).pools),
              Marks(n).pools \ Marks(s).pools)
  BY <1>1, SignalRetold
<1> QED  BY <1>1, <1>2, Zenon

\* A signal that is retold is on the same bar, of the same setup.
LEMMA RetoldFields ==
  ASSUME NEW x, NEW y, NEW told, Retold(y, x, told)
  PROVE  y.setup = x.setup /\ y.bar = x.bar
  BY DEF Retold, Trade

\* MSS signals two bars back are settled: the gaps they look at have closed.
LEMMA SettledMss ==
  ASSUME NEW s, NEW n, Grows(s, n)
  PROVE  Retells({x \in DetectMssFvg(s, Marks(s).events, Marks(s).fvgs, Marks(s).pools) :
                    x.bar <= Len(s) - 2},
                 {y \in DetectMssFvg(n, Marks(n).events, Marks(n).fvgs, Marks(n).pools) :
                    y.bar <= Len(s) - 2},
                 ToldSince(Marks(n), Len(s)))
<1>0. Len(s) \in Nat /\ Len(n) \in Nat /\ s \in Seq(Candle)
  BY DEF Grows
<1> DEFINE Of(e, g, pools) == SignalIf("mss_fvg", e.direction, e.index, g.range,
                                       Extreme(s[g.anchor + 1], e.direction), pools)
           told == ToldSince(Marks(n), Len(s))
           before == DetectMssFvg(s, Marks(s).events, Marks(s).fvgs, Marks(s).pools)
           after == DetectMssFvg(n, Marks(n).events, Marks(n).fvgs, Marks(n).pools)
<1>1. \A e \in Marks(n).events \cup Marks(s).events : e.index \in Nat
  BY <1>0, EventBars
<1>2. ASSUME NEW e, e.index \in Nat, e.index <= Len(s) - 2
      PROVE  /\ e \in Marks(n).events <=> e \in Marks(s).events
             /\ MssGaps(e, Marks(n).fvgs) = MssGaps(e, Marks(s).fvgs)
             /\ \A g \in MssGaps(e, Marks(s).fvgs) :
                  /\ n[g.anchor + 1] = s[g.anchor + 1]
                  /\ Retells(Of(e, g, Marks(s).pools), Of(e, g, Marks(n).pools), told)
  <2>1. e \in Marks(n).events <=> e \in Marks(s).events
    BY <1>2, EventsGrow
  <2>2. MssGaps(e, Marks(n).fvgs) = MssGaps(e, Marks(s).fvgs)
    BY <1>2, SameMssGaps
  <2>3. ASSUME NEW g \in MssGaps(e, Marks(s).fvgs)
        PROVE  /\ n[g.anchor + 1] = s[g.anchor + 1]
               /\ Retells(Of(e, g, Marks(s).pools), Of(e, g, Marks(n).pools), told)
    <3>1. g \in Marks(s).fvgs
      BY DEF MssGaps
    <3>2. n[g.anchor + 1] = s[g.anchor + 1]
      BY <3>1, SettledGaps
    <3>3. /\ g.range.low \in Int /\ g.range.high \in Int
          /\ Extreme(s[g.anchor + 1], e.direction) \in Int
      BY <1>0, <3>1, GapZones
    <3> QED  BY <3>2, <3>3, RetoldBy
  <2> QED  BY <2>1, <2>2, <2>3
<1>3. \A x : x \in before <=> \E e \in Marks(s).events : \E g \in MssGaps(e, Marks(s).fvgs) :
                                e.kind = "MSS" /\ x \in Of(e, g, Marks(s).pools)
  BY InMssFvg
<1>4. \A e, g, pools : \A x \in Of(e, g, pools) : x.bar = e.index
  BY SignalFields
<1>5. ASSUME NEW e, e.index <= Len(s) - 2, NEW y
      PROVE  /\ (e \in Marks(n).events /\ \E g \in MssGaps(e, Marks(n).fvgs) :
                    e.kind = "MSS" /\ y \in SignalIf("mss_fvg", e.direction, e.index, g.range,
                        Extreme(n[g.anchor + 1], e.direction), Marks(n).pools))
                <=> (e \in Marks(s).events /\ \E g \in MssGaps(e, Marks(s).fvgs) :
                       e.kind = "MSS" /\ y \in Of(e, g, Marks(n).pools))
  <2>1. CASE e.index \in Nat
    BY <1>2, <1>5, <2>1
  <2>2. CASE e.index \notin Nat
    BY <1>1, <2>2
  <2> QED  BY <2>1, <2>2
<1>6. ASSUME NEW y, y.bar <= Len(s) - 2
      PROVE  y \in after <=> \E e \in Marks(s).events : \E g \in MssGaps(e, Marks(s).fvgs) :
                                e.kind = "MSS" /\ y \in Of(e, g, Marks(n).pools)
  <2>1. ASSUME y \in after
        PROVE  \E e \in Marks(s).events : \E g \in MssGaps(e, Marks(s).fvgs) :
                                e.kind = "MSS" /\ y \in Of(e, g, Marks(n).pools)
    <3>1. PICK e \in Marks(n).events : \E g \in MssGaps(e, Marks(n).fvgs) :
            /\ e.kind = "MSS"
            /\ y \in SignalIf("mss_fvg", e.direction, e.index, g.range,
                              Extreme(n[g.anchor + 1], e.direction), Marks(n).pools)
      BY <2>1, InMssFvg
    <3>2. e.index = y.bar
      BY <3>1, SignalFields
    <3> QED  BY <1>5, <1>6, <3>1, <3>2
  <2>2. ASSUME NEW e \in Marks(s).events, NEW g \in MssGaps(e, Marks(s).fvgs),
               e.kind = "MSS", y \in Of(e, g, Marks(n).pools)
        PROVE  y \in after
    <3>1. e.index = y.bar
      BY <1>4, <2>2
    <3>2. e \in Marks(n).events /\ \E h \in MssGaps(e, Marks(n).fvgs) :
            e.kind = "MSS" /\ y \in SignalIf("mss_fvg", e.direction, e.index, h.range,
                Extreme(n[h.anchor + 1], e.direction), Marks(n).pools)
      BY <1>5, <1>6, <2>2, <3>1
    <3> QED  BY <3>2, InMssFvg
  <2> QED  BY <2>1, <2>2
<1> HIDE DEF Of, told, before, after
<1>7. ASSUME NEW x \in before, x.bar <= Len(s) - 2
      PROVE  Crowded(x, told) \/ \E y \in after : y.bar <= Len(s) - 2 /\ Retold(y, x, told)
  <2>1. PICK e \in Marks(s).events : \E g \in MssGaps(e, Marks(s).fvgs) :
               e.kind = "MSS" /\ x \in Of(e, g, Marks(s).pools)
    BY <1>3
  <2>2. PICK g \in MssGaps(e, Marks(s).fvgs) : e.kind = "MSS" /\ x \in Of(e, g, Marks(s).pools)
    BY <2>1
  <2>3. e.index \in Nat /\ e.index <= Len(s) - 2
    BY <1>1, <1>4, <1>7, <2>2
  <2>4. Retells(Of(e, g, Marks(s).pools), Of(e, g, Marks(n).pools), told)
    BY <1>2, <2>3
  <2>5. ASSUME NEW y \in Of(e, g, Marks(n).pools), Retold(y, x, told)
        PROVE  y \in after /\ y.bar <= Len(s) - 2
    BY <1>4, <1>6, <2>2, <2>3, <2>5
  <2> QED  BY <2>2, <2>4, <2>5 DEF Retells
<1>8. ASSUME FallbackPays, NEW y \in after, y.bar <= Len(s) - 2
      PROVE  \E x \in before : x.bar <= Len(s) - 2 /\ Retold(y, x, told)
  <2>1. PICK e \in Marks(s).events : \E g \in MssGaps(e, Marks(s).fvgs) :
               e.kind = "MSS" /\ y \in Of(e, g, Marks(n).pools)
    BY <1>6, <1>8
  <2>2. PICK g \in MssGaps(e, Marks(s).fvgs) : e.kind = "MSS" /\ y \in Of(e, g, Marks(n).pools)
    BY <2>1
  <2>3. e.index \in Nat /\ e.index <= Len(s) - 2
    BY <1>1, <1>4, <1>8, <2>2
  <2>4. Retells(Of(e, g, Marks(s).pools), Of(e, g, Marks(n).pools), told)
    BY <1>2, <2>3
  <2>5. PICK x \in Of(e, g, Marks(s).pools) : Retold(y, x, told)
    BY <1>8, <2>2, <2>4 DEF Retells
  <2>6. x \in before /\ x.bar <= Len(s) - 2
    BY <1>3, <1>4, <2>2, <2>3, <2>5
  <2> QED  BY <2>5, <2>6
<1>9. Retells({x \in before : x.bar <= Len(s) - 2}, {y \in after : y.bar <= Len(s) - 2}, told)
  BY <1>7, <1>8 DEF Retells
<1> QED  BY <1>9 DEF before, after, told

\* So are silver bullets.
LEMMA SettledSilver ==
  ASSUME NEW s, NEW n, Grows(s, n)
  PROVE  Retells({x \in DetectSilverBullet(s, Marks(s).fvgs, Marks(s).pools) : x.bar <= Len(s) - 2},
                 {y \in DetectSilverBullet(n, Marks(n).fvgs, Marks(n).pools) : y.bar <= Len(s) - 2},
                 ToldSince(Marks(n), Len(s)))
<1>0. Len(s) \in Nat /\ s \in Seq(Candle)
  BY DEF Grows
<1> DEFINE Of(g, pools) == SignalIf("silver_bullet", g.direction, g.anchor, g.range,
                                    Extreme(s[g.anchor + 1], g.direction), pools)
           told == ToldSince(Marks(n), Len(s))
           before == DetectSilverBullet(s, Marks(s).fvgs, Marks(s).pools)
           after == DetectSilverBullet(n, Marks(n).fvgs, Marks(n).pools)
<1>1. \A g, pools : \A x \in Of(g, pools) : x.bar = g.anchor
  BY SignalFields
<1>2. ASSUME NEW g \in Marks(s).fvgs
      PROVE  Retells(Of(g, Marks(s).pools), Of(g, Marks(n).pools), told)
  <2>1. /\ g.range.low \in Int /\ g.range.high \in Int
        /\ Extreme(s[g.anchor + 1], g.direction) \in Int
    BY <1>0, GapZones
  <2> QED  BY <2>1, RetoldBy
<1>3. \A x : x \in before <=>
        \E g \in Marks(s).fvgs : g.anchor + 1 \in SilverBullet /\ x \in Of(g, Marks(s).pools)
  BY InSilverBullet
<1>4. ASSUME NEW y, y.bar <= Len(s) - 2
      PROVE  y \in after <=>
        \E g \in Marks(s).fvgs : g.anchor + 1 \in SilverBullet /\ y \in Of(g, Marks(n).pools)
  <2>1. ASSUME y \in after
        PROVE  \E g \in Marks(s).fvgs : g.anchor + 1 \in SilverBullet /\ y \in Of(g, Marks(n).pools)
    <3>1. PICK g \in Marks(n).fvgs :
            /\ g.anchor + 1 \in SilverBullet
            /\ y \in SignalIf("silver_bullet", g.direction, g.anchor, g.range,
                              Extreme(n[g.anchor + 1], g.direction), Marks(n).pools)
      BY <2>1, InSilverBullet
    <3>2. g.anchor = y.bar
      BY <3>1, SignalFields
    <3>3. g \in Marks(s).fvgs /\ n[g.anchor + 1] = s[g.anchor + 1]
      BY <1>4, <3>2, SettledGaps
    <3> QED  BY <3>1, <3>3
  <2>2. ASSUME NEW g \in Marks(s).fvgs, g.anchor + 1 \in SilverBullet, y \in Of(g, Marks(n).pools)
        PROVE  y \in after
    <3>1. g \in Marks(n).fvgs /\ n[g.anchor + 1] = s[g.anchor + 1]
      BY SettledGaps
    <3> QED  BY <2>2, <3>1, InSilverBullet
  <2> QED  BY <2>1, <2>2
<1> HIDE DEF Of, told, before, after
<1>5. ASSUME NEW x \in before, x.bar <= Len(s) - 2
      PROVE  Crowded(x, told) \/ \E y \in after : y.bar <= Len(s) - 2 /\ Retold(y, x, told)
  <2>1. PICK g \in Marks(s).fvgs : g.anchor + 1 \in SilverBullet /\ x \in Of(g, Marks(s).pools)
    BY <1>3
  <2>2. ASSUME NEW y \in Of(g, Marks(n).pools), Retold(y, x, told)
        PROVE  y \in after /\ y.bar <= Len(s) - 2
    BY <1>1, <1>4, <1>5, <2>1, <2>2
  <2> QED  BY <1>2, <2>1, <2>2 DEF Retells
<1>6. ASSUME FallbackPays, NEW y \in after, y.bar <= Len(s) - 2
      PROVE  \E x \in before : x.bar <= Len(s) - 2 /\ Retold(y, x, told)
  <2>1. PICK g \in Marks(s).fvgs : g.anchor + 1 \in SilverBullet /\ y \in Of(g, Marks(n).pools)
    BY <1>4, <1>6
  <2>2. PICK x \in Of(g, Marks(s).pools) : Retold(y, x, told)
    BY <1>2, <1>6, <2>1 DEF Retells
  <2>3. x \in before /\ x.bar <= Len(s) - 2
    BY <1>1, <1>3, <1>6, <2>1, <2>2
  <2> QED  BY <2>2, <2>3
<1>7. Retells({x \in before : x.bar <= Len(s) - 2}, {y \in after : y.bar <= Len(s) - 2}, told)
  BY <1>5, <1>6 DEF Retells
<1> QED  BY <1>7 DEF before, after, told

\* And so are all that can settle.
LEMMA SignalsSettleOn ==
  ASSUME NEW s, NEW n, Grows(s, n)
  PROVE  Retells(SettledSignals(s, Marks(s), Len(s) - 2), SettledSignals(n, Marks(n), Len(s) - 2),
                 ToldSince(Marks(n), Len(s)))
<1> DEFINE told == ToldSince(Marks(n), Len(s))
           mss(r) == {x \in DetectMssFvg(r, Marks(r).events, Marks(r).fvgs, Marks(r).pools) :
                        x.bar <= Len(s) - 2}
           silver(r) == {x \in DetectSilverBullet(r, Marks(r).fvgs, Marks(r).pools) :
                           x.bar <= Len(s) - 2}
<1>1. \A r : SettledSignals(r, Marks(r), Len(s) - 2) = mss(r) \cup silver(r)
  <2>1. ASSUME NEW r, NEW x
        PROVE  x \in SettledSignals(r, Marks(r), Len(s) - 2) <=> x \in mss(r) \cup silver(r)
    <3>1. x \in DetectMssFvg(r, Marks(r).events, Marks(r).fvgs, Marks(r).pools) => x.setup = "mss_fvg"
      BY InMssFvg, SignalFields
    <3>2. x \in DetectSilverBullet(r, Marks(r).fvgs, Marks(r).pools) => x.setup = "silver_bullet"
      BY InSilverBullet, SignalFields
    <3> QED  BY <3>1, <3>2, SignalsBySetup DEF SettledSignals
  <2> QED  BY <2>1
<1>2. Retells(mss(s), mss(n), told) /\ Retells(silver(s), silver(n), told)
  BY SettledMss, SettledSilver
<1> HIDE DEF told, mss, silver
<1>3. Retells(mss(s) \cup silver(s), mss(n) \cup silver(n), told)
  BY <1>2 DEF Retells
<1> QED  BY <1>1, <1>3 DEF told

\* The signals are those of the series.
SignalsInv == PipelineInv /\ signals = DetectAllSignals(bars, marks)

LEMMA SignalsInitially == Init => SignalsInv
  BY PipelineInit DEF Init, SignalsInv

LEMMA SignalsStep == SignalsInv /\ [Next]_vars => SignalsInv'
<1>1. ASSUME SignalsInv, NEW c \in Shapes, NewBar(c) PROVE SignalsInv'
  BY <1>1, PipelineStep DEF Next, NewBar, SignalsInv
<1>2. ASSUME SignalsInv, UNCHANGED vars PROVE SignalsInv'
  BY <1>2, PipelineStep DEF SignalsInv, vars
<1> QED  BY <1>1, <1>2 DEF Next

\* A signal of mss_fvg or silver_bullet is revised by the two bars after its own,
\* and after them only as the pools that a bar confirms would have it: a live
\* call and a backtest differ, of the bars before the last two, in the targets
\* of the pools told in between and in nothing else. That no pool in reach is
\* as good as one that pays is the code's default.
THEOREM SignalsSettled == FallbackPays => (Spec => SignalsSettle)
<1> SUFFICES ASSUME FallbackPays PROVE Spec => SignalsSettle
  OBVIOUS
<1> DEFINE Settled(all) == {x \in all : /\ x.setup \in {"mss_fvg", "silver_bullet"}
                                        /\ x.bar <= Len(bars) - 2}
           told == ToldSince(marks', Len(bars))
           Settle == /\ \A x \in Settled(signals) :
                          Crowded(x, told) \/ \E y \in Settled(signals') : Retold(y, x, told)
                     /\ \A y \in Settled(signals') : \E x \in Settled(signals) : Retold(y, x, told)
<1>1. ASSUME SignalsInv, NEW c \in Shapes, NewBar(c) PROVE Settle
  <2>1. PICK n : bars' = n /\ marks' = Marks(n) /\ Grows(bars, n) /\ Now = Len(n)
                 /\ marks = Marks(bars)
    BY <1>1, StepGrows DEF SignalsInv
  <2>2. signals = DetectAllSignals(bars, Marks(bars)) /\ signals' = DetectAllSignals(n, Marks(n))
    BY <1>1, <2>1 DEF SignalsInv, NewBar
  <2>3. Retells(SettledSignals(bars, Marks(bars), Len(bars) - 2),
                SettledSignals(n, Marks(n), Len(bars) - 2), ToldSince(Marks(n), Len(bars)))
    BY <2>1, SignalsSettleOn
  <2>4. /\ Settled(signals) = SettledSignals(bars, Marks(bars), Len(bars) - 2)
        /\ Settled(signals') = SettledSignals(n, Marks(n), Len(bars) - 2)
        /\ told = ToldSince(Marks(n), Len(bars))
    BY <2>1, <2>2 DEF SettledSignals
  <2> HIDE DEF Settled, told
  <2> QED  BY <2>3, <2>4 DEF Retells
<1>2. SignalsInv /\ [Next]_vars => [Settle]_vars
  BY <1>1 DEF Next
<1> QED  BY <1>2, SignalsInitially, SignalsStep, PTL DEF Spec, SignalsSettle

(***************************************************************************)
(* Live signals.                                                           *)
(***************************************************************************)
LEMMA ObOteStays ==
  ASSUME RequireInsideOte = FALSE, NEW s, NEW n, Grows(s, n),
         NEW x \in DetectObOte(s, Marks(s).obs, Marks(s).pools)
  PROVE  LET told == ToldSince(Marks(n), Len(s))
         IN  \/ Crowded(x, told)
             \/ \E y \in DetectObOte(n, Marks(n).obs, Marks(n).pools) : Retold(y, x, told)
<1> DEFINE told == ToldSince(Marks(n), Len(s))
<1>1. PICK o \in Marks(s).obs :
        /\ FirstRetest(s, o) # None
        /\ x \in SignalIf("ob_ote", o.direction, FirstRetest(s, o), o.range,
                          Extreme(o.range, o.direction), Marks(s).pools)
  BY InObOte
<1>2. PICK p \in Marks(n).obs : BlockKey(p) = BlockKey(o)
  BY BlocksGrow
<1>3. o.anchor \in 1 .. Len(s)
  <2>1. o \in DetectOrderBlocks(s, AggregateLegs(s, DetectDisplacement(s)),
                                DetectFvgs(s, DetectDisplacement(s)))
    BY MarksAre
  <2> QED  BY <2>1, BlockAnchor DEF Grows
<1>4. FirstRetest(n, p) = FirstRetest(s, o)
  BY <1>1, <1>2, <1>3, RetestStays DEF Stays
<1>5. p.direction = o.direction /\ p.range = o.range
  BY <1>2, KeyFields
<1>6. /\ o.range.low \in Int /\ o.range.high \in Int
      /\ Extreme(o.range, o.direction) \in Int
  BY BlockZones DEF Grows
<1> DEFINE Of(pools) == SignalIf("ob_ote", o.direction, FirstRetest(s, o), o.range,
                                 Extreme(o.range, o.direction), pools)
<1>7. Retells(Of(Marks(s).pools), Of(Marks(n).pools), told)
  BY <1>6, RetoldBy
<1>8. \A y \in Of(Marks(n).pools) :
        y \in SignalIf("ob_ote", p.direction, FirstRetest(n, p), p.range,
                       Extreme(p.range, p.direction), Marks(n).pools)
  BY <1>4, <1>5
<1>9. \A y \in Of(Marks(n).pools) : y \in DetectObOte(n, Marks(n).obs, Marks(n).pools)
  BY <1>1, <1>4, <1>8, InObOte
<1> QED  BY <1>1, <1>7, <1>9 DEF Retells

\* Breakers keep their keys.
LEMMA BreakersGrow ==
  ASSUME NEW s, NEW n, Grows(s, n), NEW b \in Marks(s).breakers
  PROVE  \E c \in Marks(n).breakers : BreakerKey(c) = BreakerKey(b)
<1>1. /\ Marks(s).breakers = DetectBreakers(s, Marks(s).obs, Marks(s).sweeps)
      /\ Marks(n).breakers = DetectBreakers(n, Marks(n).obs, Marks(n).sweeps)
  BY MarksAre
<1>2. EarlierSweeps(Marks(s).sweeps, Marks(n).sweeps, Len(s))
  BY MarksGrow
<1>3. ASSUME NEW o \in Marks(s).obs PROVE o.anchor \in 1 .. Len(s)
  <2>1. o \in DetectOrderBlocks(s, AggregateLegs(s, DetectDisplacement(s)),
                                DetectFvgs(s, DetectDisplacement(s)))
    BY MarksAre
  <2> QED  BY <2>1, BlockAnchor DEF Grows
<1>4. \A o \in Marks(s).obs : \E p \in Marks(n).obs : BlockKey(p) = BlockKey(o)
  BY BlocksGrow
<1> QED  BY <1>1, <1>2, <1>3, <1>4, BreakersStay

\* So a unicorn stays.
LEMMA UnicornStays ==
  ASSUME RequireInsideOte = FALSE, NEW s, NEW n, Grows(s, n),
         NEW x \in DetectUnicorns(s, Marks(s).breakers, Marks(s).fvgs, Marks(s).pools)
  PROVE  LET told == ToldSince(Marks(n), Len(s))
         IN  \/ Crowded(x, told)
             \/ \E y \in DetectUnicorns(n, Marks(n).breakers, Marks(n).fvgs, Marks(n).pools) :
                  Retold(y, x, told)
<1> DEFINE told == ToldSince(Marks(n), Len(s))
<1>1. PICK b \in Marks(s).breakers : \E g \in UnicornGaps(b, Marks(s).fvgs) :
        x \in SignalIf("unicorn", b.direction, b.invalidator, Intersection(b.range, g.range),
                       Extreme(s[g.anchor + 1], b.direction), Marks(s).pools)
  BY InUnicorns
<1>2. PICK g \in UnicornGaps(b, Marks(s).fvgs) :
        x \in SignalIf("unicorn", b.direction, b.invalidator, Intersection(b.range, g.range),
                       Extreme(s[g.anchor + 1], b.direction), Marks(s).pools)
  BY <1>1
<1>3. PICK c \in Marks(n).breakers : BreakerKey(c) = BreakerKey(b)
  BY BreakersGrow
<1>4. /\ c.direction = b.direction /\ c.range = b.range
      /\ c.sweep = b.sweep /\ c.invalidator = b.invalidator
  BY <1>3 DEF BreakerKey
<1>5. g \in Marks(s).fvgs
  BY DEF UnicornGaps
<1>6. g \in Marks(n).fvgs /\ n[g.anchor + 1] = s[g.anchor + 1]
  BY <1>5, SettledGaps
<1>7. g \in UnicornGaps(c, Marks(n).fvgs)
  BY <1>4, <1>6 DEF UnicornGaps
<1>8. b.range.low \in Int /\ b.range.high \in Int
  <2>1. b \in DetectBreakers(s, Marks(s).obs, Marks(s).sweeps)
    BY MarksAre
  <2>2. PICK o \in Marks(s).obs : b = Breaker(s, o, Marks(s).sweeps)
    BY <2>1, InBreakers
  <2>3. b.range = o.range
    BY <2>2 DEF Breaker
  <2> QED  BY <2>3, BlockZones DEF Grows
<1>9. /\ g.range.low \in Int /\ g.range.high \in Int
      /\ Extreme(s[g.anchor + 1], b.direction) \in Int
  BY <1>5, GapZones DEF Grows
<1>10. Intersection(b.range, g.range).low \in Int /\ Intersection(b.range, g.range).high \in Int
  BY <1>8, <1>9 DEF Intersection, Interval, Larger, Smaller
<1> DEFINE Of(pools) == SignalIf("unicorn", b.direction, b.invalidator,
                                 Intersection(b.range, g.range),
                                 Extreme(s[g.anchor + 1], b.direction), pools)
<1>11. Retells(Of(Marks(s).pools), Of(Marks(n).pools), told)
  BY <1>9, <1>10, RetoldBy
<1>12. \A y \in Of(Marks(n).pools) :
         y \in SignalIf("unicorn", c.direction, c.invalidator, Intersection(c.range, g.range),
                        Extreme(n[g.anchor + 1], c.direction), Marks(n).pools)
  BY <1>4, <1>6
<1>13. \A y \in Of(Marks(n).pools) :
         y \in DetectUnicorns(n, Marks(n).breakers, Marks(n).fvgs, Marks(n).pools)
  BY <1>7, <1>12, InUnicorns
<1> QED  BY <1>2, <1>11, <1>13 DEF Retells

\* What is in reach of a signal is in reach of it retold, and stays in reach.
LEMMA ReachGrows ==
  ASSUME NEW x, NEW y, Trade(y) = Trade(x), NEW told, NEW more, told \subseteq more
  PROVE  /\ Reach(y, told) = Reach(x, told) /\ Reach(x, told) \subseteq Reach(x, more)
         /\ Crowded(y, told) => Crowded(x, more)
         /\ y.entry = x.entry
<1>1. /\ y.setup = x.setup /\ y.side = x.side /\ y.entry = x.entry /\ y.sl = x.sl
  BY DEF Trade
<1>2. Reach(y, told) = Reach(x, told)
  BY <1>1 DEF Reach
<1>3. Reach(x, told) \subseteq Reach(x, more)
  BY DEF Reach, PoolDistances
<1> QED  BY <1>1, <1>2, <1>3 DEF Crowded

\* So a signal that is retold twice is retold by all that was told.
LEMMA RetoldTwice ==
  ASSUME NEW x, NEW y, NEW z, NEW told, NEW fresh, NEW more,
         told \subseteq more, fresh \subseteq more,
         Retold(y, x, told), Retold(z, y, fresh)
  PROVE  Retold(z, x, more)
<1>1. Trade(y) = Trade(x) /\ Trade(z) = Trade(y) /\ Trade(z) = Trade(x)
  BY DEF Retold
<1>2. z.entry = y.entry /\ y.entry = x.entry
  BY <1>1, ReachGrows
<1>3. Reach(y, told) \subseteq Reach(z, more) /\ Reach(z, fresh) \subseteq Reach(z, more)
  <2>1. Reach(y, told) = Reach(x, told) /\ Reach(z, told) = Reach(x, told)
    BY <1>1, ReachGrows
  <2>2. Reach(z, told) \subseteq Reach(z, more) /\ Reach(z, fresh) \subseteq Reach(z, more)
    BY ReachGrows
  <2> QED  BY <2>1, <2>2
<1> QED  BY <1>1, <1>2, <1>3 DEF Retold

\* The live signals are on bars of the series.
LiveInv == SignalsInv /\ LiveSignalsStand /\ \A x \in live : x.bar \in 1 .. Len(bars)

\* A signal of ob_ote or unicorn that the live runner took on its bar stays: a
\* backtest over any longer series finds it, at its target or at a pool that was
\* confirmed later, unless such a pool is too near for it. No gate on the leg,
\* whose range still grows, is the code's default; the target may be either.
THEOREM LiveSignalsStay == RequireInsideOte = FALSE => (Spec => []LiveSignalsStand)
<1> SUFFICES ASSUME RequireInsideOte = FALSE PROVE Spec => []LiveSignalsStand
  OBVIOUS
<1>1. Init => LiveInv
  <2>1. ASSUME Init PROVE LiveSignalsStand /\ \A x \in live : x.bar \in 1 .. Len(bars)
    <3>1. \A x \in live : x \in signals /\ x.bar = Len(bars)
      BY <2>1 DEF Init, OnLastBar
    <3>2. Len(bars) \in 1 .. Len(bars)
      BY <2>1, PipelineAssumption DEF Init
    <3>3. \A x, told : Retold(x, x, told)
      BY DEF Retold
    <3> QED  BY <3>1, <3>2, <3>3 DEF LiveSignalsStand
  <2> QED  BY <2>1, SignalsInitially DEF LiveInv
<1>2. ASSUME LiveInv, NEW c \in Shapes, NewBar(c)
      PROVE  (LiveSignalsStand /\ \A x \in live : x.bar \in 1 .. Len(bars))'
  <2>1. PICK n : bars' = n /\ marks' = Marks(n) /\ Grows(bars, n) /\ Now = Len(n)
                 /\ marks = Marks(bars)
    BY <1>2, StepGrows DEF LiveInv, SignalsInv
  <2>2. signals = DetectAllSignals(bars, Marks(bars)) /\ signals' = DetectAllSignals(n, Marks(n))
    BY <1>2, <2>1 DEF LiveInv, SignalsInv, NewBar
  <2> DEFINE fresh == ToldSince(marks', Len(bars))
  <2>3. ASSUME NEW x \in signals, x.setup \in {"ob_ote", "unicorn"}
        PROVE  Crowded(x, fresh) \/ \E y \in signals' : Retold(y, x, fresh)
    <3>1. \/ x \in DetectUnicorns(bars, Marks(bars).breakers, Marks(bars).fvgs, Marks(bars).pools)
          \/ x \in DetectObOte(bars, Marks(bars).obs, Marks(bars).pools)
      BY <2>2, <2>3, SignalsBySetup
    <3>2. fresh = ToldSince(Marks(n), Len(bars))
      BY <2>1
    <3>3. \/ Crowded(x, fresh)
          \/ \E y \in DetectUnicorns(n, Marks(n).breakers, Marks(n).fvgs, Marks(n).pools) :
               Retold(y, x, fresh)
          \/ \E y \in DetectObOte(n, Marks(n).obs, Marks(n).pools) : Retold(y, x, fresh)
      BY <2>1, <3>1, <3>2, ObOteStays, UnicornStays
    <3> QED  BY <2>2, <3>3, Zenon DEF DetectAllSignals
  <2>4. live' = live \cup OnLastBar(n, signals')
    BY <1>2, <2>1 DEF NewBar
  <2>5. Len(bars) \in Nat /\ Len(n) = Len(bars) + 1 /\ marks.pools \subseteq marks'.pools
    BY <2>1, PoolsTold DEF Grows
  <2>6. ASSUME NEW x \in live PROVE x.bar \in 1 .. Len(n) /\ x.bar \in 1 .. Len(bars)
    BY <1>2, <2>5, <2>6 DEF LiveInv
  <2>7. \A x \in live' : x.bar \in 1 .. Len(bars')
    BY <2>1, <2>4, <2>5, <2>6 DEF OnLastBar
  <2>8. ASSUME NEW x \in live', x.setup \in {"ob_ote", "unicorn"}
        PROVE  Crowded(x, ToldSince(marks', x.bar))
                 \/ \E y \in signals' : Retold(y, x, ToldSince(marks', x.bar))
    <3>1. CASE x \in live
      <4>1. /\ ToldSince(marks, x.bar) \subseteq ToldSince(marks', x.bar)
            /\ fresh \subseteq ToldSince(marks', x.bar)
        <5>1. \A p \in marks'.pools : p.created \in Nat
          BY <2>1, PoolsTold DEF PoolSet
        <5> QED  BY <2>5, <2>6, <3>1, <5>1 DEF ToldSince
      <4>2. CASE Crowded(x, ToldSince(marks, x.bar))
        BY <4>1, <4>2, ReachGrows
      <4>3. CASE \E y \in signals : Retold(y, x, ToldSince(marks, x.bar))
        <5>1. PICK y \in signals : Retold(y, x, ToldSince(marks, x.bar))
          BY <4>3
        <5>2. y.setup \in {"ob_ote", "unicorn"} /\ Trade(y) = Trade(x)
          BY <2>8, <5>1, RetoldFields DEF Retold
        <5>3. CASE Crowded(y, fresh)
          BY <4>1, <5>2, <5>3, ReachGrows
        <5>4. CASE \E z \in signals' : Retold(z, y, fresh)
          BY <4>1, <5>1, <5>4, RetoldTwice
        <5> QED  BY <2>3, <5>2, <5>3, <5>4
      <4> QED  BY <1>2, <2>8, <3>1, <4>2, <4>3 DEF LiveInv, LiveSignalsStand
    <3>2. CASE x \in OnLastBar(n, signals')
      <4>1. x \in signals' /\ \A told : Retold(x, x, told)
        BY <3>2 DEF OnLastBar, Retold
      <4> QED  BY <4>1
    <3> QED  BY <2>4, <2>8, <3>1, <3>2
  <2> QED  BY <2>7, <2>8 DEF LiveSignalsStand
<1>3. ASSUME LiveInv, UNCHANGED vars
      PROVE  (LiveSignalsStand /\ \A x \in live : x.bar \in 1 .. Len(bars))'
  BY <1>3 DEF LiveInv, LiveSignalsStand, vars
<1>4. LiveInv /\ [Next]_vars => LiveInv'
  BY <1>2, <1>3, SignalsStep DEF LiveInv, Next
<1>5. LiveInv => LiveSignalsStand
  BY DEF LiveInv
<1> QED  BY <1>1, <1>4, <1>5, PTL DEF Spec

(***************************************************************************)
(* What the marks of a sound series look like.                             *)
(***************************************************************************)
SoundSeries(s) == s \in Seq(Candle) \ {<<>>} /\ \A t \in 1 .. Len(s) : Sound(s[t])

\* The first and the last of some bars are two of them.
SomeBars(S, m) == S \subseteq 1 .. m /\ S # {}

\* Some bars have a first and a last.
LEMMA EndsOfBars ==
  ASSUME NEW m \in Nat, NEW S, SomeBars(S, m)
  PROVE  Min(S) \in S /\ Max(S) \in S /\ Min(S) \in 1 .. m
<1>1. S \subseteq 1 .. m /\ S # {} /\ 1 \in Int /\ m \in Int
  BY DEF SomeBars
<1> QED  BY <1>1, ExtremesOfBars

\* What a sound series says of one of its bars.
LEMMA SoundBar ==
  ASSUME NEW s, SoundSeries(s), NEW t \in 1 .. Len(s)
  PROVE  /\ s[t].low \in Int /\ s[t].high \in Int /\ s[t].low <= s[t].high
         /\ s[t].open \in Int /\ s[t].close \in Int
         /\ s[t].low <= BodyBot(s[t]) /\ BodyTop(s[t]) <= s[t].high
         /\ BodyBot(s[t]) \in Int /\ BodyTop(s[t]) \in Int
<1>1. s[t] \in Candle /\ Sound(s[t])
  BY DEF SoundSeries
<1> QED  BY <1>1 DEF Candle, Sound, BodyBot, BodyTop, Larger, Smaller

\* The zone of a gap is not upside down.
LEMMA GapsOrdered ==
  ASSUME NEW s, SoundSeries(s), NEW d, NEW g \in DetectFvgs(s, d)
  PROVE  g.range.low \in Int /\ g.range.high \in Int /\ g.range.low <= g.range.high
<1>0. Len(s) \in Nat /\ MinGap \in Nat \ {0}
  BY PDArraysAssumption DEF SoundSeries
<1>1. PICK u \in 1 .. Len(s) - 2 :
             \/ /\ s[u + 2].low - s[u].high >= MinGap /\ d[u + 1] = BULL
                /\ g = Gap(BULL, u, s[u].high, s[u + 2].low)
             \/ /\ s[u].low - s[u + 2].high >= MinGap /\ d[u + 1] = BEAR
                /\ g = Gap(BEAR, u, s[u + 2].high, s[u].low)
  BY InFvgs
<1>2. u \in 1 .. Len(s) /\ u + 2 \in 1 .. Len(s)
  BY <1>0
<1>3. /\ s[u].low \in Int /\ s[u].high \in Int
      /\ s[u + 2].low \in Int /\ s[u + 2].high \in Int
  BY <1>2, SoundBar
<1> QED  BY <1>0, <1>1, <1>3 DEF Gap, Interval

\* Nor is that of a block.
LEMMA BlocksOrdered ==
  ASSUME NEW s, SoundSeries(s), NEW o \in Marks(s).obs
  PROVE  o.range.low <= o.range.high
<1> DEFINE d == DetectDisplacement(s)
<1>0. s \in Seq(Candle) /\ Len(s) \in Nat
  BY DEF SoundSeries
<1>1. o \in DetectOrderBlocks(s, AggregateLegs(s, d), DetectFvgs(s, d))
  BY MarksAre
<1>2. PICK i \in 1 .. Len(s) :
             /\ OrderBlockBars(s, Leg(s, d, i)) # {}
             /\ o = OrderBlock(s, Leg(s, d, i))
  BY <1>1, InOrderBlocks
<1> DEFINE run == OrderBlockBars(s, Leg(s, d, i))
<1>3. run \subseteq 1 .. Len(s)
  BY <1>0, LegFields, BlockBars
<1>4. o.range.low = Min({s[t].low : t \in run}) /\ o.range.high = Max({s[t].high : t \in run})
  BY <1>2 DEF OrderBlock, Interval
<1>5. run # {}
  BY <1>2
<1> HIDE DEF run
<1>6. PICK t \in run : TRUE
  BY <1>5
<1>7. /\ Min({s[u].low : u \in run}) <= s[t].low /\ s[t].high <= Max({s[u].high : u \in run})
      /\ Min({s[u].low : u \in run}) \in Int /\ Max({s[u].high : u \in run}) \in Int
  BY <1>0, <1>3, <1>5, <1>6, LowsAndHighs
<1>8. s[t].low \in Int /\ s[t].high \in Int /\ s[t].low <= s[t].high
  BY <1>3, <1>6, SoundBar
<1> QED  BY <1>4, <1>7, <1>8

\* Nor is a balanced price range.
LEMMA BprsOrdered ==
  ASSUME NEW s, SoundSeries(s), NEW zone \in Marks(s).bprs
  PROVE  zone.low <= zone.high
<1> DEFINE fvgs == DetectFvgs(s, DetectDisplacement(s))
<1>1. zone \in DetectBprs(s, fvgs)
  BY MarksAre
<1>2. \A g \in fvgs : g.range.low \in Int /\ g.range.high \in Int /\ g.range.low <= g.range.high
  BY GapsOrdered
<1> HIDE DEF fvgs
<1>3. \E a \in fvgs, b \in fvgs :
        zone = Intersection(b.range, a.range) /\ Intersects(b.range, a.range)
  BY <1>1 DEF DetectBprs
<1>4. PICK a \in fvgs, b \in fvgs :
        zone = Intersection(b.range, a.range) /\ Intersects(b.range, a.range)
  BY <1>3
<1> QED  BY <1>2, <1>4 DEF Intersects, Intersection, Interval, Larger, Smaller

\* A breaker comes after the sweep, and the sweep after the block.
LEMMA BreakersOrdered ==
  ASSUME NEW s, SoundSeries(s), NEW b \in Marks(s).breakers
  PROVE  /\ b.origin.anchor < b.sweep /\ b.sweep < b.invalidator
         /\ b.invalidator \in 1 .. Len(s)
<1> DEFINE d == DetectDisplacement(s)
<1>0. s \in Seq(Candle) /\ Len(s) \in Nat
  BY DEF SoundSeries
<1>1. b \in DetectBreakers(s, Marks(s).obs, Marks(s).sweeps)
  BY MarksAre
<1>2. PICK o \in Marks(s).obs :
        /\ SweepsBetween(Marks(s).sweeps, o, o.anchor, ObInvalidatedAt(s, o)) # {}
        /\ b = Breaker(s, o, Marks(s).sweeps)
  BY <1>1, InBreakers
<1> DEFINE inv == ObInvalidatedAt(s, o)
           prior == SweepsBetween(Marks(s).sweeps, o, o.anchor, inv)
           bars_ == {w.index : w \in prior}
<1>3. o \in DetectOrderBlocks(s, AggregateLegs(s, d), DetectFvgs(s, d))
  BY MarksAre
<1>4. o.anchor \in 1 .. Len(s)
  BY <1>0, <1>3, BlockAnchor
<1>5. inv \in 0 .. Len(s)
  <2> DEFINE S == {t \in o.anchor + 1 .. Len(s) : ClosesBeyondMid(s[t], o.direction, o.range)}
  <2>1. S \subseteq 1 .. Len(s)
    BY <1>0, <1>4
  <2>2. inv = FirstOf(S)
    BY DEF ObInvalidatedAt
  <2> HIDE DEF S, inv
  <2>3. S # {} => Min(S) \in 1 .. Len(s)
    BY <1>0, <2>1, EndsOfBars DEF SomeBars
  <2> QED  BY <1>0, <2>2, <2>3 DEF FirstOf, None
<1>6. \A w \in prior : w.index \in 1 .. Len(s) /\ o.anchor < w.index /\ w.index < inv
  BY <1>0, SweepBars DEF SweepsBetween
<1>7. bars_ # {} /\ bars_ \subseteq 1 .. Len(s)
  BY <1>2, <1>6
<1>8. Max(bars_) \in bars_
  <2> HIDE DEF bars_
  <2> QED  BY <1>0, <1>7, EndsOfBars DEF SomeBars
<1>9. o.anchor < Max(bars_) /\ Max(bars_) < inv /\ Max(bars_) \in 1 .. Len(s)
  <2>1. PICK w \in prior : Max(bars_) = w.index
    BY <1>8
  <2> QED  BY <1>6, <2>1
<1>10. b.origin = o /\ b.sweep = Max(bars_) /\ b.invalidator = inv
  BY <1>2 DEF Breaker
<1> HIDE DEF inv, bars_
<1> QED  BY <1>0, <1>4, <1>5, <1>9, <1>10

\* The zone of an imbalance has a height.
LEMMA ImbalancesOrdered ==
  ASSUME NEW s, SoundSeries(s), NEW g \in DetectVolumeImbalances(s)
  PROVE  g.range.low < g.range.high
<1>0. Len(s) \in Nat
  BY DEF SoundSeries
<1>1. PICK u \in 1 .. Len(s) - 1 :
             \/ /\ s[u].close = BodyTop(s[u]) /\ s[u + 1].open > s[u].close
                /\ g = Gap(BULL, u, s[u].close, s[u + 1].open)
             \/ /\ s[u].close = BodyBot(s[u]) /\ s[u + 1].open < s[u].close
                /\ g = Gap(BEAR, u, s[u + 1].open, s[u].close)
  BY InImbalances
<1>2. u \in 1 .. Len(s) /\ u + 1 \in 1 .. Len(s)
  BY <1>0
<1>3. s[u].close \in Int /\ s[u + 1].open \in Int
  BY <1>2, SoundBar
<1> QED  BY <1>1, <1>3 DEF Gap, Interval

\* So has that of a rejection.
LEMMA RejectionsOrdered ==
  ASSUME NEW s, SoundSeries(s), NEW r \in DetectRejections(s, Marks(s).pools)
  PROVE  r.range.low < r.range.high
<1>0. s \in Seq(Candle) /\ Len(s) \in Nat
  BY DEF SoundSeries
<1>1. PICK p \in Marks(s).pools : \E t \in p.created .. Len(s) : Rejects(s, p, t) /\ r = Rejection(s, p, t)
  BY InRejections
<1>2. PICK w \in DetectSwings(s) : p = PoolOf(w)
  <2>1. p \in PoolsFromSwings(DetectSwings(s))
    BY MarksAre
  <2> QED  BY <2>1 DEF PoolsFromSwings, PoolOf
<1>3. p.price \in Int /\ p.created \in Nat \ {0}
  <2>1. w.index \in 1 .. Len(s) /\ w.price \in {s[w.index].low, s[w.index].high}
    BY <1>0, SwingsAreSwings
  <2>2. p.price = w.price /\ p.created = w.confirmed
    BY <1>2 DEF PoolOf
  <2>3. s[w.index].low \in Int /\ s[w.index].high \in Int
    BY <2>1, SoundBar
  <2>4. p \in PoolsFromSwings(DetectSwings(s))
    BY MarksAre
  <2> QED  BY <1>0, <2>1, <2>2, <2>3, <2>4, PoolCreated
<1>4. PICK t \in p.created .. Len(s) : Rejects(s, p, t) /\ r = Rejection(s, p, t)
  BY <1>1
<1>5. t \in 1 .. Len(s)
  BY <1>0, <1>3
<1>6. /\ s[t].low \in Int /\ s[t].high \in Int
      /\ BodyBot(s[t]) \in Int /\ BodyTop(s[t]) \in Int
  BY <1>5, SoundBar
<1>7. WickBeyond(s[t], p)
  BY <1>4 DEF Rejects
<1> QED  BY <1>3, <1>4, <1>6, <1>7 DEF WickBeyond, BodyInside, Rejection, Interval

\* A retest is on a bar of the series.
LEMMA RetestBars ==
  ASSUME NEW s \in Seq(Candle), NEW o, o.anchor \in 1 .. Len(s), FirstRetest(s, o) # None
  PROVE  FirstRetest(s, o) \in 1 .. Len(s)
<1>0. Len(s) \in Nat
  OBVIOUS
<1> DEFINE inv == ObInvalidatedAt(s, o)
           last == IF inv = None THEN Len(s) ELSE inv - 1
           S == {t \in o.anchor + 1 .. Len(s) : ClosesBeyondMid(s[t], o.direction, o.range)}
           R == {t \in o.anchor + 1 .. last : TradesBackTo(s[t], o)}
<1>1. inv = FirstOf(S) /\ FirstRetest(s, o) = FirstOf(R)
  BY DEF ObInvalidatedAt, FirstRetest
<1>2. S \subseteq 1 .. Len(s)
  BY <1>0
<1>3. inv # None => inv \in 1 .. Len(s)
  <2> HIDE DEF S
  <2>1. S # {} => Min(S) \in 1 .. Len(s)
    BY <1>0, <1>2, EndsOfBars DEF SomeBars
  <2> QED  BY <1>1, <2>1 DEF FirstOf
<1> HIDE DEF inv, S
<1>4. last \in Int /\ last <= Len(s)
  BY <1>0, <1>3
<1>5. R \subseteq 1 .. Len(s)
  <2> HIDE DEF last
  <2> QED  BY <1>0, <1>4
<1> HIDE DEF R, last
<1>6. R # {} => Min(R) \in 1 .. Len(s)
  BY <1>0, <1>5, EndsOfBars DEF SomeBars
<1> QED  BY <1>1, <1>6 DEF FirstOf

\* A signal is on a bar of the series.
LEMMA SignalBars ==
  ASSUME NEW s, SoundSeries(s), NEW x \in DetectAllSignals(s, Marks(s))
  PROVE  x.bar \in 1 .. Len(s)
<1> DEFINE d == DetectDisplacement(s)
<1>0. s \in Seq(Candle) /\ Len(s) \in Nat
  BY DEF SoundSeries
<1>1. CASE x \in DetectUnicorns(s, Marks(s).breakers, Marks(s).fvgs, Marks(s).pools)
  <2>1. \E b \in Marks(s).breakers : x.bar = b.invalidator
    BY <1>1, InUnicorns, SignalFields
  <2> QED  BY <2>1, BreakersOrdered
<1>2. CASE x \in DetectMssFvg(s, Marks(s).events, Marks(s).fvgs, Marks(s).pools)
  <2>1. \E e \in Marks(s).events : x.bar = e.index
    BY <1>2, InMssFvg, SignalFields
  <2> QED  BY <1>0, <2>1, EventBars
<1>3. CASE x \in DetectObOte(s, Marks(s).obs, Marks(s).pools)
  <2>1. PICK o \in Marks(s).obs : x.bar = FirstRetest(s, o) /\ FirstRetest(s, o) # None
    BY <1>3, InObOte, SignalFields
  <2>2. o \in DetectOrderBlocks(s, AggregateLegs(s, d), DetectFvgs(s, d))
    BY MarksAre
  <2>3. o.anchor \in 1 .. Len(s)
    BY <1>0, <2>2, BlockAnchor
  <2> QED  BY <1>0, <2>1, <2>3, RetestBars
<1>4. CASE x \in DetectSilverBullet(s, Marks(s).fvgs, Marks(s).pools)
  <2>1. PICK g \in Marks(s).fvgs : x.bar = g.anchor
    BY <1>4, InSilverBullet, SignalFields
  <2>2. g \in DetectFvgs(s, d)
    BY MarksAre
  <2> QED  BY <1>0, <2>1, <2>2, GapBars
<1> QED  BY <1>1, <1>2, <1>3, <1>4, Zenon DEF DetectAllSignals

(***************************************************************************)
(* The series stays sound.                                                 *)
(***************************************************************************)
SoundInv == SignalsInv /\ SoundSeries(bars)

\* A candle that follows a close is as sound as its shape.
LEMMA AfterSound ==
  ASSUME NEW close \in Int, NEW c \in Candle, Sound(c)
  PROVE  Sound(After(close, c))
  BY DEF Sound, After, Candle

LEMMA SoundInitially == Init => SoundInv
  BY SignalsInitially, PipelineAssumption, SoundBars DEF Init, SoundInv, SoundSeries

LEMMA SoundStep == SoundInv /\ [Next]_vars => SoundInv'
<1>1. ASSUME SoundInv, NEW c \in Shapes, NewBar(c) PROVE SoundSeries(bars)'
  <2>1. bars \in Seq(Candle) /\ Len(bars) \in Nat /\ Len(bars) \in 1 .. Len(bars)
    BY <1>1 DEF SoundInv, SoundSeries
  <2>2. bars[Len(bars)].close \in Int
    BY <1>1, <2>1, SoundBar DEF SoundInv
  <2>3. PICK x : x = After(bars[Len(bars)].close, c)
    OBVIOUS
  <2>4. x \in Candle /\ Sound(x)
    BY <2>2, <2>3, AfterType, AfterSound, PipelineAssumption, SoundBars
  <2>5. bars' = Append(bars, x)
    BY <1>1, <2>3 DEF NewBar
  <2>6. PICK n : n = Append(bars, x)
    OBVIOUS
  <2>7. n \in Seq(Candle) /\ n # <<>> /\ Len(n) = Len(bars) + 1
    BY <2>1, <2>4, <2>6
  <2>8. ASSUME NEW t \in 1 .. Len(n) PROVE Sound(n[t])
    <3>1. n[t] = IF t = Len(bars) + 1 THEN x ELSE bars[t]
      BY <2>1, <2>4, <2>6, <2>7
    <3>2. t # Len(bars) + 1 => t \in 1 .. Len(bars)
      BY <2>1, <2>7
    <3> QED  BY <1>1, <2>4, <3>1, <3>2 DEF SoundInv, SoundSeries
  <2>9. bars' = n
    BY <2>5, <2>6
  <2> QED  BY <2>7, <2>8, <2>9 DEF SoundSeries
<1>2. ASSUME SoundInv, UNCHANGED vars PROVE SoundSeries(bars)'
  BY <1>2 DEF SoundInv, SoundSeries, vars
<1> QED  BY <1>1, <1>2, SignalsStep DEF SoundInv, Next

\* On sound bars every interval a detector builds has its ends in order, every
\* mark and every signal lies on bars of the series, and a swing is of one
\* cluster at the most.
THEOREM PipelineTypesHold == Spec => []PipelineTypeOK
<1>1. ASSUME SoundInv PROVE PipelineTypeOK
  <2>0. SoundSeries(bars) /\ marks = Marks(bars) /\ signals = DetectAllSignals(bars, Marks(bars))
        /\ bars \in Seq(Candle)
    BY <1>1 DEF SoundInv, SignalsInv, PipelineInv
  <2>1. \A t \in 1 .. Len(bars) : Sound(bars[t])
    BY <2>0 DEF SoundSeries
  <2>2. ASSUME NEW g \in marks.fvgs \cup marks.obs PROVE g.range.low <= g.range.high
    <3>1. marks.fvgs = DetectFvgs(bars, DetectDisplacement(bars))
      BY <2>0, MarksAre
    <3> QED  BY <2>0, <2>2, <3>1, GapsOrdered, BlocksOrdered
  <2>3. \A zone \in marks.bprs : zone.low <= zone.high
    BY <2>0, BprsOrdered
  <2>4. ASSUME NEW w \in marks.swings PROVE w.index \in 1 .. Len(bars) /\ w.price \in Prices
    <3>1. w \in DetectSwings(bars)
      BY <2>0, MarksAre
    <3>2. w.index \in 1 .. Len(bars) /\ w.price \in {bars[w.index].low, bars[w.index].high}
      BY <2>0, <3>1, SwingsAreSwings
    <3> QED  BY <3>2 DEF Prices
  <2>5. \A b \in marks.breakers :
          b.origin.anchor < b.sweep /\ b.sweep < b.invalidator /\ b.invalidator <= Len(bars)
    BY <2>0, BreakersOrdered
  <2>6. \A x \in signals : x.bar \in 1 .. Len(bars)
    BY <2>0, SignalBars
  <2> DEFINE r == Registry(bars, marks)
  <2>7. /\ r.imbalances = DetectVolumeImbalances(bars)
        /\ r.rejections = DetectRejections(bars, marks.pools)
        /\ r.clusters = ClusterEqualExtremes(marks.swings)
    BY RegistryIs
  <2>8. \A a \in r.imbalances \cup r.rejections : a.range.low < a.range.high
    BY <2>0, <2>7, ImbalancesOrdered, RejectionsOrdered
  <2>9. \A x, y \in r.clusters : x.members \cap y.members # {} => x = y
    <3>1. SwingSet(marks.swings)
      BY <2>0, MarksAre, SwingsAreSwings
    <3> QED  BY <2>7, <3>1, ClustersApart
  <2> HIDE DEF r
  <2>10. PipelineTypeOK
    BY <2>0, <2>1, <2>2, <2>3, <2>4, <2>5, <2>6, <2>8, <2>9, Zenon DEF PipelineTypeOK, r
  <2> QED  BY <2>10
<1> QED  BY <1>1, SoundInitially, SoundStep, PTL DEF Spec
=============================================================================
