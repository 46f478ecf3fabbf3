------------------------------ MODULE PDArrays ------------------------------
(***************************************************************************)
(* The arrays of the second layer (signals/imbalance, signals/blocks):     *)
(* gaps, order blocks and breakers, from the marks of Structure.           *)
(***************************************************************************)
EXTENDS Structure

CONSTANTS
  MinGap,       \* least gap, in ticks
  MaxRun,       \* longest run of an order block
  ObLookback    \* bars searched for an extremum when there is no run

ASSUME PDArraysAssumption ==
  {MinGap, MaxRun, ObLookback} \subseteq Nat \ {0}

(***************************************************************************)
(* Fair value gaps. d is the displacement of the bars: the middle bar must *)
(* displace in the direction of the gap.                                   *)
(***************************************************************************)
Gap(dir, t, lo, hi) == [direction |-> dir, anchor |-> t, range |-> Interval(lo, hi)]

DetectFvgs(s, d) ==
  {Gap(BULL, t, s[t].high, s[t + 2].low) :
    t \in {u \in 1 .. Len(s) - 2 : s[u + 2].low - s[u].high >= MinGap /\ d[u + 1] = BULL}} \cup
  {Gap(BEAR, t, s[t + 2].high, s[t].low) :
    t \in {u \in 1 .. Len(s) - 2 : s[u].low - s[u + 2].high >= MinGap /\ d[u + 1] = BEAR}}

\* The first bar after the pattern whose body closes beyond the gap's middle.
FvgInvalidatedAt(s, g) ==
  FirstOf({t \in g.anchor + 3 .. Len(s) : ClosesBeyondMid(s[t], g.direction, g.range)})

\* A balanced price range: a gap up and a gap down, both standing, that meet.
DetectBprs(s, fvgs) ==
  LET standing == {g \in fvgs : FvgInvalidatedAt(s, g) = None}
  IN  UNION {{Intersection(b.range, a.range) :
               a \in {g \in standing : g.direction = BEAR /\ Intersects(b.range, g.range)}} :
             b \in {g \in standing : g.direction = BULL}}

(***************************************************************************)
(* Order blocks: the opposing bars just before a displacement leg that     *)
(* leaves a gap, or the extremum of the bars before it.                    *)
(***************************************************************************)
FvgsOfLeg(leg, fvgs) ==
  {g \in fvgs : g.direction = leg.direction /\ g.anchor \in leg.start .. leg.end}

\* The run of opposing bars that ends at the bar before the leg.
OpposingRun(s, leg) ==
  LET before == Larger(1, leg.start - MaxRun) .. leg.start - 1
  IN  {t \in before : \A u \in t .. leg.start - 1 : BarDir(s[u]) = Against(leg.direction)}

\* min and max of Python keep the first of equal bars.
ExtremumBar(s, leg) ==
  LET window == Larger(1, leg.start - ObLookback) .. leg.start - 1
      extreme == IF leg.direction = BULL THEN Min({s[t].low : t \in window})
                                         ELSE Max({s[t].high : t \in window})
  IN  IF window = {} THEN {}
      ELSE {Min({t \in window :
              extreme = IF leg.direction = BULL THEN s[t].low ELSE s[t].high})}

OrderBlockBars(s, leg) ==
  IF OpposingRun(s, leg) # {} THEN OpposingRun(s, leg) ELSE ExtremumBar(s, leg)

OrderBlock(s, leg) ==
  LET run == OrderBlockBars(s, leg)
  IN  [direction |-> leg.direction, anchor |-> Min(run), leg |-> leg,
       range |-> Interval(Min({s[t].low : t \in run}), Max({s[t].high : t \in run}))]

DetectOrderBlocks(s, legs, fvgs) ==
  {OrderBlock(s, leg) :
    leg \in {l \in legs : FvgsOfLeg(l, fvgs) # {} /\ OrderBlockBars(s, l) # {}}}

\* The search starts at the bar after the anchor, which may be of the run.
ObInvalidatedAt(s, ob) ==
  FirstOf({t \in ob.anchor + 1 .. Len(s) : ClosesBeyondMid(s[t], ob.direction, ob.range)})

(***************************************************************************)
(* Breakers: order blocks invalidated after a sweep against them.          *)
(***************************************************************************)
SideAgainst(dir) == IF dir = BULL THEN "SSL" ELSE "BSL"

\* Mutant: the bar that invalidates the block counts as its sweep.
SweepsUpTo(sweeps, ob, from, to) ==
  {w \in sweeps : w.side = SideAgainst(ob.direction) /\ from <= w.index /\ w.index <= to}

\* The sweeps against an order block strictly between two bars.
SweepsBetween(sweeps, ob, from, to) ==
  {w \in sweeps : w.side = SideAgainst(ob.direction) /\ from < w.index /\ w.index < to}

DetectBreakers(s, obs, sweeps) ==
  {LET inv == ObInvalidatedAt(s, ob)
       prior == SweepsBetween(sweeps, ob, ob.anchor, inv)
   IN  [direction |-> Against(ob.direction), origin |-> ob, range |-> ob.range,
        sweep |-> Max({w.index : w \in prior}), invalidator |-> inv] :
   ob \in {o \in obs : SweepsBetween(sweeps, o, o.anchor, ObInvalidatedAt(s, o)) # {}}}
=============================================================================
