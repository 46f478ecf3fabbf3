------------------------------- MODULE Setups -------------------------------
(***************************************************************************)
(* The four setups (signals/setups) and the pipeline that feeds them       *)
(* (backtest/runner.py, detect_all_signals): from a series to its signals. *)
(***************************************************************************)
EXTENDS MarketStructure

CONSTANTS
  SlOffset,         \* ticks from the extreme to the stop
  MinRR,            \* least reward over risk, in tenths
  MinTpDistance,    \* least distance of a target pool, in risks
  FallbackR, FixedR,
  TpStrategy,       \* "nearest_pool" or "fixed_R"
  RequireInsideOte,
  MssLookback,      \* bars from the gap's anchor to the shift
  SilverBullet      \* the bars stamped inside one of the two windows

ASSUME SetupsAssumption ==
  /\ {SlOffset, MinRR, MinTpDistance, FallbackR, FixedR, MssLookback} \subseteq Nat
  /\ TpStrategy \in {"nearest_pool", "fixed_R"}
  /\ RequireInsideOte \in BOOLEAN
  /\ SilverBullet \subseteq Nat

(***************************************************************************)
(* The prices of a signal.                                                 *)
(***************************************************************************)
Side(dir) == IF dir = BULL THEN "BUY" ELSE "SELL"
Ahead(price, ticks, dir) == IF dir = BULL THEN price + ticks ELSE price - ticks

\* The edge of a zone the price reaches first, and the far edge of a bar.
Proximal(zone, dir) == IF dir = BULL THEN zone.high ELSE zone.low
Extreme(zone, dir)  == IF dir = BULL THEN zone.low ELSE zone.high

\* How far ahead of the entry the pools of the other side lie.
PoolDistances(pools, entry, dir) ==
  IF dir = BULL THEN {p.price - entry : p \in {q \in pools : q.side = "BSL"}}
                ELSE {entry - p.price : p \in {q \in pools : q.side = "SSL"}}

\* The target: the nearest pool at least so far, or a multiple of the risk.
Target(pools, entry, risk, least, dir) ==
  LET far == {x \in PoolDistances(pools, entry, dir) : x >= least}
  IN  Ahead(entry, CASE TpStrategy = "fixed_R" -> FixedR * risk
                     [] TpStrategy = "nearest_pool" /\ far # {} -> Min(far)
                     [] OTHER -> FallbackR * risk, dir)

\* A unicorn aims at any pool ahead of its entry.
LeastTarget(setup, risk) == IF setup = "unicorn" THEN 1 ELSE MinTpDistance * risk

\* The signal of a zone and a stop, none when it has no risk or too little reward.
SignalIf(setup, dir, bar, zone, extreme, pools) ==
  LET entry == Proximal(zone, dir)
      sl    == Ahead(extreme, -SlOffset, dir)
      risk  == Distance(entry, sl)
      tp    == Target(pools, entry, risk, LeastTarget(setup, risk), dir)
  IN  IF risk > 0 /\ 10 * Distance(tp, entry) >= MinRR * risk
      THEN {[setup |-> setup, side |-> Side(dir), bar |-> bar,
             entry |-> entry, sl |-> sl, tp |-> tp]}
      ELSE {}

\* The optimal entry zone of a leg, in thousandths of a tick, meets a range.
InsideOte(leg, range) ==
  LET rng  == leg.range.high - leg.range.low
      zone == IF leg.direction = BULL
              THEN Interval(1000 * leg.range.high - 790 * rng, 1000 * leg.range.high - 618 * rng)
              ELSE Interval(1000 * leg.range.low + 618 * rng, 1000 * leg.range.low + 790 * rng)
  IN  Intersects(Interval(1000 * range.low, 1000 * range.high), zone)

(***************************************************************************)
(* Unicorn: a breaker meets a gap of its direction, anchored between the   *)
(* sweep and the bar that invalidated the order block.                     *)
(***************************************************************************)
UnicornGaps(b, fvgs) ==
  {g \in fvgs :
    /\ g.direction = b.direction /\ g.anchor \in b.sweep .. b.invalidator
    /\ Intersects(b.range, g.range)
    /\ RequireInsideOte => InsideOte(b.origin.leg, Intersection(b.range, g.range))}

DetectUnicorns(s, breakers, fvgs, pools) ==
  UNION {UNION {SignalIf("unicorn", b.direction, b.invalidator,
                         Intersection(b.range, g.range), Extreme(s[g.anchor + 1], b.direction),
                         pools) : g \in UnicornGaps(b, fvgs)} : b \in breakers}

(***************************************************************************)
(* MSS + FVG: the latest gap of the shift's direction within the lookback. *)
(***************************************************************************)
\* Mutant: a gap after the shift will do.
MssGapsAround(e, fvgs) ==
  LET cands == {g \in fvgs : /\ g.direction = e.direction
                             /\ g.anchor \in e.index - MssLookback .. e.index + MssLookback}
  IN  {g \in cands : \A h \in cands : h.anchor <= g.anchor}

MssGaps(e, fvgs) ==
  LET cands == {g \in fvgs : g.direction = e.direction /\ g.anchor \in e.index - MssLookback .. e.index}
  IN  {g \in cands : \A h \in cands : h.anchor <= g.anchor}

DetectMssFvg(s, events, fvgs, pools) ==
  UNION {UNION {SignalIf("mss_fvg", e.direction, e.index, g.range,
                         Extreme(s[g.anchor + 1], e.direction), pools) :
                g \in MssGaps(e, fvgs)} : e \in {x \in events : x.kind = "MSS"}}

(***************************************************************************)
(* OB + OTE: the first bar after an order block's anchor that trades back  *)
(* to it, before the bar that invalidates it.                              *)
(***************************************************************************)
TradesBackTo(c, ob) ==
  IF ob.direction = BULL THEN c.low <= ob.range.high ELSE c.high >= ob.range.low

\* Mutant: the scan goes on to the last retest.
LastRetest(s, ob) ==
  LET inv == ObInvalidatedAt(s, ob)
      last == IF inv = None THEN Len(s) ELSE inv - 1
      at == {t \in ob.anchor + 1 .. last : TradesBackTo(s[t], ob)}
  IN  IF at = {} THEN None ELSE Max(at)

FirstRetest(s, ob) ==
  LET inv == ObInvalidatedAt(s, ob)
      last == IF inv = None THEN Len(s) ELSE inv - 1
  IN  FirstOf({t \in ob.anchor + 1 .. last : TradesBackTo(s[t], ob)})

DetectObOte(s, obs, pools) ==
  UNION {SignalIf("ob_ote", ob.direction, FirstRetest(s, ob), ob.range,
                  Extreme(ob.range, ob.direction), pools) :
         ob \in {o \in obs : /\ FirstRetest(s, o) # None
                             /\ RequireInsideOte => InsideOte(o.leg, o.range)}}

(***************************************************************************)
(* Silver bullet: any gap whose middle bar is in a window, at the bar that *)
(* anchors it.                                                             *)
(***************************************************************************)
DetectSilverBullet(s, fvgs, pools) ==
  UNION {SignalIf("silver_bullet", g.direction, g.anchor, g.range,
                  Extreme(s[g.anchor + 1], g.direction), pools) :
         g \in {h \in fvgs : h.anchor + 1 \in SilverBullet}}

(***************************************************************************)
(* The marks of a series, and its signals.                                 *)
(***************************************************************************)
Marks(s) ==
  LET swings == DetectSwings(s)
      d      == DetectDisplacement(s)
      legs   == AggregateLegs(s, d)
      fvgs   == DetectFvgs(s, d)
      pools  == PoolsFromSwings(swings)
      sweeps == DetectSweeps(s, pools)
      taken  == DetectConsumptions(s, pools)
      obs    == DetectOrderBlocks(s, legs, fvgs)
  IN  [swings |-> swings, displacement |-> d, fvgs |-> fvgs, pools |-> pools,
       bprs |-> DetectBprs(s, fvgs), sweeps |-> sweeps, taken |-> taken, obs |-> obs,
       breakers |-> DetectBreakers(s, obs, sweeps),
       events |-> DetectStructureEvents(s, swings, d, fvgs, taken)]

DetectAllSignals(s, m) ==
  DetectUnicorns(s, m.breakers, m.fvgs, m.pools) \cup
  DetectMssFvg(s, m.events, m.fvgs, m.pools) \cup
  DetectObOte(s, m.obs, m.pools) \cup
  DetectSilverBullet(s, m.fvgs, m.pools)
=============================================================================
