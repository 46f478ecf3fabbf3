----------------------------- MODULE PDRegistry -----------------------------
(***************************************************************************)
(* The detectors no setup reads (signals/imbalance, blocks, liquidity,     *)
(* ranges): what the analysis scripts and the selector may draw on, from   *)
(* the series and the marks of Setups.                                     *)
(***************************************************************************)
EXTENDS Setups

CONSTANTS
  WickToBodyMin,  \* least wick over body of a rejection, in hundredths
  LookForward,    \* bars that may confirm a rejection
  GraceBars,      \* bars after its touch a mitigation must survive
  Tolerance,      \* ticks between swings of a cluster and its lowest
  MinCluster      \* least swings of a cluster

ASSUME PDRegistryAssumption ==
  /\ {WickToBodyMin, LookForward, GraceBars, Tolerance} \subseteq Nat
  /\ MinCluster \in Nat \ {0}

(***************************************************************************)
(* Volume imbalances: the next bar opens beyond a body that closed on the  *)
(* side it opens on.                                                       *)
(***************************************************************************)
DetectVolumeImbalances(s) ==
  {Gap(BULL, t, s[t].close, s[t + 1].open) :
    t \in {u \in 1 .. Len(s) - 1 : s[u].close = BodyTop(s[u]) /\ s[u + 1].open > s[u].close}} \cup
  {Gap(BEAR, t, s[t + 1].open, s[t].close) :
    t \in {u \in 1 .. Len(s) - 1 : s[u].close = BodyBot(s[u]) /\ s[u + 1].open < s[u].close}}

(***************************************************************************)
(* Rejections: a wick through a pool, confirmed by a bar soon after whose  *)
(* wick dominates its body. A pool that was taken still rejects.           *)
(***************************************************************************)
WickBeyond(c, p) ==
  /\ BodyInside(c, p)
  /\ IF p.side = "BSL" THEN c.high > p.price ELSE c.low < p.price

PoolWick(c, p) == IF p.side = "BSL" THEN c.high - BodyTop(c) ELSE BodyBot(c) - c.low

\* The confirming bar has closed back inside the range of the bar before.
BackInside(s, p, t, c) ==
  t = 1 \/ IF p.side = "BSL" THEN c.close <= s[t - 1].high ELSE c.close >= s[t - 1].low

Rejects(s, p, t) ==
  /\ WickBeyond(s[t], p)
  /\ \E u \in t .. Smaller(t + LookForward, Len(s)) :
       /\ Body(s[u]) > 0 /\ 100 * PoolWick(s[u], p) >= WickToBodyMin * Body(s[u])
       /\ BackInside(s, p, t, s[u])

Rejection(s, p, t) ==
  [direction |-> IF p.side = "BSL" THEN BEAR ELSE BULL, anchor |-> t, pool |-> p.price,
   range |-> IF p.side = "BSL" THEN Interval(BodyTop(s[t]), s[t].high)
                               ELSE Interval(s[t].low, BodyBot(s[t]))]

DetectRejections(s, pools) ==
  UNION {{Rejection(s, p, t) : t \in {u \in p.created .. Len(s) : Rejects(s, p, u)}} : p \in pools}

(***************************************************************************)
(* Mitigations: the first touch of an order block, with no sweep against   *)
(* it in between, that the block survives. The block is never marked as    *)
(* touched, so that every block is fresh.                                  *)
(***************************************************************************)
FirstTouch(s, ob) == FirstOf({t \in ob.anchor + 1 .. Len(s) : TradesBackTo(s[t], ob)})

\* The block stands at its touch and for the bars of grace after it.
Survives(s, ob) ==
  LET inv == ObInvalidatedAt(s, ob) IN inv = None \/ inv > FirstTouch(s, ob) + GraceBars

DetectMitigations(s, obs, sweeps) ==
  {[direction |-> ob.direction, origin |-> ob, touch |-> FirstTouch(s, ob)] :
    ob \in {o \in obs : /\ FirstTouch(s, o) # None
                        /\ SweepsBetween(sweeps, o, o.anchor, FirstTouch(s, o)) = {}
                        /\ Survives(s, o)}}

(***************************************************************************)
(* Equal extremes: the swings of a kind, cut greedily from the lowest      *)
(* price into runs no wider than the tolerance.                            *)
(***************************************************************************)
OfKind(swings, kind) == {w \in swings : w.kind = kind}

\* A price leads a run when no lower leader reaches it.
Leads(prices) ==
  LET leads[q \in prices] ==
        ~\E l \in prices : l < q /\ q - l <= Tolerance /\ leads[l]
  IN  leads

\* The cluster trades at the extreme that triggers its stops.
Cluster(run) ==
  LET kind == (CHOOSE w \in run : TRUE).kind
      prices == {w.price : w \in run}
  IN  [side |-> IF kind = "HIGH" THEN "BSL" ELSE "SSL", members |-> run,
       price |-> IF kind = "HIGH" THEN Max(prices) ELSE Min(prices),
       created |-> Max({w.confirmed : w \in run})]

ClusterEqualExtremes(swings) ==
  LET runs(kind) ==
        LET prices == {w.price : w \in OfKind(swings, kind)}
            leads  == Leads(prices)
        IN  {{w \in OfKind(swings, kind) : w.price \in q .. q + Tolerance} :
              q \in {l \in prices : leads[l]}}
  IN  {Cluster(run) : run \in {r \in runs("HIGH") \cup runs("LOW") : Cardinality(r) >= MinCluster}}

(***************************************************************************)
(* The dealing range at a bar: between the last high and the last low      *)
(* confirmed by then, whichever lies higher.                               *)
(***************************************************************************)
LastSwing(swings, kind, t) ==
  LET known == {w \in OfKind(swings, kind) : w.confirmed <= t}
  IN  {w \in known : \A v \in known : v.confirmed <= w.confirmed}

DealingRangeAt(swings, t) ==
  {Interval(Smaller(h.price, l.price), Larger(h.price, l.price)) :
    h \in LastSwing(swings, "HIGH", t), l \in LastSwing(swings, "LOW", t)}

\* Where a price lies in a range, of which the middle may be half a tick.
ClassifyPrice(price, range) ==
  LET mid == range.low + range.high
  IN  IF 2 * price > mid THEN "PREMIUM" ELSE IF 2 * price < mid THEN "DISCOUNT" ELSE "EQUILIBRIUM"

\* What a bar knows of its close: the range it trades in, and which half.
DealingAt(s, swings, t) ==
  {[range |-> r, half |-> ClassifyPrice(s[t].close, r)] : r \in DealingRangeAt(swings, t)}

\* All of them, for a series and its marks.
Registry(s, m) ==
  [imbalances  |-> DetectVolumeImbalances(s),
   rejections  |-> DetectRejections(s, m.pools),
   mitigations |-> DetectMitigations(s, m.obs, m.sweeps),
   clusters    |-> ClusterEqualExtremes(m.swings),
   dealing     |-> [t \in 1 .. Len(s) |-> DealingAt(s, m.swings, t)]]
=============================================================================
