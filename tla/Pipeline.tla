------------------------------ MODULE Pipeline ------------------------------
(***************************************************************************)
(* The pipeline on a growing series, as the live runner calls it: each new *)
(* bar extends the series, all marks and signals are computed afresh, and  *)
(* the runner takes the signals whose bar is the last. A backtest calls it *)
(* once, on the whole series: what it sees of a bar is what the pipeline   *)
(* says of that bar when later bars are known.                             *)
(***************************************************************************)
EXTENDS PDRegistry

CONSTANTS
  Openings,  \* the series the pipeline may first be called with
  Shapes,    \* the candles that may follow, relative to the last close
  MaxBars    \* bound on the series

ASSUME PipelineAssumption ==
  /\ Openings \subseteq Seq(Candle) \ {<<>>}
  /\ Shapes \subseteq Candle
  /\ MaxBars \in Nat

\* The aggregator and the resampler build no other bar; that the files hold none
\* is what high and low mean, and no loader checks it.
ASSUME SoundBars ==
  /\ \A s \in Openings : \A t \in 1 .. Len(s) : Sound(s[t])
  /\ \A c \in Shapes : Sound(c)

VARIABLES
  bars,     \* bars_window
  marks,    \* what the detectors return for it
  signals,  \* detect_all_signals(bars_window)
  live      \* the signals taken on the last bar, of every call so far

vars == <<bars, marks, signals, live>>

\* The signals the live runner looks at.
OnLastBar(s, all) == {x \in all : x.bar = Len(s)}

After(close, c) ==
  [open |-> close + c.open, high |-> close + c.high, low |-> close + c.low,
   close |-> close + c.close]

Init ==
  /\ bars \in Openings
  /\ marks = Marks(bars)
  /\ signals = DetectAllSignals(bars, marks)
  /\ live = OnLastBar(bars, signals)

NewBar(c) ==
  /\ Len(bars) < MaxBars
  /\ bars' = Append(bars, After(bars[Len(bars)].close, c))
  /\ marks' = Marks(bars')
  /\ signals' = DetectAllSignals(bars', marks')
  /\ live' = live \cup OnLastBar(bars', signals')

Next == \E c \in Shapes : NewBar(c)

Spec == Init /\ [][Next]_vars

(***************************************************************************)
(* Properties.                                                             *)
(***************************************************************************)
Prices == UNION {{x.low, x.high} : x \in {bars[t] : t \in 1 .. Len(bars)}}

\* Every interval a detector builds has its ends in order, as the check in
\* Interval.__post_init__ asks, and every mark lies on bars of the series.
PipelineTypeOK ==
  /\ bars \in Seq(Candle) /\ \A t \in 1 .. Len(bars) : Sound(bars[t])
  /\ \A g \in marks.fvgs \cup marks.obs : g.range.low <= g.range.high
  /\ \A zone \in marks.bprs : zone.low <= zone.high
  /\ \A w \in marks.swings : w.index \in 1 .. Len(bars) /\ w.price \in Prices
  /\ \A b \in marks.breakers :
       b.origin.anchor < b.sweep /\ b.sweep < b.invalidator /\ b.invalidator <= Len(bars)
  /\ \A x \in signals : x.bar \in 1 .. Len(bars)
  /\ LET r == Registry(bars, marks)
     IN  /\ \A a \in r.imbalances \cup r.rejections : a.range.low < a.range.high
         /\ \A x, y \in r.clusters :
              x.members \cap y.members # {} => x = y

\* Now is the bar a step appends.
Now == Len(bars')

\* What is said of swings, sweeps and taken pools is said once and on time: a
\* bar adds the swings it confirms and its own sweeps and consumptions, and
\* revises nothing that was said before it.
LiquidityIsCausal ==
  [][/\ marks.swings = {w \in marks'.swings : w.confirmed < Now}
     /\ marks.sweeps = {w \in marks'.sweeps : w.index < Now}
     /\ marks.taken = {c \in marks'.taken : c.index < Now}]_vars

\* A block is one mark while its leg grows.
BlockKey(o) == [direction |-> o.direction, anchor |-> o.anchor, range |-> o.range]
BornNow(o, m) == o.leg.end = Now \/ \E g \in FvgsOfLeg(o.leg, m.fvgs) : g.anchor + 2 = Now

\* So it is with displacement, told of a bar by the bar itself, with gaps,
\* told by their third bar, and with order blocks, told when their leg grows
\* or a gap of it is told.
BlocksAreCausal ==
  /\ \A t \in 1 .. Len(bars) : marks'.displacement[t] = marks.displacement[t]
  /\ marks.fvgs = {g \in marks'.fvgs : g.anchor + 2 < Now}
  /\ \A o \in marks.obs : \E n \in marks'.obs : BlockKey(n) = BlockKey(o)
  /\ \A n \in marks'.obs :
       BornNow(n, marks') \/ \E o \in marks.obs : BlockKey(n) = BlockKey(o)

\* And with the rest of the registry: an imbalance is told by the bar after it,
\* a rejection by its wick or a bar that confirms it, a mitigation by its touch
\* or by its block, and withdrawn within its grace or never; the half a bar
\* closed in stays; and a swing leaves the clusters below its reach alone.
RegistryIsCausal ==
  LET old == Registry(bars, marks)
      new == Registry(bars', marks')
      settled(ms) == {[block |-> BlockKey(m.origin), touch |-> m.touch] :
                       m \in {x \in ms : x.touch + GraceBars < Now}}
  IN  /\ old.imbalances = {v \in new.imbalances : v.anchor + 1 < Now}
      /\ old.rejections \subseteq new.rejections
      /\ \A r \in new.rejections \ old.rejections : r.anchor + LookForward >= Now
      /\ settled(old.mitigations) \subseteq settled(new.mitigations)
      /\ \A m \in new.mitigations :
           \/ m.touch = Now \/ BornNow(m.origin, marks')
           \/ \E o \in old.mitigations : BlockKey(o.origin) = BlockKey(m.origin) /\ o.touch = m.touch
      /\ \A t \in 1 .. Len(bars) : new.dealing[t] = old.dealing[t]
      /\ \A c \in old.clusters \ new.clusters :
           \E w \in marks'.swings \ marks.swings :
             \A v \in c.members : w.kind = v.kind /\ w.price <= v.price + Tolerance

ArraysAreCausal == [][BlocksAreCausal /\ RegistryIsCausal]_vars

\* A structure event may be revised by the two bars after it, which can bring
\* the gap of its breaking leg, and by no later bar.
EventsSettle ==
  [][LET settled(m) == {e \in m.events : e.index <= Len(bars) - 2}
     IN  settled(marks') = settled(marks)]_vars

\* A signal without its target.
Trade(x) == [setup |-> x.setup, side |-> x.side, bar |-> x.bar, entry |-> x.entry, sl |-> x.sl]

\* How far ahead of its entry the pools lie that a signal may aim at.
Reach(x, pools) ==
  LET dir == IF x.side = "BUY" THEN BULL ELSE BEAR
  IN  {d \in PoolDistances(pools, x.entry, dir) :
        d >= LeastTarget(x.setup, Distance(x.entry, x.sl))}

\* Signal y is x, or x aimed at a pool that was told since.
Retold(y, x, told) ==
  /\ Trade(y) = Trade(x)
  /\ y.tp = x.tp \/ Distance(y.tp, y.entry) \in Reach(y, told)

\* A pool told since is near enough to be the target, and too near to pay.
Crowded(x, told) ==
  \E d \in Reach(x, told) : 10 * d < MinRR * Distance(x.entry, x.sl)

ToldSince(m, t) == {p \in m.pools : p.created > t}

\* A signal of mss_fvg or silver_bullet may be revised by the two bars after its
\* own. A later bar changes its target at most, to a pool that the bar itself
\* confirms, or takes the signal away because that pool is too near; it brings
\* no signal that was not there. With a fixed target it changes nothing.
SignalsSettle ==
  [][LET settled(all) == {x \in all : /\ x.setup \in {"mss_fvg", "silver_bullet"}
                                      /\ x.bar <= Len(bars) - 2}
         told == ToldSince(marks', Len(bars))
     IN  /\ \A x \in settled(signals) :
              Crowded(x, told) \/ \E y \in settled(signals') : Retold(y, x, told)
         /\ \A y \in settled(signals') : \E x \in settled(signals) : Retold(y, x, told)]_vars

\* What the live runner trades, a backtest sees: a signal of ob_ote or unicorn
\* that was taken on its bar is found in every longer series, with the target
\* it had or one at a pool confirmed after that bar, unless such a pool is too
\* near for the signal to be made.
LiveSignalsStand ==
  \A x \in live :
    x.setup \in {"ob_ote", "unicorn"} =>
      LET told == ToldSince(marks, x.bar)
      IN  Crowded(x, told) \/ \E y \in signals : Retold(y, x, told)

\* What setups/base.py says of a signal's bar: the bar at which the setup became
\* actionable. The pipeline called on the series up to that bar finds it.
ActionableOnItsBar ==
  \A x \in signals :
    LET s == SubSeq(bars, 1, x.bar) IN x \in DetectAllSignals(s, Marks(s))
=============================================================================
