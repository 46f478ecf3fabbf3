------------------------------ MODULE Backtest ------------------------------
(***************************************************************************)
(* The event-driven backtest engine (backtest/engine.py, run_backtest) with*)
(* its Portfolio (backtest/portfolio.py), over the risk and the session    *)
(* modules. The loop body of the engine runs its numbered sections in      *)
(* order, so each section is a phase: what a bar does to the account is    *)
(* the sequence                                                            *)
(*                                                                         *)
(*   next -> flat -> stops -> fill -> signals -> next ... -> final -> done *)
(*                                                                         *)
(* and every iteration of a section's own loop is one action. The bars'    *)
(* stamps are a constant; their prices and the signals the detectors found *)
(* at each bar are chosen as the run reaches them.                         *)
(***************************************************************************)
EXTENDS Risk, Sessions, SequencesExt

CONSTANTS
  Stamps,           \* the series: a sequence of [day, minute]
  Candles,          \* the price shapes a bar may have: [open, high, low]
  SignalBatches,    \* the sequences of signals a bar may carry
  MaxBatch,         \* no batch is longer
  StartingEquity, Commission, SlippageTicks,
  EnforceKillzones, EnforceMidnightFilter, EnforceForceFlat

Candle == [open : Int, high : Int, low : Int]
Signal == [side : {"BUY", "SELL"}, entry : Int, sl : Int, tp : Int]

ASSUME EngineAssumption ==
  /\ Stamps \in Seq([day : Nat, minute : Minutes])
  /\ Candles \subseteq Candle
  /\ MaxBatch \in Nat
  /\ SignalBatches \subseteq Seq(Signal)
  /\ \A b \in SignalBatches : Len(b) <= MaxBatch
  /\ StartingEquity \in Int
  /\ Commission \in Nat
  /\ SlippageTicks \in Nat
  /\ EnforceKillzones \in BOOLEAN
  /\ EnforceMidnightFilter \in BOOLEAN
  /\ EnforceForceFlat \in BOOLEAN

\* A series is in the order of time, so a day's 00:00 bar is its first.
ASSUME SeriesInOrder ==
  \A i \in 1 .. Len(Stamps) : \A j \in i + 1 .. Len(Stamps) :
    \/ Stamps[i].day < Stamps[j].day
    \/ Stamps[i].day = Stamps[j].day /\ Stamps[i].minute < Stamps[j].minute

VARIABLES
  phase,
  t,          \* index of the bar being processed, 0 before the first
  candle,     \* its prices
  batch,      \* the signals of the bar not yet processed
  cursor,     \* entries of the list a section walks that it has left in place
  lim,        \* LimitsState
  midOpens,   \* {day: open of the 00:00 bar}, for the days read so far
  pending,    \* _PendingEntry list
  open,       \* pf.open_positions, in insertion order
  equity,     \* pf.equity
  trades,     \* pf.trades: pnl and status of each closed position
  lastPoint,  \* the last entry of pf.equity_series
  skipped,    \* signals counted by _skip
  nextId,     \* next_position_id (and next_order_id, always equal)
  seen        \* history: signals the engine has taken from the bars

market  == <<t, candle, midOpens>>
account == <<open, equity, trades>>
tallies == <<skipped, nextId, seen>>
vars == <<phase, market, batch, cursor, lim, pending, account, lastPoint, tallies>>

Phases == {"next", "flat", "stops", "fill", "signals", "final", "done"}

PendingEntry == [signal : Signal, submit : Nat]
Position == [signal : Signal, submit : Nat, fill : Nat, price : Int, qty : Int]
Trade == [pnl : Int, status : {"CLOSED_SL", "CLOSED_TP", "CLOSED_FLAT"}]

Stamp == Stamps[t]
EntriesAllowed(i) == EnforceKillzones => NewEntriesAllowed(Stamps[i].minute)
FlatBar(i) == EnforceForceFlat /\ ForceFlat(Stamps[i].minute)
MidOpen == IF Stamp.day \in DOMAIN midOpens THEN midOpens[Stamp.day] ELSE NoOpen

-----------------------------------------------------------------------------
(***************************************************************************)
(* The portfolio.                                                          *)
(***************************************************************************)
AbsVal(n) == IF n < 0 THEN -n ELSE n

Pnl(p, price) ==
  (price - p.price) * TickValue * p.qty - 2 * Commission * AbsVal(p.qty)

\* Portfolio.close_position of the i-th open position.
\* Mutant: the position stays in the list.
ClosePositionKept(i, price, status) ==
  /\ equity' = equity + Pnl(open[i], price)
  /\ trades' = Append(trades, [pnl |-> Pnl(open[i], price), status |-> status])
  /\ UNCHANGED open

ClosePosition(i, price, status) ==
  /\ open' = RemoveAt(open, i)
  /\ equity' = equity + Pnl(open[i], price)
  /\ trades' = Append(trades, [pnl |-> Pnl(open[i], price), status |-> status])

\* Inside the bar loop every close is also registered with the limits.
CloseAndRegister(i, price, status) ==
  /\ ClosePosition(i, price, status)
  /\ lim' = RegisterTrade(lim, Pnl(open[i], price))

-----------------------------------------------------------------------------
(***************************************************************************)
(* A bar is read: the limits roll over on the first bar of a day, and the  *)
(* 00:00 bar sets the day's midnight open.                                 *)
(***************************************************************************)
\* Mutant: every bar is taken for the first of its day.
NextBarRollsOver ==
  /\ phase = "next"
  /\ t < Len(Stamps)
  /\ phase' = "flat"
  /\ t' = t + 1
  /\ candle' \in Candles
  /\ lim' = ResetForDay(lim, Stamp'.day, equity)
  /\ UNCHANGED <<batch, cursor, midOpens, pending, account, lastPoint, tallies>>

NextBar ==
  /\ phase = "next"
  /\ t < Len(Stamps)
  /\ phase' = "flat"
  /\ t' = t + 1
  /\ candle' \in Candles
  /\ lim' = IF lim.day # Stamp'.day THEN ResetForDay(lim, Stamp'.day, equity)
            ELSE lim
  /\ midOpens' = IF Stamp'.minute = 0 /\ Stamp'.day \notin DOMAIN midOpens
                 THEN midOpens @@ (Stamp'.day :> candle'.open)
                 ELSE midOpens
  /\ UNCHANGED <<batch, cursor, pending, account, lastPoint, tallies>>

\* Section 1: at 16:30 every open position is closed at this bar's open.
FlattenOne ==
  /\ phase = "flat"
  /\ FlatBar(t)
  /\ open # <<>>
  /\ CloseAndRegister(1, candle.open, "CLOSED_FLAT")
  /\ UNCHANGED <<phase, market, batch, cursor, pending, lastPoint, tallies>>

\* Mutant: the loop is left after its first position.
FlattenDoneEarly ==
  /\ phase = "flat"
  /\ phase' = "stops"
  /\ cursor' = 0
  /\ UNCHANGED <<market, batch, lim, pending, account, lastPoint, tallies>>

FlattenDone ==
  /\ phase = "flat"
  /\ FlatBar(t) => open = <<>>
  /\ phase' = "stops"
  /\ cursor' = 0
  /\ UNCHANGED <<market, batch, lim, pending, account, lastPoint, tallies>>

\* Section 2: the stop first, then the target; the stop slips.
\* Mutant: a bar that touches both levels is taken for a win.
StopHitAfterTarget(p) ==
  IF p.qty > 0 THEN candle.low <= p.signal.sl /\ candle.high < p.signal.tp
  ELSE candle.high >= p.signal.sl /\ candle.low > p.signal.tp

StopHit(p) ==
  IF p.qty > 0 THEN candle.low <= p.signal.sl ELSE candle.high >= p.signal.sl

TargetHit(p) ==
  /\ ~StopHit(p)
  /\ IF p.qty > 0 THEN candle.high >= p.signal.tp ELSE candle.low <= p.signal.tp

\* Mutant: the stop does not slip.
StopExitExact(p) == p.signal.sl

StopExit(p) ==
  IF p.qty > 0 THEN p.signal.sl - SlippageTicks ELSE p.signal.sl + SlippageTicks

ExamineStop ==
  /\ phase = "stops"
  /\ cursor < Len(open)
  /\ LET p == open[cursor + 1] IN
       \/ /\ StopHit(p)
          /\ CloseAndRegister(cursor + 1, StopExit(p), "CLOSED_SL")
          /\ UNCHANGED cursor
       \/ /\ TargetHit(p)
          /\ CloseAndRegister(cursor + 1, p.signal.tp, "CLOSED_TP")
          /\ UNCHANGED cursor
       \/ /\ ~StopHit(p) /\ ~TargetHit(p)
          /\ cursor' = cursor + 1
          /\ UNCHANGED <<account, lim>>
  /\ UNCHANGED <<phase, market, batch, pending, lastPoint, tallies>>

StopsDone ==
  /\ phase = "stops"
  /\ cursor = Len(open)
  /\ phase' = "fill"
  /\ cursor' = 0
  /\ UNCHANGED <<market, batch, lim, pending, account, lastPoint, tallies>>

\* Section 3: entries enqueued on an earlier bar fill at this bar's open, if
\* the session gate is open now, the open is not past the stop, and the size
\* is not zero. Neither the limits nor the open positions are looked at.
\* Mutant: the check forgets the sell side.
GappedPastLongStop(s, price) == s.side = "BUY" /\ price <= s.sl

GappedPastStop(s, price) ==
  IF s.side = "BUY" THEN price <= s.sl ELSE price >= s.sl

\* Mutant: the size comes from the signal's entry, not from the fill.
QuantityAtSignal(s, price) == SizePosition(equity, s.entry, s.sl)

FillQuantity(s, price) == SizePosition(equity, price, s.sl)

Fills(e) ==
  /\ EntriesAllowed(t)
  /\ ~GappedPastStop(e.signal, candle.open)
  /\ FillQuantity(e.signal, candle.open) # 0

OpenPosition(e) ==
  LET qty == FillQuantity(e.signal, candle.open) IN
  /\ open' = Append(open, [signal |-> e.signal, submit |-> e.submit, fill |-> t,
                           price |-> candle.open,
                           qty |-> IF e.signal.side = "BUY" THEN qty ELSE -qty])
  /\ nextId' = nextId + 1

FillPending ==
  /\ phase = "fill"
  /\ cursor < Len(pending)
  /\ LET e == pending[cursor + 1] IN
       \/ /\ e.submit >= t
          /\ cursor' = cursor + 1
          /\ UNCHANGED <<pending, open, nextId, skipped>>
       \/ /\ e.submit < t
          /\ pending' = RemoveAt(pending, cursor + 1)
          /\ UNCHANGED cursor
          /\ \/ Fills(e) /\ OpenPosition(e) /\ UNCHANGED skipped
             \/ ~Fills(e) /\ skipped' = skipped + 1 /\ UNCHANGED <<open, nextId>>
  /\ UNCHANGED <<phase, market, batch, lim, equity, trades, lastPoint, seen>>

\* Then section 4 takes the signals the detectors placed on this bar.
FillsDone ==
  /\ phase = "fill"
  /\ cursor = Len(pending)
  /\ phase' = "signals"
  /\ batch' \in SignalBatches
  /\ cursor' = 0
  /\ UNCHANGED <<market, lim, pending, account, lastPoint, tallies>>

\* Mutant: open positions are not looked at.
EnqueuesBehindPosition(s) ==
  /\ CanTrade(lim)
  /\ EntriesAllowed(t)
  /\ EnforceMidnightFilter => MidnightFilterPasses(s.side, s.entry, MidOpen)

Enqueues(s) ==
  /\ CanTrade(lim)
  /\ EntriesAllowed(t)
  /\ EnforceMidnightFilter => MidnightFilterPasses(s.side, s.entry, MidOpen)
  /\ open = <<>>

TakeSignal ==
  /\ phase = "signals"
  /\ batch # <<>>
  /\ batch' = Tail(batch)
  /\ seen' = seen + 1
  /\ LET s == Head(batch) IN
       \/ /\ Enqueues(s)
          /\ pending' = Append(pending, [signal |-> s, submit |-> t])
          /\ UNCHANGED skipped
       \/ /\ ~Enqueues(s)
          /\ skipped' = skipped + 1
          /\ UNCHANGED pending
  /\ UNCHANGED <<phase, market, cursor, lim, account, lastPoint, nextId>>

RecordEquityPoint ==
  /\ phase = "signals"
  /\ batch = <<>>
  /\ phase' = "next"
  /\ lastPoint' = equity
  /\ UNCHANGED <<market, batch, cursor, lim, pending, account, tallies>>

\* After the last bar what is open closes at that bar's open, unregistered;
\* what is still pending is dropped.
LastBarDone ==
  /\ phase = "next"
  /\ t = Len(Stamps)
  /\ phase' = "final"
  /\ UNCHANGED <<market, batch, cursor, lim, pending, account, lastPoint, tallies>>

FinalFlatten ==
  /\ phase = "final"
  /\ \/ /\ open # <<>>
        /\ ClosePosition(1, candle.open, "CLOSED_FLAT")
        /\ UNCHANGED phase
     \/ /\ open = <<>>
        /\ phase' = "done"
        /\ UNCHANGED account
  /\ UNCHANGED <<market, batch, cursor, lim, pending, lastPoint, tallies>>

Init ==
  /\ phase = "next"
  /\ t = 0
  /\ candle \in Candles
  /\ batch = <<>>
  /\ cursor = 0
  /\ lim = FreshLimits
  /\ midOpens = <<>>
  /\ pending = <<>>
  /\ open = <<>>
  /\ equity = StartingEquity
  /\ trades = <<>>
  /\ lastPoint = StartingEquity
  /\ skipped = 0
  /\ nextId = 1
  /\ seen = 0

Next ==
  \/ NextBar
  \/ FlattenOne
  \/ FlattenDone
  \/ ExamineStop
  \/ StopsDone
  \/ FillPending
  \/ FillsDone
  \/ TakeSignal
  \/ RecordEquityPoint
  \/ LastBarDone
  \/ FinalFlatten

Spec == Init /\ [][Next]_vars

-----------------------------------------------------------------------------
(***************************************************************************)
(* Properties.                                                             *)
(***************************************************************************)

\* The engine's variables have the types the code gives them.
TypeOK ==
  /\ phase \in Phases
  /\ t \in 0 .. Len(Stamps)
  /\ candle \in Candle
  /\ batch \in Seq(Signal)
  /\ cursor \in Nat
  /\ lim \in LimitsStates
  /\ pending \in Seq(PendingEntry)
  /\ open \in Seq(Position)
  /\ equity \in Int
  /\ trades \in Seq(Trade)
  /\ lastPoint \in Int
  /\ skipped \in Nat
  /\ nextId \in Nat
  /\ seen \in Nat

\* The fill loop (engine.py 200-258) never asks the limits again, and yet no
\* entry is ever waiting to be filled while the limits forbid trading: the
\* closes of the bar in between cannot lock the day under it.
PendingUnderLimits == pending # <<>> => CanTrade(lim)

\* The daily cap is checked before an entry is enqueued and counted when its
\* position closes. The signals of one bar can run past it, by no more than
\* that bar's signals.
TradesPerDayBound ==
  MaxTradesPerDay > 0 /\ MaxBatch > 0 =>
    lim.trades + Len(open) + Len(pending) <= MaxTradesPerDay + MaxBatch - 1

\* No look-ahead and no late fill: an entry fills on the bar right after its
\* signal's, and the session gate was open on both (pilot 004's leak).
FillsNextBarInsideGate ==
  \A i \in 1 .. Len(open) :
    /\ open[i].fill = open[i].submit + 1
    /\ EntriesAllowed(open[i].submit)
    /\ EntriesAllowed(open[i].fill)

\* Once a 16:30 bar has been flattened, nothing opened on or before it is
\* still open: neither an old position nor an entry filled on that bar.
NothingCarriedPast1630 ==
  EnforceKillzones =>
    \A i \in 1 .. Len(open) : \A j \in open[i].fill .. t :
      FlatBar(j) => j = t /\ phase = "flat"

\* Positions open together were all signalled on one bar: an entry is never
\* added to a position of an earlier signal.
PositionsShareABar ==
  \A i, j \in 1 .. Len(open) : open[i].submit = open[j].submit

\* Every signal taken from the bars is skipped with a reason, waiting, open or
\* closed: none disappears and none is counted twice.
SignalsAccounted ==
  /\ seen = skipped + Len(pending) + Len(open) + Len(trades)
  /\ nextId = 1 + Len(open) + Len(trades)

\* A stop always costs money, so it always feeds the loss and the streak of
\* the limits: fills past the stop are refused, also across a gap.
StopExitLoses ==
  \A i \in 1 .. Len(trades) : trades[i].status = "CLOSED_SL" => trades[i].pnl < 0

\* A position never risks more, from its actual fill to its stop, than the
\* per-trade share of the equity at that moment.
RiskPerTrade ==
  [][Len(open') > Len(open) /\ MinQuantity <= 1 =>
       LET p == open'[Len(open')] IN
         100 * TickValue * AbsVal(p.qty) * Distance(p.price, p.signal.sl)
           <= equity * RiskPct]_vars

\* A day that is closed for trading stays closed: no sequence of later closes,
\* wins included, reopens it before the next day begins.
LocksHoldForTheDay ==
  [][lim'.day = lim.day /\ ~CanTrade(lim) => ~CanTrade(lim')]_vars
=============================================================================
