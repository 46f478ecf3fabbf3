------------------------------- MODULE Parity -------------------------------
(***************************************************************************)
(* The paper broker beside the engine, "designed to mirror the backtest    *)
(* engine's behavior for parity testing" (execution/paper_broker.py:5). The*)
(* engine runs as in Backtest. The broker is fed what the market would have*)
(* shown: each bar's open, then its two extremes in either order. What the *)
(* engine fills is submitted to it, with the engine's size, and what the   *)
(* engine flattens at 16:30 is flattened.                                  *)
(***************************************************************************)
EXTENDS Backtest

X == "MNQ"

\* A bar's open lies between its extremes (data/resampler.py:3), and a target is
\* no nearer to the entry than the stop is: the setups refuse a reward below
\* min_rr times the risk, 1 or more (signals/setups/silver_bullet.py:94).
OrderedLevels(s) == IF s.side = "BUY" THEN s.sl <= s.tp ELSE s.tp <= s.sl

ASSUME MarketAssumption ==
  /\ \A c \in Candles : c.low <= c.open /\ c.open <= c.high
  /\ \A b \in SignalBatches : \A i \in 1 .. Len(b) : OrderedLevels(b[i])

VARIABLES
  ticks,      \* prices of this bar the broker has still to see
  pConnected, pFed, pLast, pPositions, pBrackets, pEquity,
  entrySlip,  \* what the broker's entries have slipped so far, in money
  agreement   \* history: what the two accounts can be expected to share

\* The broker numbers its orders as the engine numbers its positions.
Paper == INSTANCE PaperBroker WITH
  Symbols <- {X}, Prices <- {}, Quantities <- {}, MaxOrders <- 0,
  connected <- pConnected, fed <- pFed, last <- pLast, positions <- pPositions,
  brackets <- pBrackets, equity <- pEquity,
  nextId <- nextId

paper == <<pConnected, pFed, pLast, pPositions, pBrackets, pEquity>>
twins == <<ticks, paper, entrySlip, agreement>>
parityVars == <<vars, twins>>

\* A bar that touches both levels of a position leaves open which was first.
Ambiguous(p) ==
  /\ StopHit(p)
  /\ IF p.qty > 0 THEN candle.high >= p.signal.tp ELSE candle.low <= p.signal.tp

Touched(p) == StopHit(p) \/ TargetHit(p)

\* The engine looks at no level on the bar of the fill, and at 16:30 it closes
\* at the open although the open is past a level.
Unwatched(p) == p.fill = t /\ Touched(p)

FlattensPastLevel ==
  /\ FlatBar(t)
  /\ \E i \in 1 .. Len(open) : Touched([open[i] EXCEPT !.fill = t])

OpensBar ==
  /\ NextBar
  /\ Paper!FeedPrice(X, candle'.open)
  /\ ticks' \in {<<candle'.low, candle'.high>>, <<candle'.high, candle'.low>>}
  /\ UNCHANGED <<entrySlip, agreement>>

FlattensBoth ==
  /\ FlattenOne
  /\ Paper!FlattenAll({X})
  /\ agreement' = IF FlattensPastLevel THEN "none" ELSE agreement
  /\ UNCHANGED <<ticks, entrySlip>>

\* The broker takes no second position on its symbol.
FillsBoth ==
  /\ FillPending
  /\ \/ /\ Len(open') = Len(open)
        /\ UNCHANGED <<paper, entrySlip, agreement>>
     \/ /\ Len(open') > Len(open)
        /\ LET p == Last(open') IN
             \/ /\ Paper!SubmitMarket(X, p.qty, p.signal.sl, p.signal.tp)
                /\ entrySlip' = entrySlip + SlippageTicks * TickValue * AbsVal(p.qty)
                /\ UNCHANGED agreement
             \/ /\ Paper!Held(X)
                /\ agreement' = "none"
                /\ UNCHANGED <<paper, entrySlip>>
  /\ UNCHANGED ticks

ExaminesStop ==
  /\ ExamineStop
  /\ agreement' = IF Ambiguous(open[cursor + 1]) /\ agreement = "exact"
                  THEN "pessimistic" ELSE agreement
  /\ UNCHANGED <<ticks, paper, entrySlip>>

\* The bar is over for the engine; the broker now sees where it went.
Tick ==
  /\ phase = "signals"
  /\ batch = <<>>
  /\ ticks # <<>>
  /\ ticks' = Tail(ticks)
  /\ Paper!FeedPrice(X, Head(ticks))
  /\ agreement' = IF \E i \in 1 .. Len(open) : Unwatched(open[i]) THEN "none" ELSE agreement
  /\ UNCHANGED <<phase, market, batch, cursor, lim, pending, account, lastPoint, skipped, seen,
                 entrySlip>>

EndsBar ==
  /\ ticks = <<>>
  /\ RecordEquityPoint
  /\ UNCHANGED twins

EngineAlone ==
  /\ FlattenDone \/ StopsDone \/ FillsDone \/ TakeSignal \/ LastBarDone \/ FinalFlatten
  /\ UNCHANGED twins

ParityInit ==
  /\ Init
  /\ ticks = <<>>
  /\ pConnected = TRUE
  /\ pFed = {}
  /\ pLast = [s \in {X} |-> 0]
  /\ pPositions = [s \in {X} |-> Paper!Flat]
  /\ pBrackets = [s \in {X} |-> Paper!NoBracket]
  /\ pEquity = StartingEquity
  /\ entrySlip = 0
  /\ agreement = "exact"

ParityNext ==
  \/ OpensBar \/ FlattensBoth \/ FillsBoth \/ ExaminesStop \/ Tick \/ EndsBar \/ EngineAlone

ParitySpec == ParityInit /\ [][ParityNext]_parityVars

-----------------------------------------------------------------------------
(***************************************************************************)
(* Properties, at the end of a bar.                                        *)
(***************************************************************************)

\* On bars that decide what they do to a position the two are the same account,
\* but for one thing: the broker's entries slip and the engine's do not. They
\* hold the same position, and their money differs by the slip.
ParityOnClearBars ==
  phase = "next" /\ agreement = "exact" =>
    /\ open = <<>> <=> ~Paper!Held(X)
    /\ open = <<>> => equity = pEquity + entrySlip

\* "Conservative: if both SL and TP touched within the bar, SL wins"
\* (backtest/engine.py:165): whichever level the market reached first, after
\* the bar of the fill the engine never shows more money than the broker
\* beside it, the slip of the entries apart.
StopFirstIsPessimistic ==
  phase = "next" /\ agreement # "none" /\ open = <<>> => equity <= pEquity + entrySlip

\* "Designed to mirror the backtest engine's behavior for parity testing"
\* (execution/paper_broker.py:5), and the engine's own "slippage_ticks added
\* to the entry against the trader" (backtest/engine.py:21).
MirrorsEngine ==
  phase = "next" /\ agreement = "exact" /\ open = <<>> => equity = pEquity
=============================================================================
