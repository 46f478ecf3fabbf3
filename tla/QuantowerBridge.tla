-------------------------- MODULE QuantowerBridge --------------------------
(***************************************************************************)
(* The Quantower broker (execution/quantower): the broker adapter over the *)
(* DOM2 feed client and the Lucid executor, and behind them the account as *)
(* far as the adapter counts on it. An order names distances, so its       *)
(* bracket is made twice: from the snapshot the adapter reads, and again   *)
(* around the price at which the order fills, which may be much later.     *)
(*                                                                         *)
(* LiveTrading has the same calls without prices; here there is no runner: *)
(* any order may be submitted whenever no call is waited for.              *)
(***************************************************************************)
EXTENDS Integers, FiniteSets

CONSTANTS
  Symbol,     \* exec_symbol
  Prices,     \* of the data symbol, in ticks
  Quantities, \* submitted sizes, never 0
  NoRequest,
  MaxOrders   \* bound: orders posted

ASSUME BridgeAssumption ==
  /\ Prices \subseteq Int
  /\ Quantities \subseteq Nat \ {0}
  /\ MaxOrders \in Nat

VARIABLES
  dryRun,     \* executor.dry_run
  connected,  \* _connected
  alive,      \* feed.vivo: _ultimo_ok is fresh
  mid,        \* the market
  request,    \* the order the adapter waits for and the bridge has not handled
  waiting,    \* an order call has not returned
  reply,      \* the bridge's answer to it
  late,       \* orders that timed out before the bridge handled them
  lots,       \* the account: filled orders with the bracket that guards each
  issued,     \* orders numbered so far
  acked       \* history: numbers acknowledged as accepted

vars == <<dryRun, connected, alive, mid, request, waiting, reply, late, lots, issued, acked>>
call == <<request, waiting, reply, late, issued, acked>>

Levels == [sl : Int, tp : Int]
Request == [id : Nat \ {0}, qty : Int, ref : Int, slPts : Int, tpPts : Int, levels : Levels]
Lot == [order : Request, fill : Int, stop : Int, target : Int]

-----------------------------------------------------------------------------
(***************************************************************************)
(* The feed. leer stamps _ultimo_ok as soon as it has a quote; if the rest *)
(* cannot be parsed it returns None, and the feed counts as alive.         *)
(***************************************************************************)
Reads ==
  \/ alive' = TRUE    \* a snapshot, or None after the stamp
  \/ UNCHANGED alive  \* None: HTTP status, no quote, no connection, no JSON

\* inicializar returns True whatever /health says.
Connect ==
  /\ connected' = TRUE
  /\ Reads
  /\ UNCHANGED <<dryRun, mid, call, lots>>

Disconnect ==
  /\ ~waiting
  /\ connected' = FALSE
  /\ UNCHANGED <<dryRun, alive, mid, call, lots>>

LatestSnapshot ==
  /\ ~waiting
  /\ Reads
  /\ UNCHANGED <<dryRun, connected, mid, call, lots>>

Stale ==
  /\ alive
  /\ alive' = FALSE
  /\ UNCHANGED <<dryRun, connected, mid, call, lots>>

-----------------------------------------------------------------------------
(***************************************************************************)
(* submit_market. The snapshot's mid is the reference; a distance has no   *)
(* sign, and one of zero is refused.                                       *)
(***************************************************************************)
Pts(a, b) == IF a >= b THEN a - b ELSE b - a

\* Mutant: a distance of zero goes through.
AnyBracket(order) == TRUE

ValidBracket(order) == order.slPts > 0 /\ order.tpPts > 0

\* Mutant: the two distances are swapped.
BuildOrderSwapped(qty, levels) ==
  [id |-> issued + 1, qty |-> qty, ref |-> mid,
   slPts |-> Pts(levels.tp, mid), tpPts |-> Pts(mid, levels.sl), levels |-> levels]

BuildOrder(qty, levels) ==
  [id |-> issued + 1, qty |-> qty, ref |-> mid,
   slPts |-> Pts(mid, levels.sl), tpPts |-> Pts(levels.tp, mid), levels |-> levels]

\* Without a snapshot, or with a distance of zero, the order is refused and
\* nothing has changed but the feed. A dry run is told that it was accepted.
SubmitMarket(qty, levels) ==
  /\ connected
  /\ ~waiting
  /\ issued < MaxOrders
  /\ alive' = TRUE
  /\ LET order == BuildOrder(qty, levels) IN
       /\ ValidBracket(order)
       /\ issued' = issued + 1
       /\ \/ /\ dryRun
             /\ acked' = acked \cup {order.id}
             /\ UNCHANGED <<request, waiting>>
          \/ /\ ~dryRun
             /\ request' = order
             /\ waiting' = TRUE
             /\ UNCHANGED acked
  /\ UNCHANGED <<dryRun, connected, mid, reply, late, lots>>

\* enviar_orden returns: accepted on an answer that does not say "ok": false.
\* That a bridge which answers 200 without it has executed the order is assumed
\* of it. After a timeout an order that the bridge has not handled is left behind.
\* Mutant: no answer counts as accepted.
AcceptedUnlessRefused == reply \in {"ok", "none"}

Accepted == reply = "ok"

\* Mutant: an order that timed out is left at the bridge twice.
OrderReturnsKeepsRequest ==
  /\ waiting
  /\ waiting' = FALSE
  /\ acked' = IF Accepted THEN acked \cup {issued} ELSE acked
  /\ late' = IF request = NoRequest THEN late ELSE late \cup {request}
  /\ reply' = "none"
  /\ UNCHANGED <<dryRun, connected, alive, mid, request, lots, issued>>

OrderReturns ==
  /\ waiting
  /\ waiting' = FALSE
  /\ acked' = IF Accepted THEN acked \cup {issued} ELSE acked
  /\ late' = IF request = NoRequest THEN late ELSE late \cup {request}
  /\ request' = NoRequest
  /\ reply' = "none"
  /\ UNCHANGED <<dryRun, connected, alive, mid, lots, issued>>

\* cancel_all and flatten_all are the same request, and a dry run sends it as
\* well. The bridge may not get it, or its answer may be lost.
FlattenAll ==
  /\ ~waiting
  /\ lots' \in {lots, {}}
  /\ UNCHANGED <<dryRun, connected, alive, mid, call>>

-----------------------------------------------------------------------------
(***************************************************************************)
(* The bridge and the market.                                              *)
(***************************************************************************)
\* The bracket is put around the fill, on the sides of a long or a short.
Filled(order) ==
  [order |-> order, fill |-> mid,
   stop |-> IF order.qty > 0 THEN mid - order.slPts ELSE mid + order.slPts,
   target |-> IF order.qty > 0 THEN mid + order.tpPts ELSE mid - order.tpPts]

Guards(lot, price) ==
  IF lot.order.qty > 0 THEN lot.stop < price /\ price < lot.target
  ELSE lot.target < price /\ price < lot.stop

BridgeHandles ==
  /\ request # NoRequest
  /\ request' = NoRequest
  /\ \/ /\ lots' = lots \cup {Filled(request)}
        /\ reply' \in {"ok", "refused"}
     \/ /\ reply' = "refused"
        /\ UNCHANGED lots
  /\ UNCHANGED <<dryRun, connected, alive, mid, waiting, late, issued, acked>>

BridgeHandlesLate ==
  /\ \E order \in late :
       /\ late' = late \ {order}
       /\ lots' \in {lots, lots \cup {Filled(order)}}
  /\ UNCHANGED <<dryRun, connected, alive, mid, request, waiting, reply, issued, acked>>

\* The market moves, and closes the lots whose level it reaches.
MarketMoves ==
  /\ mid' \in Prices
  /\ lots' = {lot \in lots : Guards(lot, mid')}
  /\ UNCHANGED <<dryRun, connected, alive, call>>

Init ==
  /\ dryRun \in BOOLEAN
  /\ connected = FALSE
  /\ alive = FALSE
  /\ mid \in Prices
  /\ request = NoRequest
  /\ waiting = FALSE
  /\ reply = "none"
  /\ late = {}
  /\ lots = {}
  /\ issued = 0
  /\ acked = {}

Submit ==
  \E side \in {1, -1}, qty \in Quantities, sl, tp \in Prices :
    SubmitMarket(side * qty, [sl |-> sl, tp |-> tp])

Next ==
  \/ Connect \/ Disconnect \/ LatestSnapshot \/ Stale
  \/ Submit \/ OrderReturns \/ FlattenAll
  \/ BridgeHandles \/ BridgeHandlesLate \/ MarketMoves

Spec == Init /\ [][Next]_vars

-----------------------------------------------------------------------------
(***************************************************************************)
(* Properties.                                                             *)
(***************************************************************************)

\* The adapter's and the account's variables have their types, and orders are
\* numbered once.
BridgeTypeOK ==
  /\ dryRun \in BOOLEAN /\ connected \in BOOLEAN /\ alive \in BOOLEAN /\ waiting \in BOOLEAN
  /\ mid \in Int
  /\ request \in Request \cup {NoRequest}
  /\ reply \in {"none", "ok", "refused"}
  /\ late \subseteq Request
  /\ lots \subseteq Lot
  /\ issued \in Nat
  /\ acked \subseteq 1 .. issued

AsOrder(order) == [id |-> order.id, symbol |-> Symbol, qty |-> order.qty]
InFlight == IF request = NoRequest THEN late ELSE late \cup {request}

Contract == INSTANCE Broker WITH
  Symbols <- {Symbol},
  asked <- {AsOrder(order) : order \in InFlight},
  lots <- {AsOrder(lot.order) : lot \in lots}

\* The Quantower broker is a broker: an order that timed out may still fill
\* later, but each fills at most once, and nothing but an order opens a lot.
ImplementsBroker == Contract!BrokerSpec

\* However the market moved between the signal, the snapshot and the fill,
\* every lot of the account has a stop on the side where it loses and a target
\* on the side where it wins, neither at the fill nor at the market.
LotsAreGuarded ==
  \A lot \in lots : Guards(lot, lot.fill) /\ Guards(lot, mid)

\* "with bracket SL/TP at PRICE levels (not points)" (quantower/broker.py:103):
\* the levels of a lot are the signal's, moved by what the market moved between
\* the snapshot and the fill, provided that the snapshot was between them. If
\* the market had run past the stop or the target, the lot is guarded at levels
\* that no signal named.
BracketMovesWithFill ==
  \A lot \in lots :
    LET order == lot.order
        asked == [lot EXCEPT !.stop = order.levels.sl, !.target = order.levels.tp]
    IN  Guards(asked, order.ref) =>
          /\ lot.stop - order.levels.sl = lot.fill - order.ref
          /\ lot.target - order.levels.tp = lot.fill - order.ref

\* An order the runner was told is accepted has been filled, unless the run is
\* a dry one: it does not wait anywhere to fill later.
AcceptedIsSettled ==
  \A order \in InFlight : order.id \notin acked
=============================================================================
