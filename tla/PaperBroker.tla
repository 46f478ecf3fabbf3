---------------------------- MODULE PaperBroker ----------------------------
(***************************************************************************)
(* execution/paper_broker.py: the in-memory broker. One position for each  *)
(* symbol, filled at the last price fed, with a bracket that the next      *)
(* prices are compared with. Prices are whole ticks, money whole units.    *)
(***************************************************************************)
EXTENDS Integers, FiniteSets, Functions

CONSTANTS
  Symbols,
  StartingEquity, Commission, SlippageTicks, TickValue,
  Prices,      \* the prices fed
  Quantities,  \* the sizes submitted: size_position's, never 0
  MaxOrders    \* bound: orders accepted

ASSUME PaperAssumption ==
  /\ IsFiniteSet(Symbols)
  /\ StartingEquity \in Int
  /\ Commission \in Nat
  /\ SlippageTicks \in Nat
  /\ TickValue \in Nat \ {0}
  /\ Prices \subseteq Int
  /\ Quantities \subseteq Nat \ {0}
  /\ MaxOrders \in Nat

VARIABLES
  connected,
  fed,        \* the symbols that have a last price
  last,       \* _last_price
  positions,  \* _positions, with the number of the order that opened each
  brackets,   \* _sl_tp_by_symbol
  equity,
  nextId

paperVars == <<connected, fed, last, positions, brackets, equity, nextId>>

Flat == [qty |-> 0, price |-> 0, id |-> 0]
NoBracket == [armed |-> FALSE, sl |-> 0, tp |-> 0]

Held(s) == positions[s].qty # 0

Magnitude(n) == IF n < 0 THEN -n ELSE n

\* What the move from the fill to a price is worth.
MoveUsd(s, price) == (price - positions[s].price) * TickValue * positions[s].qty

CommissionUsd(s) == 2 * Commission * Magnitude(positions[s].qty)

\* equity_usd: what is held counts at the last price, before commissions.
EquityUsd ==
  equity + SumFunction([s \in {x \in fed : Held(x)} |-> MoveUsd(s, last[s])])

-----------------------------------------------------------------------------
Connect ==
  /\ connected' = TRUE
  /\ UNCHANGED <<fed, last, positions, brackets, equity, nextId>>

Disconnect ==
  /\ connected' = FALSE
  /\ UNCHANGED <<fed, last, positions, brackets, equity, nextId>>

\* _close of every symbol that exits maps to a price.
Close(exits) ==
  /\ positions' = [s \in Symbols |-> IF s \in DOMAIN exits THEN Flat ELSE positions[s]]
  /\ brackets' = [s \in Symbols |-> IF s \in DOMAIN exits THEN NoBracket ELSE brackets[s]]
  /\ equity' = equity + SumFunction(
                 [s \in DOMAIN exits |-> MoveUsd(s, exits[s]) - CommissionUsd(s)])

\* The stop is looked at before the target, and slips.
StopTouched(s, price) ==
  IF positions[s].qty > 0 THEN price <= brackets[s].sl ELSE price >= brackets[s].sl

TargetTouched(s, price) ==
  IF positions[s].qty > 0 THEN price >= brackets[s].tp ELSE price <= brackets[s].tp

Against(s) == IF positions[s].qty > 0 THEN -SlippageTicks ELSE SlippageTicks

BracketExit(s, price) ==
  IF StopTouched(s, price) THEN brackets[s].sl + Against(s) ELSE brackets[s].tp

FeedPrice(s, price) ==
  /\ fed' = fed \cup {s}
  /\ last' = [last EXCEPT ![s] = price]
  /\ IF /\ Held(s) /\ brackets[s].armed
        /\ StopTouched(s, price) \/ TargetTouched(s, price)
     THEN Close([x \in {s} |-> BracketExit(x, price)])
     ELSE UNCHANGED <<positions, brackets, equity>>
  /\ UNCHANGED <<connected, nextId>>

\* Not connected, it raises; with no price or with a position, it rejects.
\* Mutant: a second order on the symbol replaces the first.
SubmitReplaces(s, qty, sl, tp) ==
  /\ connected
  /\ s \in fed
  /\ positions' = [positions EXCEPT ![s] =
       [qty |-> qty, id |-> nextId, price |-> last[s]]]
  /\ brackets' = [brackets EXCEPT ![s] = [armed |-> TRUE, sl |-> sl, tp |-> tp]]
  /\ UNCHANGED <<connected, fed, last, equity, nextId>>

SubmitMarket(s, qty, sl, tp) ==
  /\ connected
  /\ s \in fed
  /\ ~Held(s)
  /\ positions' = [positions EXCEPT ![s] =
       [qty |-> qty, id |-> nextId,
        price |-> last[s] + (IF qty > 0 THEN SlippageTicks ELSE -SlippageTicks)]]
  /\ brackets' = [brackets EXCEPT ![s] = [armed |-> TRUE, sl |-> sl, tp |-> tp]]
  /\ nextId' = nextId + 1
  /\ UNCHANGED <<connected, fed, last, equity>>

\* cancel_all takes the bracket of an open position with it.
CancelAll(which) ==
  /\ brackets' = [s \in Symbols |-> IF s \in which THEN NoBracket ELSE brackets[s]]
  /\ UNCHANGED <<connected, fed, last, positions, equity, nextId>>

\* Mutant: a flatten slips as a stop does.
FlattenAllSlips(which) ==
  /\ Close([s \in {x \in which \cap fed : Held(x)} |-> last[s] + Against(s)])
  /\ UNCHANGED <<connected, fed, last, nextId>>

FlattenAll(which) ==
  /\ Close([s \in {x \in which \cap fed : Held(x)} |-> last[s]])
  /\ UNCHANGED <<connected, fed, last, nextId>>

Init ==
  /\ connected = FALSE
  /\ fed = {}
  /\ last = [s \in Symbols |-> 0]
  /\ positions = [s \in Symbols |-> Flat]
  /\ brackets = [s \in Symbols |-> NoBracket]
  /\ equity = StartingEquity
  /\ nextId = 1

\* A symbol is named, or None stands for all.
Targets == {Symbols} \cup {{s} : s \in Symbols}

Enter ==
  \E s \in Symbols, side \in {1, -1}, qty \in Quantities, sl, tp \in Prices :
    /\ nextId <= MaxOrders
    /\ SubmitMarket(s, side * qty, sl, tp)

Next ==
  \/ Connect
  \/ Disconnect
  \/ \E s \in Symbols, price \in Prices : FeedPrice(s, price)
  \/ Enter
  \/ \E which \in Targets : CancelAll(which)
  \/ \E which \in Targets : FlattenAll(which)

Spec == Init /\ [][Next]_paperVars

-----------------------------------------------------------------------------
(***************************************************************************)
(* Properties.                                                             *)
(***************************************************************************)

\* The broker's dictionaries have the types the code gives them, and only a
\* position has a bracket.
PaperTypeOK ==
  /\ connected \in BOOLEAN
  /\ fed \subseteq Symbols
  /\ last \in [Symbols -> Int]
  /\ positions \in [Symbols -> [qty : Int, price : Int, id : Nat]]
  /\ brackets \in [Symbols -> [armed : BOOLEAN, sl : Int, tp : Int]]
  /\ equity \in Int
  /\ nextId \in Nat \ {0}
  /\ \A s \in Symbols : Held(s) => s \in fed /\ positions[s].id \in 1 .. nextId - 1
  /\ \A s \in Symbols : brackets[s].armed => Held(s)

\* The lots of the contract are the positions held.
Lots ==
  {[id |-> positions[s].id, symbol |-> s, qty |-> positions[s].qty] :
     s \in {x \in Symbols : Held(x)}}

Contract == INSTANCE Broker WITH issued <- nextId - 1, asked <- {}, lots <- Lots

\* The paper broker is a broker: whatever is fed, cancelled or disconnected in
\* between, an accepted order opens one lot, once, and nothing else opens one.
KeepsContract == Contract!BrokerSpec

\* flatten_all turns the estimate of equity_usd into money and nothing more:
\* what was unrealised is realised at the same price, and each position costs
\* its commission on both sides. Nothing is held or guarded by a bracket after.
FlattenRealises ==
  [][FlattenAll(Symbols) =>
       /\ EquityUsd' = EquityUsd
            - SumFunction([s \in {x \in Symbols : Held(x)} |-> CommissionUsd(s)])
       /\ \A s \in Symbols : ~Held(s)' /\ ~brackets'[s].armed]_paperVars
=============================================================================
