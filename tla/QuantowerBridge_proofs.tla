----------------------- MODULE QuantowerBridge_proofs -----------------------
(***************************************************************************)
(* The Quantower adapter: its lots are guarded whatever the market does    *)
(* between snapshot and fill, what it acknowledged does not wait anywhere, *)
(* and it implements the contract of Broker.                               *)
(***************************************************************************)
EXTENDS QuantowerBridge, TLAPS

\* An order the adapter has built: it names what it was built from.
Built(order) ==
  /\ order \in Request
  /\ order.qty # 0
  /\ ValidBracket(order)
  /\ order.slPts = Pts(order.ref, order.levels.sl)
  /\ order.tpPts = Pts(order.levels.tp, order.ref)

\* A lot the bridge has filled.
Bracketed(lot) ==
  /\ lot \in Lot
  /\ Built(lot.order)
  /\ lot.stop = IF lot.order.qty > 0 THEN lot.fill - lot.order.slPts
                ELSE lot.fill + lot.order.slPts
  /\ lot.target = IF lot.order.qty > 0 THEN lot.fill + lot.order.tpPts
                  ELSE lot.fill - lot.order.tpPts

OrdersBuilt ==
  /\ mid \in Int
  /\ request # NoRequest => Built(request)
  /\ \A order \in late : Built(order)
  /\ \A lot \in lots : Bracketed(lot) /\ Guards(lot, mid)

\* An order is in one place: waited for, or left behind under its own number,
\* which nobody was told is accepted.
Numbered ==
  /\ issued \in Nat
  /\ acked \subseteq 1 .. issued
  /\ ~waiting => request = NoRequest /\ reply = "none"
  /\ request # NoRequest => waiting /\ request.id = issued /\ reply = "none"
  /\ waiting => issued # 0 /\ issued \notin acked /\ \A order \in late : order.id # issued
  /\ \A order \in late : order.id \in 1 .. issued /\ order.id \notin acked
  /\ \A a, b \in late : a.id = b.id => a = b

BridgeInv == OrdersBuilt /\ Numbered

-----------------------------------------------------------------------------
LEMMA BuiltOrder ==
  ASSUME OrdersBuilt, Numbered, NEW qty \in Int \ {0}, NEW levels \in Levels,
         ValidBracket(BuildOrder(qty, levels))
  PROVE  Built(BuildOrder(qty, levels)) /\ BuildOrder(qty, levels).id = issued + 1
<1> DEFINE order == BuildOrder(qty, levels)
<1>1. levels.sl \in Int /\ levels.tp \in Int /\ mid \in Int /\ issued + 1 \in Nat \ {0}
  BY DEF Levels, OrdersBuilt, Numbered
<1>2. Pts(mid, levels.sl) \in Int /\ Pts(levels.tp, mid) \in Int
  BY <1>1 DEF Pts
<1>3. order = [id |-> issued + 1, qty |-> qty, ref |-> mid, slPts |-> Pts(mid, levels.sl),
               tpPts |-> Pts(levels.tp, mid), levels |-> levels]
  BY DEF BuildOrder
<1> HIDE DEF order
<1>4. order \in Request
  BY <1>1, <1>2, <1>3 DEF Request
<1> QED
  BY <1>3, <1>4 DEF Built, order

LEMMA FilledIsBracketed ==
  ASSUME mid \in Int, NEW order, Built(order)
  PROVE  Bracketed(Filled(order)) /\ Guards(Filled(order), mid) /\ Filled(order).order = order
<1>1. /\ order.slPts \in Int /\ order.slPts > 0 /\ order.tpPts \in Int /\ order.tpPts > 0
      /\ order.qty \in Int /\ order \in Request
  BY DEF Built, ValidBracket, Request
<1> DEFINE lot == Filled(order)
<1>2. /\ lot.order = order /\ lot.fill = mid
      /\ lot.stop = IF order.qty > 0 THEN mid - order.slPts ELSE mid + order.slPts
      /\ lot.target = IF order.qty > 0 THEN mid + order.tpPts ELSE mid - order.tpPts
  BY DEF Filled
<1>3. lot \in Lot
  BY <1>1 DEF Filled, Lot
<1> HIDE DEF lot
<1> QED
  BY <1>1, <1>2, <1>3 DEF Bracketed, Guards, lot

LEMMA OrdersBuiltStep ==
  ASSUME BridgeInv, BridgeAssumption, [Next]_vars
  PROVE  OrdersBuilt'
<1> USE DEF BridgeInv
<1>1. CASE Connect \/ Disconnect \/ LatestSnapshot \/ Stale \/ UNCHANGED vars
  BY <1>1 DEF Connect, Disconnect, LatestSnapshot, Stale, vars, call, OrdersBuilt, Built,
              ValidBracket, Bracketed, Guards
<1>2. CASE Submit
  <2>1. PICK side \in {1, -1}, q \in Quantities, sl \in Prices, tp \in Prices :
          SubmitMarket(side * q, [sl |-> sl, tp |-> tp])
    BY <1>2 DEF Submit
  <2> DEFINE qty == side * q
             levels == [sl |-> sl, tp |-> tp]
  <2>2. qty \in Int \ {0} /\ levels \in Levels
    BY DEF BridgeAssumption, Levels
  <2> HIDE DEF qty, levels
  <2>3. /\ ValidBracket(BuildOrder(qty, levels))
        /\ request' = request \/ request' = BuildOrder(qty, levels)
        /\ mid' = mid /\ late' = late /\ lots' = lots
    BY <2>1 DEF SubmitMarket, qty, levels
  <2>4. Built(BuildOrder(qty, levels))
    BY <2>2, <2>3, BuiltOrder
  <2> QED
    BY <2>3, <2>4 DEF OrdersBuilt
<1>3. CASE OrderReturns
  BY <1>3 DEF OrderReturns, OrdersBuilt
<1>4. CASE FlattenAll
  BY <1>4 DEF FlattenAll, call, OrdersBuilt
<1>5. CASE BridgeHandles
  BY <1>5, FilledIsBracketed DEF BridgeHandles, OrdersBuilt
<1>6. CASE BridgeHandlesLate
  BY <1>6, FilledIsBracketed DEF BridgeHandlesLate, OrdersBuilt
<1>7. CASE MarketMoves
  <2>1. mid' \in Int /\ lots' \subseteq lots /\ \A lot \in lots' : Guards(lot, mid')
    BY <1>7 DEF MarketMoves, BridgeAssumption
  <2>2. request' = request /\ late' = late
    BY <1>7 DEF MarketMoves, call
  <2> QED
    BY <2>1, <2>2 DEF OrdersBuilt
<1> QED
  BY <1>1, <1>2, <1>3, <1>4, <1>5, <1>6, <1>7 DEF Next

LEMMA NumberedStep ==
  ASSUME BridgeInv, BridgeAssumption, [Next]_vars
  PROVE  Numbered'
<1> USE DEF BridgeInv
<1>1. CASE Connect \/ Disconnect \/ LatestSnapshot \/ Stale \/ UNCHANGED vars
  <2>1. UNCHANGED call
    BY <1>1 DEF Connect, Disconnect, LatestSnapshot, Stale, vars, call
  <2> QED
    BY <2>1 DEF call, Numbered
<1>2. CASE Submit
  <2>1. PICK side \in {1, -1}, q \in Quantities, sl \in Prices, tp \in Prices :
          SubmitMarket(side * q, [sl |-> sl, tp |-> tp])
    BY <1>2 DEF Submit
  <2> DEFINE order == BuildOrder(side * q, [sl |-> sl, tp |-> tp])
  <2>2. order.id = issued + 1
    BY DEF BuildOrder
  <2> HIDE DEF order
  <2>3. /\ ~waiting /\ issued' = issued + 1
        /\ UNCHANGED <<reply, late>>
        /\ \/ acked' = acked \cup {order.id} /\ UNCHANGED <<request, waiting>>
           \/ request' = order /\ waiting' = TRUE /\ UNCHANGED acked
    BY <2>1 DEF SubmitMarket, order
  <2>4. issued \in Nat /\ order.id = issued + 1 /\ order.id \notin acked
    BY <2>2 DEF Numbered
  <2>5. \A x \in late : x.id \in 1 .. issued /\ x.id \notin acked /\ x.id # order.id
    BY <2>4 DEF Numbered
  <2>6. CASE acked' = acked \cup {order.id} /\ UNCHANGED <<request, waiting>>
    BY <2>3, <2>4, <2>5, <2>6 DEF Numbered
  <2>7. CASE request' = order /\ waiting' = TRUE /\ UNCHANGED acked
    BY <2>3, <2>4, <2>5, <2>7 DEF Numbered
  <2> QED
    BY <2>3, <2>6, <2>7
<1>3. CASE OrderReturns
  <2>1. /\ waiting /\ waiting' = FALSE /\ request' = NoRequest /\ reply' = "none"
        /\ issued' = issued
    BY <1>3 DEF OrderReturns
  <2>2. CASE request = NoRequest
    <3>1. late' = late /\ acked' \subseteq acked \cup {issued}
      BY <1>3, <2>2 DEF OrderReturns
    <3> QED
      BY <2>1, <3>1 DEF Numbered
  <2>3. CASE request # NoRequest
    <3>1. /\ request.id = issued /\ reply = "none" /\ request.id \in Nat \ {0}
          /\ late' = late \cup {request}
      BY <1>3, <2>3 DEF OrderReturns, Numbered, OrdersBuilt, Built, Request
    <3>2. acked' = acked
      BY <1>3, <3>1 DEF OrderReturns, Accepted
    <3> QED
      BY <2>1, <3>1, <3>2 DEF Numbered
  <2> QED
    BY <2>2, <2>3
<1>4. CASE FlattenAll
  BY <1>4 DEF FlattenAll, call, Numbered
<1>5. CASE BridgeHandles
  BY <1>5 DEF BridgeHandles, Numbered
<1>6. CASE BridgeHandlesLate
  BY <1>6 DEF BridgeHandlesLate, Numbered
<1>7. CASE MarketMoves
  BY <1>7 DEF MarketMoves, call, Numbered
<1> QED
  BY <1>1, <1>2, <1>3, <1>4, <1>5, <1>6, <1>7 DEF Next

\* The inductive invariant.
THEOREM BridgeInvariant == Spec => []BridgeInv
<1>1. Init => BridgeInv
  BY BridgeAssumption DEF Init, BridgeInv, OrdersBuilt, Numbered, BridgeAssumption
<1>2. BridgeInv /\ [Next]_vars => BridgeInv'
  BY OrdersBuiltStep, NumberedStep, BridgeAssumption DEF BridgeInv
<1> QED
  BY <1>1, <1>2, PTL DEF Spec

-----------------------------------------------------------------------------
\* Every lot has its stop where it loses and its target where it wins, for
\* every market, every bracket submitted and any delay of an order.
THEOREM LotsStayGuarded == Spec => []LotsAreGuarded
<1>1. BridgeInv => LotsAreGuarded
  <2> SUFFICES ASSUME BridgeInv, NEW lot \in lots
               PROVE  Guards(lot, lot.fill) /\ Guards(lot, mid)
    BY DEF LotsAreGuarded
  <2>1. Bracketed(lot) /\ Guards(lot, mid)
    BY DEF BridgeInv, OrdersBuilt
  <2>2. /\ lot.fill \in Int
        /\ lot.order.slPts \in Int /\ lot.order.slPts > 0
        /\ lot.order.tpPts \in Int /\ lot.order.tpPts > 0
    BY <2>1 DEF Bracketed, Built, ValidBracket, Lot, Request
  <2> QED
    BY <2>1, <2>2 DEF Bracketed, Guards
<1> QED
  BY <1>1, BridgeInvariant, PTL

\* A lot's levels are the signal's moved by the move between snapshot and fill
\* whenever the snapshot was between them.
THEOREM BracketsMoveWithFills == Spec => []BracketMovesWithFill
<1>1. BridgeInv => BracketMovesWithFill
  <2> SUFFICES ASSUME BridgeInv, NEW lot \in lots,
                      Guards([lot EXCEPT !.stop = lot.order.levels.sl,
                                         !.target = lot.order.levels.tp], lot.order.ref)
               PROVE  /\ lot.stop - lot.order.levels.sl = lot.fill - lot.order.ref
                      /\ lot.target - lot.order.levels.tp = lot.fill - lot.order.ref
    BY DEF BracketMovesWithFill
  <2> DEFINE order == lot.order
             sl == order.levels.sl
             tp == order.levels.tp
             asked == [lot EXCEPT !.stop = sl, !.target = tp]
  <2>1. Bracketed(lot)
    BY DEF BridgeInv, OrdersBuilt
  <2>2. /\ lot.fill \in Int /\ order.ref \in Int /\ sl \in Int /\ tp \in Int
        /\ order.qty \in Int
        /\ order.slPts = Pts(order.ref, sl) /\ order.tpPts = Pts(tp, order.ref)
    BY <2>1 DEF Bracketed, Built, Lot, Request, Levels
  <2>3. asked.order = order /\ asked.stop = sl /\ asked.target = tp
    BY <2>1 DEF Bracketed, Lot
  <2>4. IF order.qty > 0 THEN sl < order.ref /\ order.ref < tp
        ELSE tp < order.ref /\ order.ref < sl
    BY <2>3 DEF Guards
  <2>5. /\ lot.stop = IF order.qty > 0 THEN lot.fill - order.slPts ELSE lot.fill + order.slPts
        /\ lot.target = IF order.qty > 0 THEN lot.fill + order.tpPts ELSE lot.fill - order.tpPts
    BY <2>1 DEF Bracketed
  <2> HIDE DEF order, sl, tp, asked
  <2>6. /\ lot.stop - sl = lot.fill - order.ref
        /\ lot.target - tp = lot.fill - order.ref
    BY <2>2, <2>4, <2>5 DEF Pts
  <2> QED
    BY <2>6 DEF order, sl, tp
<1> QED
  BY <1>1, BridgeInvariant, PTL

\* What was acknowledged as accepted waits nowhere to be filled later.
THEOREM AcceptedOrdersSettle == Spec => []AcceptedIsSettled
<1>1. BridgeInv => AcceptedIsSettled
  BY DEF BridgeInv, Numbered, AcceptedIsSettled, InFlight
<1> QED
  BY <1>1, BridgeInvariant, PTL

-----------------------------------------------------------------------------
(***************************************************************************)
(* The refinement.                                                         *)
(***************************************************************************)
Asked == {AsOrder(order) : order \in InFlight}
Lots == {AsOrder(lot.order) : lot \in lots}

LEMMA NumbersDiffer ==
  ASSUME BridgeInv, NEW a \in InFlight, NEW b \in InFlight, a # b
  PROVE  AsOrder(a) # AsOrder(b)
BY DEF BridgeInv, Numbered, InFlight, AsOrder

\* The order leaves the bridge's hands: it is filled, or refused.
LEMMA OrderHandled ==
  ASSUME BridgeInv, NEW order \in InFlight, Built(order),
         InFlight' = InFlight \ {order},
         lots' = lots \/ lots' = lots \cup {Filled(order)},
         UNCHANGED <<connected, issued>>
  PROVE  Contract!Execute \/ Contract!Reject
<1> DEFINE o == AsOrder(order)
<1>1. Asked' = Asked \ {o} /\ o \in Asked
  <2>1. \A x \in InFlight : x # order => AsOrder(x) # o
    BY NumbersDiffer
  <2>2. Asked' = {AsOrder(x) : x \in InFlight \ {order}}
    BY DEF Asked, AsOrder
  <2> QED
    BY <2>1, <2>2 DEF Asked
<1>2. Lots' = Lots \/ Lots' = Lots \cup {o}
  <2>1. CASE lots' = lots
    BY <2>1 DEF Lots, AsOrder
  <2>2. CASE lots' = lots \cup {Filled(order)}
    <3>1. Filled(order).order = order
      BY DEF Filled
    <3> QED
      BY <2>2, <3>1 DEF Lots, AsOrder
  <2> QED
    BY <2>1, <2>2
<1> HIDE DEF o
<1>3. CASE Lots' = Lots
  BY <1>1, <1>3 DEF Contract!Reject, Asked, Lots
<1>4. CASE Lots' = Lots \cup {o}
  BY <1>1, <1>4 DEF Contract!Execute, Asked, Lots
<1> QED
  BY <1>2, <1>3, <1>4

LEMMA FewerLots ==
  ASSUME lots' \subseteq lots, UNCHANGED <<request, late, connected, issued>>
  PROVE  Contract!Exit
<1>1. Lots' \subseteq Lots
  BY DEF Lots, AsOrder
<1>2. Asked' = Asked
  BY DEF Asked, InFlight, AsOrder
<1> QED
  BY <1>1, <1>2 DEF Contract!Exit, Asked, Lots

LEMMA StepIsContractStep ==
  ASSUME BridgeInv, BridgeAssumption, [Next]_vars
  PROVE  [Contract!BrokerNext]_(Contract!brokerVars)
<1>1. CASE LatestSnapshot \/ Stale \/ UNCHANGED vars
  <2>1. UNCHANGED <<connected, request, late, lots, issued>>
    BY <1>1 DEF LatestSnapshot, Stale, vars, call
  <2> QED
    BY <2>1, FewerLots DEF Contract!BrokerNext
<1>2. CASE Connect \/ Disconnect
  <2>1. UNCHANGED <<request, late, lots, issued>> /\ connected' \in {TRUE, FALSE}
    BY <1>2 DEF Connect, Disconnect, call
  <2>2. Asked' = Asked /\ Lots' = Lots
    BY <2>1 DEF Asked, Lots, InFlight, AsOrder
  <2> QED
    BY <1>2, <2>1, <2>2 DEF Connect, Disconnect, Contract!Connect, Contract!Disconnect,
                            Contract!BrokerNext, Asked, Lots
<1>3. CASE Submit
  <2>1. PICK side \in {1, -1}, q \in Quantities, sl \in Prices, tp \in Prices :
          SubmitMarket(side * q, [sl |-> sl, tp |-> tp])
    BY <1>3 DEF Submit
  <2> DEFINE qty == side * q
             levels == [sl |-> sl, tp |-> tp]
             order == BuildOrder(qty, levels)
             o == AsOrder(order)
  <2>2. qty \in Int \ {0} /\ levels \in Levels
    BY DEF BridgeAssumption, Levels
  <2>3. /\ connected /\ connected' = connected /\ ~waiting
        /\ issued' = issued + 1 /\ late' = late /\ lots' = lots
        /\ request' = request \/ request' = order
        /\ ValidBracket(order)
    BY <2>1 DEF SubmitMarket
  <2> HIDE DEF qty, levels
  <2>4. Built(order) /\ order.id = issued + 1
    BY <2>2, <2>3, BuiltOrder DEF BridgeInv
  <2>5. Lots' = Lots
    BY <2>3 DEF Lots, AsOrder
  <2>6. o \in Contract!Order /\ o.id = issued'
    BY <2>3, <2>4 DEF AsOrder, Built, Request, Contract!Order
  <2>7. CASE request' = request
    <3>1. Asked' = Asked
      BY <2>3, <2>7 DEF Asked, InFlight, AsOrder
    <3> QED
      BY <2>3, <2>5, <3>1 DEF Contract!Submit, Contract!BrokerNext, Asked, Lots
  <2>8. CASE request' = order
    <3>1. request = NoRequest
      BY <2>3 DEF BridgeInv, Numbered
    <3>2. Asked' = Asked \/ Asked' = Asked \cup {o}
      <4> HIDE DEF order
      <4> QED
        BY <2>3, <2>8, <3>1 DEF Asked, InFlight, AsOrder
    <3> HIDE DEF o
    <3>3. CASE Asked' = Asked
      BY <2>3, <2>5, <3>3 DEF Contract!Submit, Contract!BrokerNext, Asked, Lots
    <3>4. CASE Asked' = Asked \cup {o}
      <4>1. Contract!Adds(Asked', Asked, issued')
        BY <2>6, <3>4 DEF Contract!Adds
      <4> QED
        BY <2>3, <2>5, <4>1 DEF Contract!Submit, Contract!BrokerNext, Asked, Lots
    <3> QED
      BY <3>2, <3>3, <3>4
  <2> QED
    BY <2>3, <2>7, <2>8
<1>4. CASE OrderReturns
  <2>1. InFlight' = InFlight /\ UNCHANGED <<connected, lots, issued>>
    BY <1>4 DEF OrderReturns, InFlight
  <2>2. Asked' = Asked /\ Lots' = Lots
    BY <2>1 DEF Asked, Lots, AsOrder
  <2> QED
    BY <2>1, <2>2 DEF Contract!brokerVars, Asked, Lots
<1>5. CASE FlattenAll
  <2>1. lots' \subseteq lots /\ UNCHANGED <<request, late, connected, issued>>
    BY <1>5 DEF FlattenAll, call
  <2> QED
    BY <2>1, FewerLots DEF Contract!BrokerNext
<1>6. CASE BridgeHandles
  <2>1. /\ request # NoRequest /\ request \in InFlight /\ Built(request)
        /\ request \notin late
    BY <1>6 DEF BridgeHandles, InFlight, BridgeInv, OrdersBuilt, Numbered
  <2>2. InFlight' = InFlight \ {request}
    BY <1>6, <2>1 DEF BridgeHandles, InFlight
  <2>3. /\ lots' = lots \/ lots' = lots \cup {Filled(request)}
        /\ UNCHANGED <<connected, issued>>
    BY <1>6 DEF BridgeHandles
  <2> QED
    BY <2>1, <2>2, <2>3, OrderHandled DEF Contract!BrokerNext
<1>7. CASE BridgeHandlesLate
  <2>1. PICK order \in late : /\ late' = late \ {order}
                              /\ lots' = lots \/ lots' = lots \cup {Filled(order)}
    BY <1>7 DEF BridgeHandlesLate
  <2>2. /\ order \in InFlight /\ Built(order)
        /\ request # NoRequest => order # request
    BY DEF InFlight, BridgeInv, OrdersBuilt, Numbered
  <2>3. InFlight' = InFlight \ {order} /\ UNCHANGED <<connected, issued>>
    BY <1>7, <2>1, <2>2 DEF BridgeHandlesLate, InFlight
  <2> QED
    BY <2>1, <2>2, <2>3, OrderHandled DEF Contract!BrokerNext
<1>8. CASE MarketMoves
  <2>1. lots' \subseteq lots /\ UNCHANGED <<request, late, connected, issued>>
    BY <1>8 DEF MarketMoves, call
  <2> QED
    BY <2>1, FewerLots DEF Contract!BrokerNext
<1> QED
  BY <1>1, <1>2, <1>3, <1>4, <1>5, <1>6, <1>7, <1>8 DEF Next

\* Every behaviour of the Quantower adapter and its bridge is one the contract
\* allows, with orders that time out and are filled late.
THEOREM BridgeImplementsBroker == Spec => ImplementsBroker
<1>1. Init => Contract!Fresh
  BY DEF Init, Contract!Fresh, InFlight
<1>2. BridgeInv /\ [Next]_vars => [Contract!BrokerNext]_(Contract!brokerVars)
  BY StepIsContractStep, BridgeAssumption
<1> QED
  BY BridgeInvariant, <1>1, <1>2, PTL DEF Spec, ImplementsBroker, Contract!BrokerSpec

-----------------------------------------------------------------------------
(***************************************************************************)
(* What a caller may conclude from the contract.                           *)
(***************************************************************************)
\* Numbers are given out once, in increasing order.
ContractInv ==
  /\ issued \in Nat
  /\ \A o \in Lots \cup Asked : o.id \in 1 .. issued
  /\ Lots \cap Asked = {}
  /\ \A o, p \in Lots \cup Asked : o.id = p.id => o = p

\* Only a submission gives a number out, and no other order has it; whatever
\* else the contract allows moves an order or lets it go.
LEMMA ContractStep ==
  ContractInv /\ [Contract!BrokerNext]_(Contract!brokerVars) => ContractInv'
<1> SUFFICES ASSUME ContractInv, [Contract!BrokerNext]_(Contract!brokerVars) PROVE ContractInv'
  OBVIOUS
<1> USE DEF ContractInv
<1>1. CASE Contract!Connect \/ Contract!Disconnect \/ UNCHANGED Contract!brokerVars
  <2>1. UNCHANGED <<issued, Asked, Lots>>
    BY <1>1 DEF Contract!Connect, Contract!Disconnect, Contract!brokerVars, Asked, Lots
  <2> QED  BY <2>1
<1>2. CASE Contract!Submit
  <2>1. issued' = issued + 1 /\ issued' \in Nat
    BY <1>2 DEF Contract!Submit
  <2>2. CASE Contract!Adds(Lots', Lots, issued') /\ Asked' = Asked
    <3>1. PICK o \in Lots' : o.id = issued' /\ Lots' = Lots \cup {o}
      BY <2>2 DEF Contract!Adds
    <3>2. \A p \in Lots \cup Asked : p.id # o.id
      BY <2>1, <3>1
    <3> QED  BY <2>1, <2>2, <3>1, <3>2
  <2>3. CASE Contract!Adds(Asked', Asked, issued') /\ Lots' = Lots
    <3>1. PICK o \in Asked' : o.id = issued' /\ Asked' = Asked \cup {o}
      BY <2>3 DEF Contract!Adds
    <3>2. \A p \in Lots \cup Asked : p.id # o.id
      BY <2>1, <3>1
    <3> QED  BY <2>1, <2>3, <3>1, <3>2
  <2>4. CASE UNCHANGED <<Asked, Lots>>
    BY <2>1, <2>4
  <2> QED  BY <1>2, <2>2, <2>3, <2>4 DEF Contract!Submit, Asked, Lots
<1>3. CASE Contract!Execute
  <2>1. PICK o \in Asked : Asked' = Asked \ {o} /\ Lots' = Lots \cup {o}
    BY <1>3 DEF Contract!Execute, Asked, Lots
  <2>2. issued' = issued
    BY <1>3 DEF Contract!Execute
  <2> QED  BY <2>1, <2>2
<1>4. CASE Contract!Reject
  <2>1. PICK o \in Asked : Asked' = Asked \ {o}
    BY <1>4 DEF Contract!Reject, Asked
  <2>2. UNCHANGED <<issued, Lots>>
    BY <1>4 DEF Contract!Reject, Lots
  <2> QED  BY <2>1, <2>2
<1>5. CASE Contract!Exit
  <2>1. Lots' \subseteq Lots /\ UNCHANGED <<issued, Asked>>
    BY <1>5 DEF Contract!Exit, Lots, Asked
  <2> QED  BY <2>1
<1> QED
  BY <1>1, <1>2, <1>3, <1>4, <1>5 DEF Contract!BrokerNext

\* No order stands for two lots, and none waits to be filled that has been:
\* also with timeouts, and whatever the bridge does late. The proof rests on
\* the contract alone, so it holds of every broker that implements it.
THEOREM BridgeExecutesOnce == Spec => []Contract!OneLotPerOrder
<1>1. Contract!Fresh => ContractInv
  BY DEF Contract!Fresh, ContractInv, Asked, Lots
<1>2. ContractInv => Contract!OneLotPerOrder
  BY DEF ContractInv, Contract!OneLotPerOrder, Asked, Lots
<1>3. Contract!BrokerSpec => []ContractInv
  BY <1>1, ContractStep, PTL DEF Contract!BrokerSpec
<1> QED
  BY BridgeImplementsBroker, <1>2, <1>3, PTL DEF ImplementsBroker
=============================================================================
