------------------------- MODULE PaperBroker_proofs -------------------------
(***************************************************************************)
(* The paper broker implements the contract of Broker, for every set of    *)
(* symbols and of prices, every cost and any number of orders.             *)
(***************************************************************************)
EXTENDS PaperBroker, DataLemmas

\* What the refinement needs of the types: the dictionaries are defined on the
\* symbols, and the number of a position's order has been given out.
Shape ==
  /\ positions \in [Symbols -> [qty : Int, price : Int, id : Nat]]
  /\ last \in [Symbols -> Int]
  /\ brackets \in [Symbols -> [armed : BOOLEAN, sl : Int, tp : Int]]
  /\ nextId \in Nat \ {0}
  /\ \A s \in Symbols : Held(s) => positions[s].id \in 1 .. nextId - 1

LEMMA ShapeInitially == Init => Shape
BY DEF Init, Shape, Flat, NoBracket, Held

LEMMA FewerPositions ==
  ASSUME Shape,
         \A s \in Symbols : Held(s)' => Held(s) /\ positions'[s] = positions[s]
  PROVE  Lots' \subseteq Lots
BY DEF Lots, Held

LEMMA FeedTakesAway ==
  ASSUME Shape, NEW s \in Symbols, NEW price, FeedPrice(s, price)
  PROVE  /\ positions' \in [Symbols -> [qty : Int, price : Int, id : Nat]]
         /\ brackets' \in [Symbols -> [armed : BOOLEAN, sl : Int, tp : Int]]
         /\ \A x \in Symbols : Held(x)' => Held(x) /\ positions'[x] = positions[x]
<1> DEFINE Crossed == /\ Held(s) /\ brackets[s].armed
                      /\ StopTouched(s, price) \/ TargetTouched(s, price)
<1>1. CASE Crossed
  <2>1. Close([x \in {s} |-> BracketExit(x, price)])
    BY <1>1 DEF FeedPrice
  <2>2. /\ positions' = [x \in Symbols |-> IF x \in {s} THEN Flat ELSE positions[x]]
        /\ brackets' = [x \in Symbols |-> IF x \in {s} THEN NoBracket ELSE brackets[x]]
    BY <2>1 DEF Close
  <2> QED
    BY <2>2 DEF Shape, Held, Flat, NoBracket
<1>2. CASE ~Crossed
  BY <1>2 DEF FeedPrice, Shape, Held
<1> QED
  BY <1>1, <1>2

LEMMA FlattenTakesAway ==
  ASSUME Shape, NEW which, FlattenAll(which)
  PROVE  /\ positions' \in [Symbols -> [qty : Int, price : Int, id : Nat]]
         /\ brackets' \in [Symbols -> [armed : BOOLEAN, sl : Int, tp : Int]]
         /\ \A x \in Symbols : Held(x)' => Held(x) /\ positions'[x] = positions[x]
<1> DEFINE closed == {s \in which \cap fed : Held(s)}
<1>1. /\ positions' = [x \in Symbols |-> IF x \in closed THEN Flat ELSE positions[x]]
      /\ brackets' = [x \in Symbols |-> IF x \in closed THEN NoBracket ELSE brackets[x]]
  BY DEF FlattenAll, Close
<1> HIDE DEF closed
<1> QED
  BY <1>1 DEF Shape, Held, Flat, NoBracket

LEMMA SubmitAddsOne ==
  ASSUME Shape, SlippageTicks \in Nat,
         NEW s \in Symbols, NEW qty \in Int \ {0}, NEW sl \in Int, NEW tp \in Int,
         SubmitMarket(s, qty, sl, tp)
  PROVE  /\ Shape'
         /\ Lots' = Lots \cup {[id |-> nextId, symbol |-> s, qty |-> qty]}
<1>1. /\ positions'[s].qty = qty
      /\ positions'[s].id = nextId
      /\ \A x \in Symbols : x # s => positions'[x] = positions[x]
  BY DEF SubmitMarket, Shape
<1>2. positions' \in [Symbols -> [qty : Int, price : Int, id : Nat]]
  BY DEF SubmitMarket, Shape
<1>3. Shape'
  BY <1>1, <1>2 DEF SubmitMarket, Shape, Held
<1>4. /\ Held(s)' /\ ~Held(s)
      /\ \A x \in Symbols : x # s => (Held(x)' <=> Held(x))
  BY <1>1 DEF SubmitMarket, Held
<1>5. Lots' = Lots \cup {[id |-> nextId, symbol |-> s, qty |-> qty]}
  BY <1>1, <1>4 DEF Lots
<1> QED
  BY <1>3, <1>5

LEMMA ShapePreserved ==
  ASSUME Shape, PaperAssumption, [Next]_paperVars
  PROVE  Shape'
<1>1. CASE Connect \/ Disconnect
  BY <1>1 DEF Connect, Disconnect, Shape, Held
<1>2. ASSUME NEW s \in Symbols, NEW price \in Prices, FeedPrice(s, price)
      PROVE  Shape'
  <2>1. last' \in [Symbols -> Int] /\ nextId' = nextId
    BY <1>2 DEF FeedPrice, Shape, PaperAssumption
  <2> QED
    BY <1>2, <2>1, FeedTakesAway DEF Shape
<1>3. CASE Enter
  BY <1>3, SubmitAddsOne DEF Enter, PaperAssumption
<1>4. ASSUME NEW which \in Targets, CancelAll(which)
      PROVE  Shape'
  BY <1>4 DEF CancelAll, Shape, Held, NoBracket
<1>5. ASSUME NEW which \in Targets, FlattenAll(which)
      PROVE  Shape'
  <2>1. last' = last /\ nextId' = nextId
    BY <1>5 DEF FlattenAll
  <2> QED
    BY <1>5, <2>1, FlattenTakesAway DEF Shape
<1>6. CASE UNCHANGED paperVars
  BY <1>6 DEF paperVars, Shape, Held
<1> QED
  BY <1>1, <1>2, <1>3, <1>4, <1>5, <1>6 DEF Next

\* The dictionaries keep their shape.
THEOREM PaperShape == Spec => []Shape
<1>1. Shape /\ [Next]_paperVars => Shape'
  BY ShapePreserved, PaperAssumption
<1> QED
  BY ShapeInitially, <1>1, PTL DEF Spec

LEMMA FreshInitially == Init => Contract!Fresh
BY DEF Init, Contract!Fresh, Lots, Held, Flat

LEMMA StepIsContractStep ==
  ASSUME Shape, PaperAssumption, [Next]_paperVars
  PROVE  [Contract!BrokerNext]_(Contract!brokerVars)
<1>1. CASE Connect
  <2>1. Lots' = Lots
    BY <1>1 DEF Connect, Lots, Held
  <2> QED
    BY <1>1, <2>1 DEF Connect, Contract!Connect, Contract!BrokerNext
<1>2. CASE Disconnect
  <2>1. Lots' = Lots
    BY <1>2 DEF Disconnect, Lots, Held
  <2> QED
    BY <1>2, <2>1 DEF Disconnect, Contract!Disconnect, Contract!BrokerNext
<1>3. ASSUME NEW s \in Symbols, NEW price \in Prices, FeedPrice(s, price)
      PROVE  Contract!BrokerNext
  <2>1. Lots' \subseteq Lots
    BY <1>3, FeedTakesAway, FewerPositions
  <2>2. UNCHANGED <<connected, nextId>>
    BY <1>3 DEF FeedPrice
  <2> QED
    BY <2>1, <2>2 DEF Contract!Exit, Contract!BrokerNext
<1>4. CASE Enter
  <2>1. PICK s \in Symbols, side \in {1, -1}, q \in Quantities, sl \in Prices, tp \in Prices :
          SubmitMarket(s, side * q, sl, tp)
    BY <1>4 DEF Enter
  <2> DEFINE o == [id |-> nextId, symbol |-> s, qty |-> side * q]
  <2>2. side * q \in Int \ {0}
    BY DEF PaperAssumption
  <2>3. Lots' = Lots \cup {o}
    BY <2>1, <2>2, SubmitAddsOne DEF PaperAssumption
  <2>4. /\ connected /\ connected' = connected
        /\ nextId' = nextId + 1 /\ nextId \in Nat \ {0}
    BY <2>1 DEF SubmitMarket, Shape
  <2>5. o \in Contract!Order
    BY <2>2, <2>4 DEF Contract!Order
  <2>6. nextId' - 1 = o.id /\ nextId' - 1 = (nextId - 1) + 1
    BY <2>4
  <2>7. Contract!Adds(Lots', Lots, nextId' - 1)
    <3> HIDE DEF o
    <3> QED
      BY <2>3, <2>5, <2>6 DEF Contract!Adds
  <2> HIDE DEF o
  <2> QED
    BY <2>4, <2>6, <2>7 DEF Contract!Submit, Contract!BrokerNext
<1>5. ASSUME NEW which \in Targets, CancelAll(which)
      PROVE  UNCHANGED Contract!brokerVars
  BY <1>5 DEF CancelAll, Contract!brokerVars, Lots, Held
<1>6. ASSUME NEW which \in Targets, FlattenAll(which)
      PROVE  Contract!BrokerNext
  <2>1. Lots' \subseteq Lots
    BY <1>6, FlattenTakesAway, FewerPositions
  <2>2. UNCHANGED <<connected, nextId>>
    BY <1>6 DEF FlattenAll
  <2> QED
    BY <2>1, <2>2 DEF Contract!Exit, Contract!BrokerNext
<1>7. CASE UNCHANGED paperVars
  BY <1>7 DEF paperVars, Contract!brokerVars, Lots, Held
<1> QED
  BY <1>1, <1>2, <1>3, <1>4, <1>5, <1>6, <1>7 DEF Next

\* Every behaviour of the paper broker is one the contract allows: each order
\* opens at most one lot, and only a submission opens one.
THEOREM PaperImplementsBroker == Spec => KeepsContract
<1>1. Shape /\ [Next]_paperVars => [Contract!BrokerNext]_(Contract!brokerVars)
  BY StepIsContractStep, PaperAssumption
<1> QED
  BY PaperShape, FreshInitially, <1>1, PTL DEF Spec, KeepsContract, Contract!BrokerSpec

-----------------------------------------------------------------------------
(***************************************************************************)
(* The account.                                                            *)
(***************************************************************************)

\* A sum of integers over symbols is an integer, and one over none is zero.
LEMMA AccountsAddUp ==
  ASSUME IsFiniteSet(Symbols), NEW closed \in SUBSET Symbols, NEW f,
         DOMAIN f = closed, \A s \in closed : f[s] \in Int
  PROVE  /\ SumFunction(f) \in Int
         /\ closed = {} => SumFunction(f) = 0
<1>1. IsFiniteSet(closed)
  BY FS_Subset
<1>2. SumFunctionOnSet(f, closed) \in Int
  BY <1>1, SumType
<1>3. closed = {} => SumFunctionOnSet(f, closed) = 0
  BY SumEmpty
<1> QED
  BY <1>2, <1>3 DEF SumFunction

LEMMA MoneyIsWhole ==
  ASSUME PaperAssumption, Shape, NEW s \in Symbols, NEW price \in Int
  PROVE  MoveUsd(s, price) \in Int /\ CommissionUsd(s) \in Int
<1>1. positions[s].qty \in Int /\ positions[s].price \in Int
  BY DEF Shape
<1>2. TickValue \in Int /\ Commission \in Int
  BY DEF PaperAssumption
<1>3. \A a \in Int, b \in Int : a * b \in Int
  OBVIOUS
<1>4. price - positions[s].price \in Int
  BY <1>1
<1>5. (price - positions[s].price) * TickValue \in Int
  BY <1>2, <1>3, <1>4
<1>6. (price - positions[s].price) * TickValue * positions[s].qty \in Int
  BY <1>1, <1>3, <1>5
<1>7. Magnitude(positions[s].qty) \in Int
  BY <1>1 DEF Magnitude
<1>8. 2 * Commission \in Int
  BY <1>2
<1>9. 2 * Commission * Magnitude(positions[s].qty) \in Int
  BY <1>3, <1>7, <1>8
<1> QED
  BY <1>6, <1>9 DEF MoveUsd, CommissionUsd

\* Closing at whole prices leaves whole money.
LEMMA CloseKeepsEquity ==
  ASSUME PaperAssumption, Shape, equity \in Int,
         NEW closed \in SUBSET Symbols, NEW exits \in [closed -> Int], Close(exits)
  PROVE  equity' \in Int
<1> DEFINE f == [s \in closed |-> MoveUsd(s, exits[s]) - CommissionUsd(s)]
<1>1. \A s \in closed : f[s] \in Int
  <2> TAKE s \in closed
  <2>1. MoveUsd(s, exits[s]) \in Int /\ CommissionUsd(s) \in Int
    BY MoneyIsWhole
  <2> QED
    BY <2>1
<1>2. DOMAIN f = closed
  OBVIOUS
<1>3. equity' = equity + SumFunction(f)
  BY DEF Close
<1> HIDE DEF f
<1>4. SumFunction(f) \in Int
  BY <1>1, <1>2, AccountsAddUp DEF PaperAssumption
<1> QED
  BY <1>3, <1>4

LEMMA TypesInitially ==
  ASSUME PaperAssumption, Init
  PROVE  PaperTypeOK
<1>1. Shape
  BY ShapeInitially
<1>2. \A s \in Symbols : ~Held(s) /\ ~brackets[s].armed
  BY DEF Init, Held, Flat, NoBracket
<1>3. connected \in BOOLEAN /\ fed \subseteq Symbols /\ equity \in Int
  BY DEF Init, PaperAssumption
<1> QED
  BY <1>1, <1>2, <1>3 DEF PaperTypeOK, Shape

LEMMA TypesGiveShape == PaperTypeOK => Shape
BY DEF PaperTypeOK, Shape

\* What a fed price does beside the bracket it may touch.
LEMMA FeedKeepsTypes ==
  ASSUME PaperAssumption, PaperTypeOK, NEW s \in Symbols, NEW price \in Int, FeedPrice(s, price)
  PROVE  PaperTypeOK'
<1>1. /\ connected' = connected /\ nextId' = nextId /\ fed' = fed \cup {s}
      /\ last' \in [Symbols -> Int]
  BY DEF FeedPrice, PaperTypeOK
<1>2. CASE UNCHANGED <<positions, brackets, equity>>
  BY <1>1, <1>2 DEF PaperTypeOK, Held
<1>3. CASE Close([x \in {s} |-> BracketExit(x, price)])
  <2> DEFINE exits == [x \in {s} |-> BracketExit(x, price)]
  <2>1. BracketExit(s, price) \in Int
    <3>1. brackets[s].sl \in Int /\ brackets[s].tp \in Int /\ SlippageTicks \in Int
      BY DEF PaperTypeOK, PaperAssumption
    <3>2. Against(s) \in Int
      BY <3>1 DEF Against
    <3> QED
      BY <3>1, <3>2 DEF BracketExit
  <2>2. exits \in [{s} -> Int] /\ DOMAIN exits = {s}
    BY <2>1
  <2>3. Close(exits)
    BY <1>3
  <2> HIDE DEF exits
  <2>4. equity' \in Int
    <3> DEFINE closed == {s}
    <3>1. closed \in SUBSET Symbols /\ exits \in [closed -> Int]
      BY <2>2
    <3>2. equity \in Int /\ Shape
      BY TypesGiveShape DEF PaperTypeOK
    <3> HIDE DEF closed
    <3> QED
      BY <2>3, <3>1, <3>2, CloseKeepsEquity
  <2>5. /\ positions' = [x \in Symbols |-> IF x \in {s} THEN Flat ELSE positions[x]]
        /\ brackets' = [x \in Symbols |-> IF x \in {s} THEN NoBracket ELSE brackets[x]]
    BY <2>2, <2>3 DEF Close
  <2> QED
    BY <1>1, <2>4, <2>5 DEF PaperTypeOK, Held, Flat, NoBracket
<1> QED
  BY <1>2, <1>3 DEF FeedPrice

LEMMA FlattenKeepsTypes ==
  ASSUME PaperAssumption, PaperTypeOK, NEW which, FlattenAll(which)
  PROVE  PaperTypeOK'
<1> DEFINE closed == {x \in which \cap fed : Held(x)}
           exits == [s \in closed |-> last[s]]
<1>1. closed \in SUBSET Symbols /\ exits \in [closed -> Int] /\ DOMAIN exits = closed
  BY DEF PaperTypeOK
<1>2. Close(exits) /\ UNCHANGED <<connected, fed, last, nextId>>
  BY DEF FlattenAll
<1> HIDE DEF closed, exits
<1>3. equity' \in Int
  BY <1>1, <1>2, TypesGiveShape, CloseKeepsEquity DEF PaperTypeOK
<1>4. /\ positions' = [x \in Symbols |-> IF x \in closed THEN Flat ELSE positions[x]]
      /\ brackets' = [x \in Symbols |-> IF x \in closed THEN NoBracket ELSE brackets[x]]
  BY <1>1, <1>2 DEF Close
<1> QED
  BY <1>2, <1>3, <1>4 DEF PaperTypeOK, Held, Flat, NoBracket

LEMMA TypesPreserved ==
  ASSUME PaperAssumption, PaperTypeOK, [Next]_paperVars
  PROVE  PaperTypeOK'
<1>1. CASE Connect \/ Disconnect
  BY <1>1 DEF Connect, Disconnect, PaperTypeOK, Held
<1>2. ASSUME NEW s \in Symbols, NEW price \in Prices, FeedPrice(s, price)
      PROVE  PaperTypeOK'
  BY <1>2, FeedKeepsTypes DEF PaperAssumption
<1>3. CASE Enter
  <2>1. PICK s \in Symbols, side \in {1, -1}, q \in Quantities, sl \in Prices, tp \in Prices :
          SubmitMarket(s, side * q, sl, tp)
    BY <1>3 DEF Enter
  <2>2. side * q \in Int /\ sl \in Int /\ tp \in Int /\ SlippageTicks \in Int
    BY DEF PaperAssumption
  <2>3. /\ UNCHANGED <<connected, fed, last, equity>> /\ nextId' = nextId + 1 /\ s \in fed
        /\ brackets' = [brackets EXCEPT ![s] = [armed |-> TRUE, sl |-> sl, tp |-> tp]]
        /\ positions'[s].qty = side * q
    BY <2>1 DEF SubmitMarket, PaperTypeOK
  <2>4. \A x \in Symbols : x # s => positions'[x] = positions[x]
    BY <2>1 DEF SubmitMarket, PaperTypeOK
  <2>5. side * q # 0
    BY DEF PaperAssumption
  <2>7. Shape'
    <3> DEFINE n == side * q
    <3>1. n \in Int \ {0} /\ sl \in Int /\ tp \in Int /\ SlippageTicks \in Nat /\ Shape
      BY <2>2, <2>5, TypesGiveShape DEF PaperAssumption
    <3>2. SubmitMarket(s, n, sl, tp)
      BY <2>1
    <3> HIDE DEF n
    <3> QED
      BY <3>1, <3>2, SubmitAddsOne
  <2>6. ASSUME NEW x \in Symbols
        PROVE  /\ Held(x)' => x \in fed' /\ positions'[x].id \in 1 .. nextId' - 1
               /\ brackets'[x].armed => Held(x)'
    BY <2>3, <2>4, <2>5, <2>7 DEF Shape, Held, PaperTypeOK
  <2> QED
    BY <2>2, <2>3, <2>6, <2>7 DEF PaperTypeOK, Shape
<1>4. ASSUME NEW which \in Targets, CancelAll(which)
      PROVE  PaperTypeOK'
  BY <1>4 DEF CancelAll, PaperTypeOK, Held, NoBracket
<1>5. ASSUME NEW which \in Targets, FlattenAll(which)
      PROVE  PaperTypeOK'
  BY <1>5, FlattenKeepsTypes
<1>6. CASE UNCHANGED paperVars
  BY <1>6 DEF paperVars, PaperTypeOK, Held
<1> QED
  BY <1>1, <1>2, <1>3, <1>4, <1>5, <1>6 DEF Next

\* The broker's dictionaries keep their types: what is held has a price that was
\* fed and the number of an order, and only what is held has a bracket.
THEOREM PaperTypesHold == Spec => []PaperTypeOK
<1>1. Init => PaperTypeOK
  BY TypesInitially, PaperAssumption
<1>2. PaperTypeOK /\ [Next]_paperVars => PaperTypeOK'
  BY TypesPreserved, PaperAssumption
<1> QED
  BY <1>1, <1>2, PTL DEF Spec

\* The account after everything is flattened.
LEMMA FlattenBooks ==
  ASSUME PaperAssumption, PaperTypeOK, FlattenAll(Symbols)
  PROVE  /\ EquityUsd' = EquityUsd
               - SumFunction([s \in {x \in Symbols : Held(x)} |-> CommissionUsd(s)])
         /\ \A s \in Symbols : ~Held(s)' /\ ~brackets'[s].armed
<1> DEFINE held == {x \in Symbols : Held(x)}
           move == [s \in held |-> MoveUsd(s, last[s])]
           cost == [s \in held |-> CommissionUsd(s)]
           exits == [s \in held |-> last[s]]
           paid == [s \in held |-> MoveUsd(s, exits[s]) - CommissionUsd(s)]
<1>1. held = {x \in Symbols \cap fed : Held(x)} /\ held = {x \in fed : Held(x)}
  BY DEF PaperTypeOK
<1>2. Close(exits) /\ UNCHANGED <<connected, fed, last, nextId>>
  <2>1. Close([s \in {x \in Symbols \cap fed : Held(x)} |-> last[s]])
    BY DEF FlattenAll
  <2>2. UNCHANGED <<connected, fed, last, nextId>>
    BY DEF FlattenAll
  <2> QED
    BY <1>1, <2>1, <2>2, Zenon
<1>3. DOMAIN exits = held
  OBVIOUS
<1>4. equity' = equity + SumFunction(paid)
  BY <1>2, <1>3, Zenon DEF Close
<1>5. /\ positions' = [x \in Symbols |-> IF x \in held THEN Flat ELSE positions[x]]
      /\ brackets' = [x \in Symbols |-> IF x \in held THEN NoBracket ELSE brackets[x]]
  BY <1>2, <1>3, Zenon DEF Close
<1>6. \A s \in Symbols : ~Held(s)' /\ ~brackets'[s].armed
  BY <1>5 DEF PaperTypeOK, Held, Flat, NoBracket
<1>7. EquityUsd = equity + SumFunction(move)
  BY <1>1, Zenon DEF EquityUsd
<1>8. EquityUsd' = equity'
  <2> DEFINE none == {x \in fed' : Held(x)'}
             g == [s \in none |-> MoveUsd(s, last[s])']
  <2>1. none = {} /\ DOMAIN g = none
    BY <1>2, <1>6 DEF PaperTypeOK
  <2>2. EquityUsd' = equity' + SumFunction(g)
    BY DEF EquityUsd
  <2>3. none \in SUBSET Symbols /\ \A s \in none : g[s] \in Int
    BY <2>1
  <2> HIDE DEF g, none
  <2>4. SumFunction(g) = 0
    BY <2>1, <2>3, AccountsAddUp DEF PaperAssumption
  <2>5. equity' \in Int
    BY FlattenKeepsTypes DEF PaperTypeOK
  <2>6. \A n \in Int : n + 0 = n
    OBVIOUS
  <2> QED
    BY <2>2, <2>4, <2>5, <2>6, Zenon
<1>9. \A s \in held : /\ move[s] \in Int /\ cost[s] \in Int /\ paid[s] \in Int
                       /\ move[s] = paid[s] + cost[s]
  <2> TAKE s \in held
  <2>1. last[s] \in Int
    BY DEF PaperTypeOK
  <2>2. MoveUsd(s, last[s]) \in Int /\ CommissionUsd(s) \in Int
    BY <2>1, MoneyIsWhole, TypesGiveShape
  <2> QED
    BY <2>2
<1>10. DOMAIN move = held /\ DOMAIN cost = held /\ DOMAIN paid = held
  OBVIOUS
<1>11. IsFiniteSet(held)
  BY FS_Subset DEF PaperAssumption
<1> HIDE DEF move, cost, paid, held
<1>12. SumFunctionOnSet(move, held)
         = SumFunctionOnSet(paid, held) + SumFunctionOnSet(cost, held)
  BY <1>9, <1>11, SumPlus
<1>13. SumFunctionOnSet(paid, held) \in Int /\ SumFunctionOnSet(cost, held) \in Int
  BY <1>9, <1>11, SumType
<1>14. equity \in Int
  BY DEF PaperTypeOK
<1>15. EquityUsd' = EquityUsd - SumFunction(cost)
  BY <1>4, <1>7, <1>8, <1>10, <1>12, <1>13, <1>14 DEF SumFunction
<1> QED
  BY <1>6, <1>15 DEF cost, held

\* flatten_all turns the unrealised estimate into money at the same prices, less
\* the commissions, and leaves nothing held or guarded: for any set of symbols.
THEOREM FlattenRealisesHolds == Spec => FlattenRealises
<1>1. PaperTypeOK /\ [Next]_paperVars =>
        [FlattenAll(Symbols) =>
           /\ EquityUsd' = EquityUsd
                - SumFunction([s \in {x \in Symbols : Held(x)} |-> CommissionUsd(s)])
           /\ \A s \in Symbols : ~Held(s)' /\ ~brackets'[s].armed]_paperVars
  BY FlattenBooks, PaperAssumption, Zenon
<1> QED
  BY <1>1, PaperTypesHold, PTL DEF Spec, FlattenRealises
=============================================================================
