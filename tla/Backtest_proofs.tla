--------------------------- MODULE Backtest_proofs ---------------------------
(***************************************************************************)
(* Theorems about the backtest engine for every series, every candle and   *)
(* signal set, and every value of the risk constants; and, in the second   *)
(* part, about the engine with a paper broker fed the same market.         *)
(***************************************************************************)
EXTENDS Parity, DataLemmas

(***************************************************************************)
(* Lemmas about the operators.                                             *)
(***************************************************************************)

\* Removing an element keeps the others, in order, and shortens by one.
LEMMA RemoveAtProperties ==
  ASSUME NEW S, NEW s \in Seq(S), NEW i \in 1 .. Len(s)
  PROVE  /\ RemoveAt(s, i) \in Seq(S)
         /\ Len(RemoveAt(s, i)) = Len(s) - 1
         /\ \A j \in 1 .. Len(RemoveAt(s, i)) :
              \E k \in 1 .. Len(s) : RemoveAt(s, i)[j] = s[k]
<1> DEFINE front == SubSeq(s, 1, i - 1)
           back == SubSeq(s, i + 1, Len(s))
<1>1. front \in Seq(S) /\ Len(front) = i - 1 /\ \A j \in 1 .. i - 1 : front[j] = s[j]
  OBVIOUS
<1>2. /\ back \in Seq(S)
      /\ Len(back) = Len(s) - i
      /\ \A j \in 1 .. Len(s) - i : back[j] = s[i + j]
  OBVIOUS
<1>3. RemoveAt(s, i) = front \o back
  BY DEF RemoveAt
<1> HIDE DEF front, back
<1>4. /\ front \o back \in Seq(S)
      /\ Len(front \o back) = Len(s) - 1
      /\ \A j \in 1 .. Len(s) - 1 :
           (front \o back)[j] = IF j <= i - 1 THEN front[j] ELSE back[j - (i - 1)]
  BY <1>1, <1>2, ConcatProperties
<1>5. \A j \in 1 .. Len(s) - 1 :
        (front \o back)[j] = IF j < i THEN s[j] ELSE s[j + 1]
  BY <1>1, <1>2, <1>4
<1>6. QED  BY <1>3, <1>4, <1>5

\* Appending keeps the elements and adds the new one at the end.
LEMMA AppendElements ==
  ASSUME NEW S, NEW s \in Seq(S), NEW e \in S
  PROVE  /\ Append(s, e) \in Seq(S)
         /\ Len(Append(s, e)) = Len(s) + 1
         /\ Append(s, e)[Len(s) + 1] = e
         /\ \A j \in 1 .. Len(s) : Append(s, e)[j] = s[j]
  OBVIOUS

\* The limits keep their type when a trade is registered or a day begins.
LEMMA LimitsType ==
  ASSUME NEW s \in LimitsStates, NEW pnl \in Int, NEW today \in Nat, NEW eq \in Int
  PROVE  /\ RegisterTrade(s, pnl) \in LimitsStates
         /\ ResetForDay(s, today, eq) \in LimitsStates
<1>1. RegisterTrade(s, pnl) \in LimitsStates
  <2> DEFINE loss == IF pnl < 0 THEN s.loss - pnl ELSE s.loss
             streak == IF pnl < 0 THEN s.streak + 1 ELSE 0
             lockedDay == s.lockedDay \/ loss * 100 >= s.startEquity * DailyLossLimitPct
             lockedStreak == s.lockedStreak \/ streak >= MaxConsecutiveLosses
  <2>1. loss \in Nat /\ streak \in Nat /\ s.trades + 1 \in Nat
    BY DEF LimitsStates
  <2>2. lockedDay \in BOOLEAN /\ lockedStreak \in BOOLEAN
    BY DEF LimitsStates
  <2> HIDE DEF loss, streak, lockedDay, lockedStreak
  <2>3. [s EXCEPT !.trades = @ + 1, !.loss = loss, !.streak = streak,
                  !.lockedDay = lockedDay, !.lockedStreak = lockedStreak]
          \in LimitsStates
    BY <2>1, <2>2 DEF LimitsStates
  <2>4. QED
    BY <2>3 DEF RegisterTrade, loss, streak, lockedDay, lockedStreak
<1>2. ResetForDay(s, today, eq) \in LimitsStates
  BY DEF ResetForDay, FreshLimits, LimitsStates, Day, NoDay
<1>3. QED  BY <1>1, <1>2

\* A registered trade counts once and never makes a closed day tradable.
LEMMA RegisterTradeCounts ==
  ASSUME NEW s \in LimitsStates, NEW pnl \in Int
  PROVE  /\ RegisterTrade(s, pnl).trades = s.trades + 1
         /\ RegisterTrade(s, pnl).day = s.day
         /\ ~CanTrade(s) => ~CanTrade(RegisterTrade(s, pnl))
  BY LimitsAssumption DEF RegisterTrade, CanTrade, LimitsStates

\* On a fresh day trading is possible if it ever is.
LEMMA ResetOpensTheDay ==
  ASSUME NEW s \in LimitsStates, NEW today \in Nat, NEW eq \in Int
  PROVE  /\ ResetForDay(s, today, eq).trades = 0
         /\ ResetForDay(s, today, eq).day = today
         /\ CanTrade(s) => CanTrade(ResetForDay(s, today, eq))
  BY LimitsAssumption DEF ResetForDay, FreshLimits, CanTrade, LimitsStates

\* The gate is closed at 16:30, whatever windows are configured.
LEMMA NoEntryAt1630 ==
  ASSUME NEW m \in Minutes, NewEntriesAllowed(m)
  PROVE  ~ForceFlat(m)
  BY DEF Minutes, NewEntriesAllowed, EntriesAllowedIn, ForceFlat, InWindow, Within, Before, At,
         NewsBlock, Lunch

\* A position size is a natural number.
LEMMA SizeIsNat ==
  ASSUME NEW eq \in Int, NEW entry \in Int, NEW sl \in Int
  PROVE  SizePosition(eq, entry, sl) \in Nat
<1> DEFINE risk == Distance(entry, sl) * TickValue
           budget == eq * RiskPct
           q == budget \div (risk * 100)
<1>1. risk \in Int /\ budget \in Int
  BY SizingAssumption DEF Distance
<1>2. CASE risk <= 0 \/ risk * 100 > budget
  BY <1>2 DEF SizePosition
<1>3. CASE ~(risk <= 0 \/ risk * 100 > budget)
  <2> HIDE DEF risk, budget
  <2>1. risk * 100 \in Int /\ risk * 100 > 0
    BY <1>1, <1>3
  <2>2. q \in Int
    BY <1>1, <2>1
  <2> HIDE DEF q
  <2>3. GreaterOf(MinQuantity, LesserOf(MaxQuantity, q)) \in Nat
    BY <2>2, SizingAssumption DEF GreaterOf, LesserOf
  <2>4. SizePosition(eq, entry, sl) = GreaterOf(MinQuantity, LesserOf(MaxQuantity, q))
    BY <1>3 DEF SizePosition, risk, budget, q
  <2>5. QED  BY <2>3, <2>4
<1>4. QED  BY <1>2, <1>3

\* Time stamps are integers.
LEMMA StampsTyped ==
  /\ Len(Stamps) \in Nat
  /\ \A i \in 1 .. Len(Stamps) : Stamps[i] \in [day : Nat, minute : Minutes]
<1> DEFINE R == [day : Nat, minute : Minutes]
<1>1. Stamps \in Seq(R)
  BY EngineAssumption
<1> HIDE DEF R
<1>2. Len(Stamps) \in Nat /\ \A i \in 1 .. Len(Stamps) : Stamps[i] \in R
  BY <1>1
<1>3. QED  BY <1>2 DEF R

\* The pnl of a position is an integer.
LEMMA PnlIsInt ==
  ASSUME NEW p \in Position, NEW price \in Int
  PROVE  Pnl(p, price) \in Int
<1>1. p.price \in Int /\ p.qty \in Int
  BY DEF Position
<1>2. (price - p.price) * TickValue \in Int /\ AbsVal(p.qty) \in Int
  BY <1>1, SizingAssumption DEF AbsVal
<1>3. (price - p.price) * TickValue * p.qty \in Int
  BY <1>1, <1>2
<1>4. 2 * Commission * AbsVal(p.qty) \in Int
  BY <1>2, EngineAssumption
<1>5. QED  BY <1>3, <1>4 DEF Pnl

-----------------------------------------------------------------------------
(***************************************************************************)
(* Type correctness.                                                       *)
(***************************************************************************)

\* What closing a position does to the account, in terms of types.
LEMMA CloseType ==
  ASSUME TypeOK, NEW i \in 1 .. Len(open), NEW price \in Int,
         NEW status \in {"CLOSED_SL", "CLOSED_TP", "CLOSED_FLAT"},
         ClosePosition(i, price, status)
  PROVE  /\ open' \in Seq(Position)
         /\ equity' \in Int
         /\ trades' \in Seq(Trade)
         /\ RegisterTrade(lim, Pnl(open[i], price)) \in LimitsStates
<1>1. open[i] \in Position
  BY DEF TypeOK
<1>2. Pnl(open[i], price) \in Int
  BY <1>1, PnlIsInt
<1>3. open' \in Seq(Position)
  BY RemoveAtProperties DEF ClosePosition, TypeOK
<1>4. equity' \in Int
  BY <1>2 DEF ClosePosition, TypeOK
<1>5. trades' \in Seq(Trade)
  BY <1>2 DEF ClosePosition, TypeOK, Trade
<1>6. RegisterTrade(lim, Pnl(open[i], price)) \in LimitsStates
  BY <1>2, LimitsType DEF TypeOK
<1>7. QED  BY <1>3, <1>4, <1>5, <1>6

LEMMA InitType == Init => TypeOK
  BY EngineAssumption
  DEF Init, TypeOK, Phases, FreshLimits, LimitsStates, Day, NoDay

LEMMA NextType == TypeOK /\ [Next]_vars => TypeOK'
<1> SUFFICES ASSUME TypeOK, [Next]_vars PROVE TypeOK'
  OBVIOUS
<1> USE DEF TypeOK, market, account, tallies
<1>1. ASSUME NextBar PROVE TypeOK'
  <2>1. t' \in 1 .. Len(Stamps) /\ Stamp'.day \in Nat
    <3>1. t' \in 1 .. Len(Stamps)
      BY <1>1, EngineAssumption DEF NextBar
    <3>2. Stamps[t'] \in [day : Nat, minute : Minutes]
      BY <3>1, StampsTyped
    <3>3. QED  BY <3>1, <3>2 DEF Stamp
  <2>2. lim' \in LimitsStates
    BY <1>1, <2>1, LimitsType DEF NextBar
  <2>3. QED
    BY <1>1, <2>2, EngineAssumption DEF NextBar, Phases
<1>2. ASSUME FlattenOne PROVE TypeOK'
  <2>1. 1 \in 1 .. Len(open) /\ candle.open \in Int
    BY <1>2 DEF FlattenOne, Candle
  <2>2. QED
    BY <1>2, <2>1, CloseType DEF FlattenOne, CloseAndRegister
<1>3. ASSUME FlattenDone PROVE TypeOK'
  BY <1>3 DEF FlattenDone, Phases
<1>4. ASSUME ExamineStop PROVE TypeOK'
  <2>1. cursor + 1 \in 1 .. Len(open) /\ open[cursor + 1] \in Position
    BY <1>4 DEF ExamineStop
  <2>2. StopExit(open[cursor + 1]) \in Int /\ open[cursor + 1].signal.tp \in Int
    <3> DEFINE p == open[cursor + 1]
    <3> HIDE DEF p
    <3>1. p.signal.sl \in Int /\ p.signal.tp \in Int
      BY <2>1 DEF p, Position, Signal
    <3>2. StopExit(p) \in Int
      BY <3>1, EngineAssumption DEF StopExit
    <3>3. QED  BY <3>1, <3>2 DEF p
  <2>3. CASE CloseAndRegister(cursor + 1, StopExit(open[cursor + 1]), "CLOSED_SL")
             /\ UNCHANGED cursor
    BY <1>4, <2>1, <2>2, <2>3, CloseType DEF ExamineStop, CloseAndRegister
  <2>4. CASE CloseAndRegister(cursor + 1, open[cursor + 1].signal.tp, "CLOSED_TP")
             /\ UNCHANGED cursor
    BY <1>4, <2>1, <2>2, <2>4, CloseType DEF ExamineStop, CloseAndRegister
  <2>5. CASE cursor' = cursor + 1 /\ UNCHANGED <<account, lim>>
    BY <1>4, <2>5 DEF ExamineStop
  <2>6. QED
    BY <1>4, <2>3, <2>4, <2>5 DEF ExamineStop
<1>5. ASSUME StopsDone PROVE TypeOK'
  BY <1>5 DEF StopsDone, Phases
<1>6. ASSUME FillPending PROVE TypeOK'
  <2> DEFINE e == pending[cursor + 1]
             qty == FillQuantity(e.signal, candle.open)
             p == [signal |-> e.signal, submit |-> e.submit, fill |-> t,
                   price |-> candle.open,
                   qty |-> IF e.signal.side = "BUY" THEN qty ELSE -qty]
  <2>1. cursor + 1 \in 1 .. Len(pending) /\ e \in PendingEntry
    BY <1>6 DEF FillPending
  <2>2. RemoveAt(pending, cursor + 1) \in Seq(PendingEntry)
    BY <2>1, RemoveAtProperties
  <2>3. qty \in Nat
    BY <2>1, SizeIsNat DEF FillQuantity, PendingEntry, Signal, Candle
  <2>4. p \in Position
    BY <2>1, <2>3 DEF Position, PendingEntry, Candle
  <2>5. OpenPosition(e) => open' \in Seq(Position) /\ nextId' \in Nat
    BY <2>4 DEF OpenPosition
  <2>6. CASE e.submit >= t
    BY <1>6, <2>1, <2>6 DEF FillPending, PendingEntry
  <2>7. CASE e.submit < t
    BY <1>6, <2>1, <2>2, <2>5, <2>7 DEF FillPending, PendingEntry
  <2>8. QED
    BY <2>1, <2>6, <2>7 DEF PendingEntry
<1>7. ASSUME FillsDone PROVE TypeOK'
  BY <1>7, EngineAssumption DEF FillsDone, Phases
<1>8. ASSUME TakeSignal PROVE TypeOK'
  <2>1. Head(batch) \in Signal /\ Tail(batch) \in Seq(Signal)
    BY <1>8 DEF TakeSignal
  <2>2. [signal |-> Head(batch), submit |-> t] \in PendingEntry
    BY <2>1 DEF PendingEntry
  <2>3. pending' \in Seq(PendingEntry) /\ skipped' \in Nat
    <3>1. CASE Enqueues(Head(batch))
      BY <1>8, <2>2, <3>1, AppendElements DEF TakeSignal
    <3>2. CASE ~Enqueues(Head(batch))
      BY <1>8, <3>2 DEF TakeSignal
    <3>3. QED  BY <3>1, <3>2
  <2>4. QED
    BY <1>8, <2>1, <2>3 DEF TakeSignal
<1>9. ASSUME RecordEquityPoint PROVE TypeOK'
  BY <1>9 DEF RecordEquityPoint, Phases
<1>10. ASSUME LastBarDone PROVE TypeOK'
  BY <1>10 DEF LastBarDone, Phases
<1>11. ASSUME FinalFlatten PROVE TypeOK'
  <2>1. CASE open # <<>>
    <3>1. 1 \in 1 .. Len(open) /\ candle.open \in Int
      BY <2>1 DEF Candle
    <3>2. QED
      BY <1>11, <2>1, <3>1, CloseType DEF FinalFlatten
  <2>2. CASE open = <<>>
    BY <1>11, <2>2 DEF FinalFlatten, Phases
  <2>3. QED  BY <2>1, <2>2
<1>12. CASE UNCHANGED vars
  BY <1>12 DEF vars
<1>13. QED
  BY <1>1, <1>2, <1>3, <1>4, <1>5, <1>6, <1>7, <1>8, <1>9, <1>10, <1>11, <1>12
  DEF Next

\* Every state of the engine has the types of TypeOK.
THEOREM TypeCorrect == Spec => []TypeOK
  BY InitType, NextType, PTL DEF Spec

-----------------------------------------------------------------------------
(***************************************************************************)
(* Entries that wait to be filled. PendingUnderLimits is not inductive: it *)
(* needs to know that an entry never waits behind an open position, whose  *)
(* close could lock the day, and that the fill loop leaves nothing behind, *)
(* because everything it finds was submitted on the bar before.            *)
(***************************************************************************)
BarRead == phase \notin {"next", "final", "done"} => t >= 1

FillsFromTheFront == phase = "fill" => cursor = 0

SubmitBar == IF phase \in {"flat", "stops", "fill"} THEN t - 1 ELSE t

PendingSubmitted ==
  \A i \in 1 .. Len(pending) :
    /\ pending[i].submit = SubmitBar
    /\ pending[i].submit \in 1 .. t
    /\ EntriesAllowed(pending[i].submit)

PendingAlone == pending # <<>> /\ phase # "fill" => open = <<>>

PendingInv ==
  /\ BarRead
  /\ FillsFromTheFront
  /\ PendingSubmitted
  /\ PendingAlone
  /\ PendingUnderLimits

LEMMA InitPending == Init => PendingInv
  BY DEF Init, PendingInv, BarRead, FillsFromTheFront, PendingSubmitted,
         PendingAlone, PendingUnderLimits

LEMMA NextPending == TypeOK /\ PendingInv /\ [Next]_vars => PendingInv'
<1> SUFFICES ASSUME TypeOK, PendingInv, [Next]_vars PROVE PendingInv'
  OBVIOUS
<1> USE DEF PendingInv, BarRead, FillsFromTheFront, PendingSubmitted, SubmitBar,
            PendingAlone, PendingUnderLimits, EntriesAllowed, market, account, tallies
<1>0. pending \in Seq(PendingEntry) /\ open \in Seq(Position) /\ t \in Nat
      /\ batch \in Seq(Signal) /\ cursor \in Nat /\ lim \in LimitsStates
      /\ equity \in Int
  BY DEF TypeOK
<1>1. ASSUME NextBar PROVE PendingInv'
  <2>1. t' \in 1 .. Len(Stamps) /\ Stamp'.day \in Nat
    <3>1. t' \in 1 .. Len(Stamps)
      BY <1>0, <1>1, StampsTyped DEF NextBar
    <3>2. QED  BY <3>1, StampsTyped DEF Stamp
  <2>2. CanTrade(lim) => CanTrade(lim')
    BY <1>0, <1>1, <2>1, ResetOpensTheDay DEF NextBar
  <2>3. /\ phase = "next" /\ phase' = "flat" /\ t' = t + 1
        /\ UNCHANGED <<pending, open, cursor>>
    BY <1>1 DEF NextBar
  <2>4. SubmitBar = t /\ SubmitBar' = t
    BY <1>0, <2>3
  <2>5. PendingSubmitted'
    BY <1>0, <2>3, <2>4
  <2>6. QED
    BY <1>0, <2>2, <2>3, <2>5
<1>2. ASSUME FlattenOne PROVE PendingInv'
  BY <1>0, <1>2 DEF FlattenOne
<1>3. ASSUME FlattenDone PROVE PendingInv'
  BY <1>0, <1>3 DEF FlattenDone
<1>4. ASSUME ExamineStop PROVE PendingInv'
  <2>1. open # <<>>
    BY <1>0, <1>4 DEF ExamineStop
  <2>2. pending = <<>>
    BY <1>4, <2>1 DEF ExamineStop
  <2>3. QED
    BY <1>4, <2>2 DEF ExamineStop
<1>5. ASSUME StopsDone PROVE PendingInv'
  BY <1>0, <1>5 DEF StopsDone
<1>6. ASSUME FillPending PROVE PendingInv'
  <2>1. cursor = 0 /\ 1 \in 1 .. Len(pending) /\ pending[1].submit < t
    BY <1>0, <1>6 DEF FillPending
  <2>2. pending' = RemoveAt(pending, 1) /\ cursor' = 0
    <3>1. cursor + 1 = 1 /\ ~(pending[cursor + 1].submit >= t)
      BY <1>0, <2>1
    <3>2. QED  BY <1>6, <2>1, <3>1 DEF FillPending
  <2>3. \A j \in 1 .. Len(pending') : \E k \in 1 .. Len(pending) : pending'[j] = pending[k]
    <3>1. \A j \in 1 .. Len(RemoveAt(pending, 1)) :
            \E k \in 1 .. Len(pending) : RemoveAt(pending, 1)[j] = pending[k]
      BY <1>0, <2>1, RemoveAtProperties
    <3>2. QED  BY <2>2, <3>1
  <2>4. pending # <<>> /\ UNCHANGED <<phase, t, lim>>
    BY <1>6, <2>1 DEF FillPending
  <2>5. QED
    BY <1>6, <2>2, <2>3, <2>4 DEF FillPending
<1>7. ASSUME FillsDone PROVE PendingInv'
  <2>1. pending = <<>>
    BY <1>0, <1>7 DEF FillsDone
  <2>2. QED
    BY <1>0, <1>7, <2>1 DEF FillsDone
<1>8. ASSUME TakeSignal PROVE PendingInv'
  <2>1. CASE Enqueues(Head(batch))
    <3> DEFINE e == [signal |-> Head(batch), submit |-> t]
    <3>1. e \in PendingEntry /\ pending' = Append(pending, e) /\ e.submit = t
      BY <1>0, <1>8, <2>1 DEF TakeSignal, PendingEntry
    <3> HIDE DEF e
    <3>2. \A j \in 1 .. Len(pending') : pending'[j] = e \/ \E k \in 1 .. Len(pending) :
             pending'[j] = pending[k]
      BY <1>0, <3>1, AppendElements
    <3>3. open = <<>> /\ CanTrade(lim) /\ EntriesAllowed(t) /\ t >= 1
      BY <1>8, <2>1 DEF TakeSignal, Enqueues
    <3>4. phase = "signals" /\ UNCHANGED <<phase, t, open, lim, cursor>>
      BY <1>8 DEF TakeSignal
    <3>5. QED
      BY <1>0, <3>1, <3>2, <3>3, <3>4
  <2>2. CASE ~Enqueues(Head(batch))
    BY <1>0, <1>8, <2>2 DEF TakeSignal
  <2>3. QED  BY <2>1, <2>2
<1>9. ASSUME RecordEquityPoint PROVE PendingInv'
  BY <1>0, <1>9 DEF RecordEquityPoint
<1>10. ASSUME LastBarDone PROVE PendingInv'
  BY <1>0, <1>10 DEF LastBarDone
<1>11. ASSUME FinalFlatten PROVE PendingInv'
  BY <1>0, <1>11 DEF FinalFlatten
<1>12. CASE UNCHANGED vars
  BY <1>12 DEF vars
<1>13. QED
  BY <1>1, <1>2, <1>3, <1>4, <1>5, <1>6, <1>7, <1>8, <1>9, <1>10, <1>11, <1>12
  DEF Next

\* What waits for its fill was allowed by the limits, and is for the next bar.
THEOREM PendingInvariant == Spec => []PendingInv
  BY InitPending, NextPending, TypeCorrect, PTL DEF Spec

\* No entry is ever waiting for its fill while the limits forbid trading.
THEOREM FillsUnderLimits == Spec => []PendingUnderLimits
<1>1. PendingInv => PendingUnderLimits
  BY DEF PendingInv
<1>2. QED  BY <1>1, PendingInvariant, PTL

-----------------------------------------------------------------------------
(***************************************************************************)
(* The daily cap. While the signals of a bar are taken, what is already    *)
(* enqueued and what is left of the batch fit one batch: the entries that  *)
(* pass the cap together are never more than that.                         *)
(***************************************************************************)
BatchFits == phase = "signals" => Len(pending) + Len(batch) <= MaxBatch

CountInv == BatchFits /\ TradesPerDayBound

LEMMA InitCount == Init => CountInv
  BY EngineAssumption, LimitsAssumption
  DEF Init, CountInv, BatchFits, TradesPerDayBound, FreshLimits

LEMMA NextCount == TypeOK /\ PendingInv /\ CountInv /\ [Next]_vars => CountInv'
<1> SUFFICES ASSUME TypeOK, PendingInv, CountInv, [Next]_vars PROVE CountInv'
  OBVIOUS
<1> USE DEF CountInv, BatchFits, TradesPerDayBound, market, account, tallies
<1>0. /\ pending \in Seq(PendingEntry) /\ open \in Seq(Position) /\ batch \in Seq(Signal)
      /\ cursor \in Nat /\ lim \in LimitsStates /\ lim.trades \in Nat /\ equity \in Int
      /\ Len(pending) \in Nat /\ Len(open) \in Nat /\ Len(batch) \in Nat
  BY DEF TypeOK, LimitsStates
<1>a. MaxTradesPerDay \in Nat /\ MaxBatch \in Nat
  BY EngineAssumption, LimitsAssumption
\* A registered close moves one unit from the open positions to the count.
<1>b. ASSUME NEW i \in 1 .. Len(open), NEW price \in Int, NEW status,
             CloseAndRegister(i, price, status), UNCHANGED <<phase, pending, batch>>
      PROVE  CountInv'
  <2>1. Len(open') = Len(open) - 1
    BY <1>0, <1>b, RemoveAtProperties DEF CloseAndRegister, ClosePosition
  <2>2. Pnl(open[i], price) \in Int
    <3>1. open[i] \in Position
      BY <1>0
    <3>2. QED  BY <1>b, <3>1, PnlIsInt
  <2>3. lim'.trades = lim.trades + 1
    BY <1>0, <1>b, <2>2, RegisterTradeCounts DEF CloseAndRegister
  <2>4. QED  BY <1>0, <1>a, <1>b, <2>1, <2>3
<1>1. ASSUME NextBar PROVE CountInv'
  <2>1. t' \in 1 .. Len(Stamps) /\ Stamp'.day \in Nat
    <3>1. t' \in 1 .. Len(Stamps)
      BY <1>1, StampsTyped DEF NextBar, TypeOK
    <3>2. QED  BY <3>1, StampsTyped DEF Stamp
  <2>2. lim'.trades \in Nat /\ lim'.trades <= lim.trades
    BY <1>0, <1>1, <2>1, ResetOpensTheDay DEF NextBar
  <2>3. phase' = "flat" /\ UNCHANGED <<pending, open, batch>>
    BY <1>1 DEF NextBar
  <2>4. QED  BY <1>0, <1>a, <2>2, <2>3
<1>2. ASSUME FlattenOne PROVE CountInv'
  <2>1. 1 \in 1 .. Len(open) /\ candle.open \in Int
    BY <1>0, <1>2 DEF FlattenOne, TypeOK, Candle
  <2>2. QED  BY <1>2, <2>1, <1>b DEF FlattenOne
<1>3. ASSUME FlattenDone PROVE CountInv'
  BY <1>0, <1>a, <1>3 DEF FlattenDone
<1>4. ASSUME ExamineStop PROVE CountInv'
  <2> DEFINE p == open[cursor + 1]
  <2>1. cursor + 1 \in 1 .. Len(open) /\ p \in Position
    BY <1>0, <1>4 DEF ExamineStop
  <2>2. p.signal.sl \in Int /\ p.signal.tp \in Int
    BY <2>1 DEF Position, Signal
  <2>3. StopExit(p) \in Int
    BY <2>2, EngineAssumption DEF StopExit
  <2>4. CASE CloseAndRegister(cursor + 1, StopExit(p), "CLOSED_SL")
    BY <1>4, <2>1, <2>3, <2>4, <1>b DEF ExamineStop
  <2>5. CASE CloseAndRegister(cursor + 1, p.signal.tp, "CLOSED_TP")
    BY <1>4, <2>1, <2>2, <2>5, <1>b DEF ExamineStop
  <2>6. CASE UNCHANGED <<account, lim>>
    BY <1>0, <1>a, <1>4, <2>6 DEF ExamineStop
  <2>7. QED  BY <1>4, <2>4, <2>5, <2>6 DEF ExamineStop
<1>5. ASSUME StopsDone PROVE CountInv'
  BY <1>0, <1>a, <1>5 DEF StopsDone
<1>6. ASSUME FillPending PROVE CountInv'
  <2>1. cursor + 1 \in 1 .. Len(pending)
    BY <1>0, <1>6 DEF FillPending
  <2>2. Len(RemoveAt(pending, cursor + 1)) = Len(pending) - 1
    BY <1>0, <2>1, RemoveAtProperties
  <2>3. \A e : Len(Append(open, e)) = Len(open) + 1
    BY <1>0
  <2>4. phase' = "fill" /\ lim' = lim
    BY <1>6 DEF FillPending
  <2>5. Len(open') + Len(pending') <= Len(open) + Len(pending)
        /\ Len(open') \in Nat /\ Len(pending') \in Nat
    <3>1. CASE UNCHANGED <<pending, open>>
      BY <1>0, <3>1
    <3>2. CASE pending' = RemoveAt(pending, cursor + 1) /\ UNCHANGED open
      BY <1>0, <2>2, <2>1, <3>2
    <3>3. CASE /\ pending' = RemoveAt(pending, cursor + 1)
               /\ OpenPosition(pending[cursor + 1])
      BY <1>0, <2>1, <2>2, <2>3, <3>3 DEF OpenPosition
    <3>4. QED  BY <1>6, <3>1, <3>2, <3>3 DEF FillPending
  <2>6. QED  BY <1>0, <1>a, <2>4, <2>5
<1>7. ASSUME FillsDone PROVE CountInv'
  <2>1. pending = <<>>
    BY <1>0, <1>7 DEF FillsDone, PendingInv, FillsFromTheFront
  <2>2. batch' \in Seq(Signal) /\ Len(batch') <= MaxBatch
    BY <1>7, EngineAssumption DEF FillsDone
  <2>3. QED  BY <1>0, <1>a, <1>7, <2>1, <2>2 DEF FillsDone
<1>8. ASSUME TakeSignal PROVE CountInv'
  <2>1. Len(batch') = Len(batch) - 1 /\ phase = "signals" /\ UNCHANGED <<phase, lim, open>>
    BY <1>0, <1>8 DEF TakeSignal
  <2>2. CASE Enqueues(Head(batch))
    <3>1. Len(open) = 0 /\ lim.trades <= MaxTradesPerDay - 1
      BY <1>0, <1>a, <2>2 DEF Enqueues, CanTrade
    <3>2. Len(pending') = Len(pending) + 1
      BY <1>0, <1>8, <2>2 DEF TakeSignal
    <3>3. QED  BY <1>0, <1>a, <2>1, <3>1, <3>2
  <2>3. CASE ~Enqueues(Head(batch))
    BY <1>0, <1>a, <1>8, <2>1, <2>3 DEF TakeSignal
  <2>4. QED  BY <2>2, <2>3
<1>9. ASSUME RecordEquityPoint PROVE CountInv'
  BY <1>0, <1>a, <1>9 DEF RecordEquityPoint
<1>10. ASSUME LastBarDone PROVE CountInv'
  BY <1>0, <1>a, <1>10 DEF LastBarDone
<1>11. ASSUME FinalFlatten PROVE CountInv'
  <2>1. CASE open # <<>>
    <3>1. 1 \in 1 .. Len(open)
      BY <1>0, <2>1
    <3>2. Len(open') = Len(open) - 1
      BY <1>0, <1>11, <2>1, <3>1, RemoveAtProperties DEF FinalFlatten, ClosePosition
    <3>3. QED  BY <1>0, <1>a, <1>11, <2>1, <3>2 DEF FinalFlatten
  <2>2. CASE open = <<>>
    BY <1>0, <1>a, <1>11, <2>2 DEF FinalFlatten
  <2>3. QED  BY <2>1, <2>2
<1>12. CASE UNCHANGED vars
  BY <1>12 DEF vars
<1>13. QED
  BY <1>1, <1>2, <1>3, <1>4, <1>5, <1>6, <1>7, <1>8, <1>9, <1>10, <1>11, <1>12
  DEF Next

\* The day's trades, counting what is open or waiting, exceed the cap by at
\* most the signals of one bar beyond the first.
THEOREM TradesPerDayBounded == Spec => []TradesPerDayBound
<1>1. CountInv => TradesPerDayBound
  BY DEF CountInv
<1>2. QED
  BY <1>1, InitCount, NextCount, TypeCorrect, PendingInvariant, PTL DEF Spec

-----------------------------------------------------------------------------
(***************************************************************************)
(* Open positions. Each one filled on the bar after its signal's with the  *)
(* session gate open on both, from the proper side of its stop, and what   *)
(* is open together was signalled together.                                *)
(***************************************************************************)
SoundPosition(p) ==
  /\ p.submit >= 1
  /\ p.fill = p.submit + 1
  /\ p.fill <= t
  /\ EntriesAllowed(p.submit)
  /\ EntriesAllowed(p.fill)
  /\ \/ p.qty > 0 /\ p.price > p.signal.sl
     \/ p.qty < 0 /\ p.price < p.signal.sl

PositionsSound == \A i \in 1 .. Len(open) : SoundPosition(open[i])

FilledTogether ==
  phase = "fill" /\ pending # <<>> =>
    \A i \in 1 .. Len(open) : open[i].submit = t - 1

PositionsInv ==
  /\ PositionsSound
  /\ PositionsShareABar
  /\ FilledTogether

LEMMA InitPositions == Init => PositionsInv
  BY DEF Init, PositionsInv, PositionsSound, PositionsShareABar, FilledTogether

LEMMA NextPositions ==
  TypeOK /\ PendingInv /\ PositionsInv /\ [Next]_vars => PositionsInv'
<1> SUFFICES ASSUME TypeOK, PendingInv, PositionsInv, [Next]_vars PROVE PositionsInv'
  OBVIOUS
<1> USE DEF market, account, tallies
<1>0. /\ pending \in Seq(PendingEntry) /\ open \in Seq(Position)
      /\ cursor \in Nat /\ t \in Nat /\ candle \in Candle /\ equity \in Int
  BY DEF TypeOK
\* Outside the fill loop no position appears, and a position stays sound.
<1>a. ASSUME \A j \in 1 .. Len(open') : \E k \in 1 .. Len(open) : open'[j] = open[k],
             t' \in {t, t + 1}, pending' # <<>> /\ phase' = "fill" => open = <<>>
      PROVE  PositionsInv'
  <2>1. \A p \in Position : SoundPosition(p) => SoundPosition(p)'
    BY <1>0, <1>a DEF SoundPosition, EntriesAllowed, Position
  <2>2. PositionsSound'
    BY <1>0, <1>a, <2>1 DEF PositionsInv, PositionsSound, SoundPosition, EntriesAllowed
  <2>3. PositionsShareABar'
    BY <1>a DEF PositionsInv, PositionsShareABar
  <2>4. FilledTogether'
    BY <1>0, <1>a DEF FilledTogether
  <2>5. QED  BY <2>2, <2>3, <2>4 DEF PositionsInv
<1>b. ASSUME UNCHANGED <<open, t>>, pending' # <<>> /\ phase' = "fill" => open = <<>>
      PROVE  PositionsInv'
  BY <1>0, <1>a, <1>b
<1>c. ASSUME NEW i \in 1 .. Len(open), NEW price, NEW status,
             ClosePosition(i, price, status), UNCHANGED t, phase' # "fill"
      PROVE  PositionsInv'
  <2>1. \A j \in 1 .. Len(RemoveAt(open, i)) :
          \E k \in 1 .. Len(open) : RemoveAt(open, i)[j] = open[k]
    BY <1>0, RemoveAtProperties
  <2>2. QED  BY <1>a, <1>c, <2>1 DEF ClosePosition
<1>1. ASSUME NextBar PROVE PositionsInv'
  BY <1>0, <1>1, <1>a DEF NextBar
<1>2. ASSUME FlattenOne PROVE PositionsInv'
  BY <1>0, <1>2, <1>c DEF FlattenOne, CloseAndRegister
<1>3. ASSUME FlattenDone PROVE PositionsInv'
  BY <1>3, <1>b DEF FlattenDone
<1>4. ASSUME ExamineStop PROVE PositionsInv'
  <2>1. cursor + 1 \in 1 .. Len(open) /\ phase' = "stops" /\ UNCHANGED t
    BY <1>0, <1>4 DEF ExamineStop
  <2>2. CASE UNCHANGED <<account, lim>>
    BY <1>b, <2>1, <2>2
  <2>3. QED  BY <1>4, <1>c, <2>1, <2>2 DEF ExamineStop, CloseAndRegister
<1>5. ASSUME StopsDone PROVE PositionsInv'
  BY <1>5, <1>b DEF StopsDone, PendingInv, PendingAlone
<1>6. ASSUME FillPending PROVE PositionsInv'
  <2> DEFINE e == pending[1]
             qty == FillQuantity(e.signal, candle.open)
             p == [signal |-> e.signal, submit |-> e.submit, fill |-> t,
                   price |-> candle.open,
                   qty |-> IF e.signal.side = "BUY" THEN qty ELSE -qty]
  <2>1. /\ cursor + 1 = 1 /\ 1 \in 1 .. Len(pending) /\ e \in PendingEntry
        /\ pending # <<>> /\ phase = "fill" /\ UNCHANGED <<phase, t>>
    BY <1>0, <1>6 DEF FillPending, PendingInv, FillsFromTheFront
  <2>2. e.submit = t - 1 /\ e.submit >= 1 /\ e.submit < t /\ EntriesAllowed(e.submit)
    BY <1>0, <2>1 DEF PendingInv, PendingSubmitted, SubmitBar
  <2>3. \A i \in 1 .. Len(open) : open[i].submit = t - 1
    BY <2>1 DEF PositionsInv, FilledTogether
  <2>4. CASE UNCHANGED open
    BY <2>1, <2>3, <2>4
    DEF PositionsInv, PositionsSound, SoundPosition, EntriesAllowed,
        PositionsShareABar, FilledTogether
  <2>5. CASE Fills(e) /\ OpenPosition(e)
    <3>1. open' = Append(open, p)
      BY <2>5 DEF OpenPosition
    <3>2. qty \in Nat /\ qty # 0
      BY <1>0, <2>1, <2>5, SizeIsNat DEF Fills, FillQuantity, PendingEntry, Signal, Candle
    <3> HIDE DEF qty
    <3>3. /\ p \in Position /\ p.submit = t - 1 /\ p.fill = t
          /\ p.price = candle.open /\ p.signal = e.signal
          /\ p.qty = IF e.signal.side = "BUY" THEN qty ELSE -qty
      BY <1>0, <2>1, <2>2, <3>2 DEF Position, PendingEntry, Candle
    <3>4. (p.qty > 0 /\ p.price > p.signal.sl) \/ (p.qty < 0 /\ p.price < p.signal.sl)
      <4>1. e.signal.sl \in Int /\ e.signal.side \in {"BUY", "SELL"} /\ candle.open \in Int
        BY <1>0, <2>1 DEF PendingEntry, Signal, Candle
      <4>2. ~GappedPastStop(e.signal, candle.open)
        BY <2>5 DEF Fills
      <4> HIDE DEF p, e
      <4>3. CASE e.signal.side = "BUY"
        <5>1. candle.open > e.signal.sl
          BY <4>1, <4>2, <4>3 DEF GappedPastStop
        <5>2. p.qty = qty /\ p.price > p.signal.sl
          BY <3>3, <4>3, <5>1
        <5>3. p.qty > 0
          BY <3>2, <5>2
        <5>4. QED  BY <5>2, <5>3
      <4>4. CASE e.signal.side # "BUY"
        <5>1. candle.open < e.signal.sl
          BY <4>1, <4>2, <4>4 DEF GappedPastStop
        <5>2. p.qty = -qty /\ p.price < p.signal.sl
          BY <3>3, <4>4, <5>1
        <5>3. p.qty < 0
          BY <3>2, <5>2
        <5>4. QED  BY <5>2, <5>3
      <4>5. QED  BY <4>3, <4>4
    <3>5. SoundPosition(p)
      BY <1>0, <2>2, <2>5, <3>3, <3>4 DEF SoundPosition, Fills
    <3> HIDE DEF p
    <3>6. \A j \in 1 .. Len(open') : open'[j] = p \/ \E k \in 1 .. Len(open) : open'[j] = open[k]
      BY <1>0, <3>1, <3>3, AppendElements
    <3>7. \A q : SoundPosition(q) => SoundPosition(q)'
      BY <2>1 DEF SoundPosition, EntriesAllowed
    <3>8. PositionsSound'
      <4>1. \A j \in 1 .. Len(open') : SoundPosition(open'[j])
        BY <3>5, <3>6 DEF PositionsInv, PositionsSound
      <4>2. QED
        BY <2>1, <4>1 DEF PositionsSound, SoundPosition, EntriesAllowed
    <3>9. \A j \in 1 .. Len(open') : open'[j].submit = t - 1
      BY <2>3, <3>3, <3>6
    <3>10. QED
      BY <2>1, <3>8, <3>9 DEF PositionsInv, PositionsShareABar, FilledTogether
  <2>6. (UNCHANGED open) \/ (Fills(e) /\ OpenPosition(e))
    <3>1. pending[cursor + 1] = e
      BY <2>1
    <3> HIDE DEF e
    <3>2. QED  BY <1>6, <3>1 DEF FillPending
  <2>7. QED  BY <2>4, <2>5, <2>6
<1>7. ASSUME FillsDone PROVE PositionsInv'
  BY <1>7, <1>b DEF FillsDone
<1>8. ASSUME TakeSignal PROVE PositionsInv'
  BY <1>8, <1>b DEF TakeSignal
<1>9. ASSUME RecordEquityPoint PROVE PositionsInv'
  BY <1>9, <1>b DEF RecordEquityPoint
<1>10. ASSUME LastBarDone PROVE PositionsInv'
  BY <1>10, <1>b DEF LastBarDone
<1>11. ASSUME FinalFlatten PROVE PositionsInv'
  <2>1. CASE open # <<>>
    <3>1. 1 \in 1 .. Len(open)
      BY <1>0, <2>1
    <3>2. QED  BY <1>11, <1>c, <2>1, <3>1 DEF FinalFlatten
  <2>2. CASE open = <<>>
    BY <1>11, <1>b, <2>2 DEF FinalFlatten
  <2>3. QED  BY <2>1, <2>2
<1>12. CASE UNCHANGED vars
  <2>1. UNCHANGED <<open, t, phase, pending>>
    BY <1>12 DEF vars
  <2>2. QED
    BY <2>1 DEF PositionsInv, PositionsSound, SoundPosition, EntriesAllowed,
                PositionsShareABar, FilledTogether
<1>13. QED
  BY <1>1, <1>2, <1>3, <1>4, <1>5, <1>6, <1>7, <1>8, <1>9, <1>10, <1>11, <1>12
  DEF Next

\* What is open was filled in time and in session, under the limits.
THEOREM PositionsInvariant == Spec => []PositionsInv
  BY InitPositions, NextPositions, TypeCorrect, PendingInvariant, PTL DEF Spec

\* No look-ahead and no late fill, and the session gate open at both ends.
THEOREM FillsOnTheNextBar == Spec => []FillsNextBarInsideGate
<1>1. PositionsInv => FillsNextBarInsideGate
  BY DEF PositionsInv, PositionsSound, SoundPosition, FillsNextBarInsideGate
<1>2. QED  BY <1>1, PositionsInvariant, PTL

\* An entry is never added to a position of an earlier signal.
THEOREM PositionsNeverStack == Spec => []PositionsShareABar
<1>1. PositionsInv => PositionsShareABar
  BY DEF PositionsInv
<1>2. QED  BY <1>1, PositionsInvariant, PTL

-----------------------------------------------------------------------------
(***************************************************************************)
(* The locks. Every step that does not begin a day leaves the limits alone *)
(* or registers a closed trade with them.                                  *)
(***************************************************************************)
LimitsStep ==
  \/ lim' = lim
  \/ lim'.day # lim.day
  \/ \E pnl \in Int : lim' = RegisterTrade(lim, pnl)

LEMMA LimitsSteps == TypeOK /\ [Next]_vars => LimitsStep
<1> SUFFICES ASSUME TypeOK, [Next]_vars PROVE LimitsStep
  OBVIOUS
<1> USE DEF LimitsStep, market, account, tallies
<1>0. open \in Seq(Position) /\ candle \in Candle /\ cursor \in Nat
  BY DEF TypeOK
<1>1. ASSUME NextBar PROVE LimitsStep
  <2>1. t' \in 1 .. Len(Stamps)
    BY <1>1, StampsTyped DEF NextBar, TypeOK
  <2>2. Stamp'.day \in Nat
    BY <2>1, StampsTyped DEF Stamp
  <2>3. equity \in Int /\ lim \in LimitsStates
    BY DEF TypeOK
  <2>4. ResetForDay(lim, Stamp'.day, equity).day = Stamp'.day
    BY <2>2, <2>3, ResetOpensTheDay
  <2>5. QED  BY <1>1, <2>4 DEF NextBar
<1>2. ASSUME FlattenOne PROVE LimitsStep
  <2>1. open[1] \in Position /\ candle.open \in Int
    BY <1>0, <1>2 DEF FlattenOne, Candle
  <2>2. Pnl(open[1], candle.open) \in Int
    BY <2>1, PnlIsInt
  <2>3. QED  BY <1>2, <2>2 DEF FlattenOne, CloseAndRegister
<1>3. ASSUME ExamineStop PROVE LimitsStep
  <2> DEFINE p == open[cursor + 1]
  <2>1. p \in Position
    BY <1>0, <1>3 DEF ExamineStop
  <2> HIDE DEF p
  <2>2. p.signal.sl \in Int /\ p.signal.tp \in Int
    BY <2>1 DEF Position, Signal
  <2>3. StopExit(p) \in Int
    BY <2>2, EngineAssumption DEF StopExit
  <2>4. Pnl(p, StopExit(p)) \in Int /\ Pnl(p, p.signal.tp) \in Int
    BY <2>1, <2>2, <2>3, PnlIsInt
  <2>5. \/ lim' = RegisterTrade(lim, Pnl(p, StopExit(p)))
        \/ lim' = RegisterTrade(lim, Pnl(p, p.signal.tp))
        \/ lim' = lim
    BY <1>3 DEF ExamineStop, CloseAndRegister, p
  <2>6. QED  BY <2>4, <2>5
<1>4. ASSUME \/ FlattenDone \/ StopsDone \/ FillPending \/ FillsDone \/ TakeSignal
             \/ RecordEquityPoint \/ LastBarDone \/ FinalFlatten \/ UNCHANGED vars
      PROVE  LimitsStep
  BY <1>4 DEF FlattenDone, StopsDone, FillPending, FillsDone, TakeSignal,
              RecordEquityPoint, LastBarDone, FinalFlatten, vars
<1>5. QED  BY <1>1, <1>2, <1>3, <1>4 DEF Next

\* A day that is closed for trading stays closed until the next day begins.
THEOREM LocksHold == Spec => LocksHoldForTheDay
<1>1. TypeOK /\ [Next]_vars
      => [lim'.day = lim.day /\ ~CanTrade(lim) => ~CanTrade(lim')]_vars
  <2> SUFFICES ASSUME TypeOK, [Next]_vars, lim'.day = lim.day, ~CanTrade(lim)
               PROVE  ~CanTrade(lim')
    OBVIOUS
  <2>1. lim \in LimitsStates
    BY DEF TypeOK
  <2>2. lim' = lim \/ \E pnl \in Int : lim' = RegisterTrade(lim, pnl)
    BY LimitsSteps DEF LimitsStep
  <2>3. QED  BY <2>1, <2>2, RegisterTradeCounts
<1>2. QED  BY <1>1, TypeCorrect, PTL DEF Spec, LocksHoldForTheDay

-----------------------------------------------------------------------------
(***************************************************************************)
(* The risk of a position. The clip to MinQuantity is the one way a size   *)
(* can exceed the budget, hence the condition on it.                       *)
(***************************************************************************)

\* A product of naturals grows with its factor.
LEMMA ProductMonotone ==
  ASSUME NEW a \in Int, NEW b \in Int, NEW c \in Nat, a <= b
  PROVE  a * c <= b * c
  OBVIOUS

LEMMA DivisionFloors ==
  ASSUME NEW n \in Int, NEW d \in Nat \ {0}
  PROVE  n \div d \in Int /\ (n \div d) * d <= n /\ (n >= d => n \div d >= 1)
  OBVIOUS

\* A size that is not zero costs at most the budget at the stop.
LEMMA SizeWithinBudget ==
  ASSUME NEW eq \in Int, NEW entry \in Int, NEW sl \in Int, MinQuantity <= 1,
         SizePosition(eq, entry, sl) # 0
  PROVE  100 * TickValue * SizePosition(eq, entry, sl) * Distance(entry, sl)
           <= eq * RiskPct
<1> DEFINE dist == Distance(entry, sl)
           risk == dist * TickValue
           cost == risk * 100
           budget == eq * RiskPct
           q == budget \div cost
           size == SizePosition(eq, entry, sl)
<1>1. dist \in Int /\ TickValue \in Int
  BY SizingAssumption DEF Distance
<1>2. risk \in Int /\ budget \in Int
  BY <1>1, SizingAssumption
<1>3. /\ ~(risk <= 0 \/ risk * 100 > budget)
      /\ size = GreaterOf(MinQuantity, LesserOf(MaxQuantity, q))
  BY DEF SizePosition
<1> HIDE DEF dist
<1>4. 100 * TickValue * size * dist = size * cost
  <2>1. size \in Int
    BY SizeIsNat
  <2> HIDE DEF size
  <2>2. QED  BY <1>1, <2>1
<1> HIDE DEF risk, budget, size
<1>5. cost \in Nat \ {0} /\ budget >= cost
  BY <1>2, <1>3
<1> HIDE DEF cost
<1>6. q \in Int /\ q * cost <= budget /\ q >= 1
  BY <1>2, <1>5, DivisionFloors
<1> HIDE DEF q
<1>7. size \in Int /\ size <= q
  BY <1>3, <1>6, SizingAssumption DEF GreaterOf, LesserOf
<1>8. size * cost <= q * cost
  BY <1>5, <1>6, <1>7, ProductMonotone
<1>9. size * cost \in Int /\ q * cost \in Int
  BY <1>5, <1>6, <1>7
<1>10. size * cost <= budget
  BY <1>2, <1>6, <1>8, <1>9
<1>11. QED  BY <1>4, <1>10 DEF size, dist, budget

\* A position opened by any step risks at most its share of the equity.
THEOREM RiskIsBounded == Spec => RiskPerTrade
<1> DEFINE Bounded ==
      Len(open') > Len(open) /\ MinQuantity <= 1 =>
        LET p == open'[Len(open')] IN
          100 * TickValue * AbsVal(p.qty) * Distance(p.price, p.signal.sl)
            <= equity * RiskPct
<1>1. TypeOK /\ [Next]_vars => [Bounded]_vars
  <2> SUFFICES ASSUME TypeOK, [Next]_vars, Len(open') > Len(open), MinQuantity <= 1
               PROVE  LET p == open'[Len(open')] IN
                        100 * TickValue * AbsVal(p.qty) * Distance(p.price, p.signal.sl)
                          <= equity * RiskPct
    OBVIOUS
  <2>0. /\ open \in Seq(Position) /\ pending \in Seq(PendingEntry) /\ t \in Nat
        /\ candle \in Candle /\ equity \in Int /\ cursor \in Nat /\ Len(open) \in Nat
    BY DEF TypeOK
  <2>1. FillPending
    <3>1. \A i \in 1 .. Len(open) : Len(RemoveAt(open, i)) <= Len(open)
      BY <2>0, RemoveAtProperties
    <3>2. \A i \in 1 .. Len(open) : \A price, status :
            ~ClosePosition(i, price, status)
      BY <2>0, <3>1 DEF ClosePosition
    <3>3. open' # open
      BY <2>0
    <3>4. ~FlattenOne
      <4>1. open # <<>> => 1 \in 1 .. Len(open)
        BY <2>0
      <4>2. QED  BY <3>2, <4>1 DEF FlattenOne, CloseAndRegister
    <3>5. ~ExamineStop
      <4>1. cursor < Len(open) => cursor + 1 \in 1 .. Len(open)
        BY <2>0
      <4>2. QED  BY <3>2, <3>3, <4>1 DEF ExamineStop, CloseAndRegister, account
    <3>6. ~FinalFlatten
      <4>1. open # <<>> => 1 \in 1 .. Len(open)
        BY <2>0
      <4>2. QED  BY <3>2, <3>3, <4>1 DEF FinalFlatten, account
    <3>7. QED
      BY <3>3, <3>4, <3>5, <3>6
      DEF Next, NextBar, FlattenDone, StopsDone, FillsDone, TakeSignal,
          RecordEquityPoint, LastBarDone, vars, account
  <2> DEFINE e == pending[cursor + 1]
             qty == FillQuantity(e.signal, candle.open)
             p == [signal |-> e.signal, submit |-> e.submit, fill |-> t,
                   price |-> candle.open,
                   qty |-> IF e.signal.side = "BUY" THEN qty ELSE -qty]
  <2>2. e \in PendingEntry
    BY <2>0, <2>1 DEF FillPending
  <2>3. open' # open
    BY <2>0
  <2>4. open' = Append(open, p) /\ qty # 0
    BY <2>1, <2>3 DEF FillPending, OpenPosition, Fills
  <2>5. e.signal.sl \in Int /\ candle.open \in Int
    BY <2>0, <2>2 DEF PendingEntry, Signal, Candle
  <2>6. qty \in Nat /\ qty = SizePosition(equity, candle.open, e.signal.sl)
    BY <2>0, <2>5, SizeIsNat DEF FillQuantity
  <2> HIDE DEF e, qty
  <2>7. /\ p.price = candle.open /\ p.signal = e.signal
        /\ p.qty = IF e.signal.side = "BUY" THEN qty ELSE -qty
    OBVIOUS
  <2>8. p \in Position
    BY <2>0, <2>2, <2>5, <2>6 DEF Position, PendingEntry
  <2> HIDE DEF p
  <2>9. open'[Len(open')] = p
    BY <2>0, <2>4, <2>8
  <2>10. AbsVal(p.qty) = qty
    BY <2>6, <2>7 DEF AbsVal
  <2>11. 100 * TickValue * qty * Distance(candle.open, e.signal.sl) <= equity * RiskPct
    BY <2>0, <2>4, <2>5, <2>6, SizeWithinBudget
  <2>12. QED
    BY <2>7, <2>9, <2>10, <2>11
<1>2. QED  BY <1>1, TypeCorrect, PTL DEF Spec, RiskPerTrade

-----------------------------------------------------------------------------
(***************************************************************************)
(* The force-flat minute. A position is filled at a minute the gate leaves *)
(* open, which 16:30 is not, and the section that flattens is not left at  *)
(* 16:30 while anything is open.                                           *)
(***************************************************************************)
LEMMA NextCarried ==
  TypeOK /\ PendingInv /\ PositionsInv /\ NothingCarriedPast1630 /\ [Next]_vars
    => NothingCarriedPast1630'
<1> SUFFICES ASSUME TypeOK, PendingInv, PositionsInv, NothingCarriedPast1630, [Next]_vars,
                    EnforceKillzones
             PROVE  NothingCarriedPast1630'
  BY DEF NothingCarriedPast1630
<1> USE DEF market, account, tallies
<1>0. /\ pending \in Seq(PendingEntry) /\ open \in Seq(Position) /\ t \in 0 .. Len(Stamps)
      /\ cursor \in Nat /\ candle \in Candle /\ equity \in Int /\ t \in Nat
  BY StampsTyped DEF TypeOK
<1>f. \A i \in 1 .. Len(open) : open[i].fill \in Nat
  <2>1. \A i \in 1 .. Len(open) : open[i] \in Position
    BY <1>0
  <2>2. QED  BY <2>1 DEF Position
\* No position appears, the bar is the same, and 16:30 is not left behind.
<1>a. ASSUME \A i \in 1 .. Len(open') : \E k \in 1 .. Len(open) : open'[i] = open[k],
             UNCHANGED t, phase = "flat" /\ FlatBar(t) => phase' = "flat" \/ open' = <<>>
      PROVE  NothingCarriedPast1630'
  <2> SUFFICES ASSUME NEW i \in 1 .. Len(open'), NEW j \in open'[i].fill .. t, FlatBar(j)
               PROVE  j = t /\ phase' = "flat"
    BY <1>a DEF NothingCarriedPast1630, FlatBar
  <2>1. PICK k \in 1 .. Len(open) : open'[i] = open[k]
    BY <1>a
  <2>2. j = t /\ phase = "flat"
    BY <2>1 DEF NothingCarriedPast1630
  <2>3. open' # <<>>
    OBVIOUS
  <2>4. QED  BY <1>a, <2>2, <2>3
<1>c. ASSUME NEW i \in 1 .. Len(open), NEW price, NEW status,
             ClosePosition(i, price, status), UNCHANGED t, phase = "flat" => phase' = "flat"
      PROVE  NothingCarriedPast1630'
  <2>1. \A j \in 1 .. Len(RemoveAt(open, i)) :
          \E k \in 1 .. Len(open) : RemoveAt(open, i)[j] = open[k]
    BY <1>0, RemoveAtProperties
  <2>2. QED  BY <1>a, <1>c, <2>1 DEF ClosePosition
<1>1. ASSUME NextBar PROVE NothingCarriedPast1630'
  BY <1>0, <1>1, <1>f DEF NextBar, NothingCarriedPast1630, FlatBar
<1>2. ASSUME FlattenOne PROVE NothingCarriedPast1630'
  <2>1. 1 \in 1 .. Len(open)
    BY <1>0, <1>2 DEF FlattenOne
  <2>2. QED  BY <1>2, <1>c, <2>1 DEF FlattenOne, CloseAndRegister
<1>3. ASSUME FlattenDone PROVE NothingCarriedPast1630'
  BY <1>3, <1>a DEF FlattenDone
<1>4. ASSUME ExamineStop PROVE NothingCarriedPast1630'
  <2>1. cursor + 1 \in 1 .. Len(open) /\ phase = "stops" /\ UNCHANGED t
    BY <1>0, <1>4 DEF ExamineStop
  <2>2. CASE UNCHANGED <<account, lim>>
    BY <1>a, <2>1, <2>2
  <2>3. QED  BY <1>4, <1>c, <2>1, <2>2 DEF ExamineStop, CloseAndRegister
<1>5. ASSUME FillPending PROVE NothingCarriedPast1630'
  <2> DEFINE e == pending[1]
             qty == FillQuantity(e.signal, candle.open)
             p == [signal |-> e.signal, submit |-> e.submit, fill |-> t,
                   price |-> candle.open,
                   qty |-> IF e.signal.side = "BUY" THEN qty ELSE -qty]
  <2>1. /\ cursor + 1 = 1 /\ 1 \in 1 .. Len(pending) /\ e \in PendingEntry
        /\ phase = "fill" /\ UNCHANGED <<phase, t>>
    BY <1>0, <1>5 DEF FillPending, PendingInv, FillsFromTheFront
  <2>2. pending[cursor + 1] = e
    BY <2>1
  <2>3. CASE UNCHANGED open
    BY <1>a, <2>1, <2>3
  <2>4. CASE Fills(e) /\ OpenPosition(e)
    <3>1. open' = Append(open, p)
      BY <2>4 DEF OpenPosition
    <3>2. qty \in Nat
      BY <1>0, <2>1, SizeIsNat DEF FillQuantity, PendingEntry, Signal, Candle
    <3> HIDE DEF qty
    <3>3. p \in Position /\ p.fill = t
      BY <1>0, <2>1, <3>2 DEF Position, PendingEntry, Candle
    <3>4. ~FlatBar(t)
      <4>1. t \in 1 .. Len(Stamps)
        BY <1>0, <2>1 DEF PendingInv, PendingSubmitted
      <4>2. Stamps[t].minute \in Minutes /\ NewEntriesAllowed(Stamps[t].minute)
        BY <2>4, <4>1, StampsTyped DEF Fills, EntriesAllowed
      <4>3. QED  BY <4>2, NoEntryAt1630 DEF FlatBar
    <3> HIDE DEF p
    <3>5. \A i \in 1 .. Len(open') : open'[i] = p \/ \E k \in 1 .. Len(open) : open'[i] = open[k]
      BY <1>0, <3>1, <3>3, AppendElements
    <3>6. QED
      BY <1>0, <1>f, <2>1, <3>3, <3>4, <3>5 DEF NothingCarriedPast1630, FlatBar
  <2>5. (UNCHANGED open) \/ (Fills(e) /\ OpenPosition(e))
    <3> HIDE DEF e
    <3>1. QED  BY <1>5, <2>2 DEF FillPending
  <2>6. QED  BY <2>3, <2>4, <2>5
<1>6. ASSUME FinalFlatten PROVE NothingCarriedPast1630'
  <2>1. CASE open # <<>>
    <3>1. 1 \in 1 .. Len(open)
      BY <1>0, <2>1
    <3>2. QED  BY <1>6, <1>c, <2>1, <3>1 DEF FinalFlatten
  <2>2. CASE open = <<>>
    BY <1>6, <1>a, <2>2 DEF FinalFlatten
  <2>3. QED  BY <2>1, <2>2
<1>7. ASSUME \/ StopsDone \/ FillsDone \/ TakeSignal \/ RecordEquityPoint \/ LastBarDone
             \/ UNCHANGED vars
      PROVE  NothingCarriedPast1630'
  BY <1>7, <1>a
  DEF StopsDone, FillsDone, TakeSignal, RecordEquityPoint, LastBarDone, vars
<1>8. QED  BY <1>1, <1>2, <1>3, <1>4, <1>5, <1>6, <1>7 DEF Next

\* With the entry windows enforced no position outlives a 16:30 bar.
THEOREM FlatAfter1630 == Spec => []NothingCarriedPast1630
<1>1. Init => NothingCarriedPast1630
  BY DEF Init, NothingCarriedPast1630
<1>2. QED
  BY <1>1, NextCarried, TypeCorrect, PendingInvariant, PositionsInvariant, PTL DEF Spec

-----------------------------------------------------------------------------
(***************************************************************************)
(* The books. A signal moves from the bar to the pending list or to the    *)
(* skipped, from there to the positions or to the skipped, from there to   *)
(* the trades.                                                             *)
(***************************************************************************)
LEMMA NextAccounted ==
  TypeOK /\ PendingInv /\ SignalsAccounted /\ [Next]_vars => SignalsAccounted'
<1> SUFFICES ASSUME TypeOK, PendingInv, SignalsAccounted, [Next]_vars PROVE SignalsAccounted'
  OBVIOUS
<1> USE DEF SignalsAccounted, market, account, tallies
<1>0. /\ pending \in Seq(PendingEntry) /\ open \in Seq(Position) /\ trades \in Seq(Trade)
      /\ Len(pending) \in Nat /\ Len(open) \in Nat /\ Len(trades) \in Nat
      /\ cursor \in Nat /\ skipped \in Nat /\ nextId \in Nat /\ seen \in Nat
  BY DEF TypeOK
\* A close moves one from the positions to the trades.
<1>c. ASSUME NEW i \in 1 .. Len(open), NEW price, NEW status,
             ClosePosition(i, price, status), UNCHANGED <<pending, tallies>>
      PROVE  SignalsAccounted'
  <2>1. Len(open') = Len(open) - 1
    BY <1>0, <1>c, RemoveAtProperties DEF ClosePosition
  <2>2. Len(trades') = Len(trades) + 1
    BY <1>0, <1>c DEF ClosePosition
  <2>3. QED  BY <1>0, <1>c, <2>1, <2>2
<1>1. ASSUME FlattenOne PROVE SignalsAccounted'
  <2>1. 1 \in 1 .. Len(open)
    BY <1>0, <1>1 DEF FlattenOne
  <2>2. QED  BY <1>1, <1>c, <2>1 DEF FlattenOne, CloseAndRegister
<1>2. ASSUME ExamineStop PROVE SignalsAccounted'
  <2>1. cursor + 1 \in 1 .. Len(open) /\ UNCHANGED <<pending, tallies>>
    BY <1>0, <1>2 DEF ExamineStop
  <2>2. CASE UNCHANGED <<account, lim>>
    BY <2>1, <2>2
  <2>3. QED  BY <1>2, <1>c, <2>1, <2>2 DEF ExamineStop, CloseAndRegister
<1>3. ASSUME FillPending PROVE SignalsAccounted'
  <2> DEFINE e == pending[cursor + 1]
  <2>1. cursor + 1 \in 1 .. Len(pending)
    BY <1>0, <1>3 DEF FillPending
  <2>2. Len(RemoveAt(pending, cursor + 1)) = Len(pending) - 1
    BY <1>0, <2>1, RemoveAtProperties
  <2>3. OpenPosition(e) => Len(open') = Len(open) + 1 /\ nextId' = nextId + 1
    BY <1>0 DEF OpenPosition
  <2>4. UNCHANGED <<trades, seen>>
    BY <1>3 DEF FillPending
  <2> HIDE DEF e
  <2>5. \/ UNCHANGED <<pending, open, nextId, skipped>>
        \/ /\ pending' = RemoveAt(pending, cursor + 1)
           /\ OpenPosition(e) /\ UNCHANGED skipped
        \/ /\ pending' = RemoveAt(pending, cursor + 1)
           /\ skipped' = skipped + 1 /\ UNCHANGED <<open, nextId>>
    BY <1>3 DEF FillPending, e
  <2>6. CASE UNCHANGED <<pending, open, nextId, skipped>>
    BY <2>4, <2>6
  <2>7. CASE /\ pending' = RemoveAt(pending, cursor + 1)
             /\ OpenPosition(e) /\ UNCHANGED skipped
    <3>1. Len(pending') = Len(pending) - 1 /\ Len(open') = Len(open) + 1 /\ nextId' = nextId + 1
      BY <2>2, <2>3, <2>7
    <3>2. skipped' = skipped /\ seen' = seen /\ Len(trades') = Len(trades)
      BY <2>4, <2>7
    <3>3. seen = skipped + Len(pending) + Len(open) + Len(trades)
          /\ nextId = 1 + Len(open) + Len(trades)
      OBVIOUS
    <3> HIDE DEF SignalsAccounted
    <3>4. /\ seen' = skipped' + Len(pending') + Len(open') + Len(trades')
          /\ nextId' = 1 + Len(open') + Len(trades')
      BY <1>0, <3>1, <3>2, <3>3
    <3>5. QED  BY <3>4 DEF SignalsAccounted
  <2>8. CASE /\ pending' = RemoveAt(pending, cursor + 1)
             /\ skipped' = skipped + 1 /\ UNCHANGED <<open, nextId>>
    <3>1. Len(pending') = Len(pending) - 1
      BY <2>2, <2>8
    <3>2. QED  BY <1>0, <2>4, <2>8, <3>1
  <2>9. QED  BY <2>5, <2>6, <2>7, <2>8
<1>4. ASSUME TakeSignal PROVE SignalsAccounted'
  <2>1. seen' = seen + 1 /\ UNCHANGED <<account, nextId>>
    BY <1>4 DEF TakeSignal
  <2>2. \/ Len(pending') = Len(pending) + 1 /\ UNCHANGED skipped
        \/ skipped' = skipped + 1 /\ UNCHANGED pending
    BY <1>0, <1>4 DEF TakeSignal
  <2>3. QED  BY <1>0, <2>1, <2>2
<1>5. ASSUME FinalFlatten PROVE SignalsAccounted'
  <2>1. CASE open # <<>>
    <3>1. 1 \in 1 .. Len(open)
      BY <1>0, <2>1
    <3>2. QED  BY <1>5, <1>c, <2>1, <3>1 DEF FinalFlatten
  <2>2. CASE open = <<>>
    BY <1>5, <2>2 DEF FinalFlatten
  <2>3. QED  BY <2>1, <2>2
<1>6. ASSUME \/ NextBar \/ FlattenDone \/ StopsDone \/ FillsDone \/ RecordEquityPoint
             \/ LastBarDone \/ UNCHANGED vars
      PROVE  SignalsAccounted'
  BY <1>6 DEF NextBar, FlattenDone, StopsDone, FillsDone, RecordEquityPoint, LastBarDone, vars
<1>7. QED  BY <1>1, <1>2, <1>3, <1>4, <1>5, <1>6 DEF Next

\* Every signal taken is skipped, waiting, open or closed, and once.
THEOREM EverySignalAccounted == Spec => []SignalsAccounted
<1>1. Init => SignalsAccounted
  BY DEF Init, SignalsAccounted
<1>2. QED  BY <1>1, NextAccounted, TypeCorrect, PendingInvariant, PTL DEF Spec

-----------------------------------------------------------------------------
(***************************************************************************)
(* A stop costs: the fill is on the proper side of it, it slips further    *)
(* away, and the commission comes on top.                                  *)
(***************************************************************************)
LEMMA ProductIsNegative ==
  ASSUME NEW a \in Int, NEW b \in Int, (a < 0 /\ b > 0) \/ (a > 0 /\ b < 0)
  PROVE  a * b \in Int /\ a * b < 0
  OBVIOUS

LEMMA ProductIsNatural ==
  ASSUME NEW a \in Nat, NEW b \in Nat
  PROVE  a * b \in Nat
  OBVIOUS

LEMMA StopCosts ==
  ASSUME NEW p \in Position,
         \/ p.qty > 0 /\ p.price > p.signal.sl
         \/ p.qty < 0 /\ p.price < p.signal.sl
  PROVE  Pnl(p, StopExit(p)) < 0
<1> DEFINE move == StopExit(p) - p.price
           value == move * TickValue
           paid == 2 * Commission * AbsVal(p.qty)
<1>1. p.price \in Int /\ p.qty \in Int /\ p.signal.sl \in Int
  BY DEF Position, Signal
<1>2. TickValue \in Int /\ TickValue > 0 /\ SlippageTicks \in Nat /\ Commission \in Nat
  BY SizingAssumption, EngineAssumption
<1>3. move \in Int /\ ((move < 0 /\ p.qty > 0) \/ (move > 0 /\ p.qty < 0))
  BY <1>1, <1>2 DEF StopExit
<1>4. paid \in Nat
  <2>1. AbsVal(p.qty) \in Nat /\ 2 * Commission \in Nat
    BY <1>1, <1>2 DEF AbsVal
  <2> HIDE DEF move
  <2>2. QED  BY <2>1, ProductIsNatural
<1>5. Pnl(p, StopExit(p)) = value * p.qty - paid
  BY DEF Pnl
<1> HIDE DEF move, paid
<1>6. value \in Int /\ ((value < 0 /\ p.qty > 0) \/ (value > 0 /\ p.qty < 0))
  <2>1. CASE move < 0 /\ p.qty > 0
    BY <1>2, <1>3, <2>1, ProductIsNegative
  <2>2. CASE move > 0 /\ p.qty < 0
    BY <1>2, <1>3, <2>2
  <2>3. QED  BY <1>3, <2>1, <2>2
<1> HIDE DEF value
<1>7. value * p.qty \in Int /\ value * p.qty < 0
  BY <1>1, <1>6, ProductIsNegative
<1>8. QED  BY <1>4, <1>5, <1>7

LEMMA NextStops ==
  TypeOK /\ PositionsInv /\ StopExitLoses /\ [Next]_vars => StopExitLoses'
<1> SUFFICES ASSUME TypeOK, PositionsInv, StopExitLoses, [Next]_vars PROVE StopExitLoses'
  OBVIOUS
<1> USE DEF market, account, tallies
<1>0. trades \in Seq(Trade) /\ open \in Seq(Position) /\ cursor \in Nat /\ candle \in Candle
  BY DEF TypeOK
<1>a. ASSUME UNCHANGED trades PROVE StopExitLoses'
  BY <1>a DEF StopExitLoses
<1>c. ASSUME NEW i \in 1 .. Len(open), NEW price \in Int,
             NEW status \in {"CLOSED_SL", "CLOSED_TP", "CLOSED_FLAT"},
             ClosePosition(i, price, status), status = "CLOSED_SL" => Pnl(open[i], price) < 0
      PROVE  StopExitLoses'
  <2> DEFINE new == [pnl |-> Pnl(open[i], price), status |-> status]
  <2>1. Pnl(open[i], price) \in Int
    <3>1. open[i] \in Position
      BY <1>0
    <3>2. QED  BY <3>1, PnlIsInt
  <2>2. new \in Trade /\ (new.status = "CLOSED_SL" => new.pnl < 0)
    BY <1>c, <2>1 DEF Trade
  <2>3. trades' = Append(trades, new)
    BY <1>c DEF ClosePosition
  <2> HIDE DEF new
  <2>4. /\ Len(trades') = Len(trades) + 1 /\ trades'[Len(trades) + 1] = new
        /\ \A j \in 1 .. Len(trades) : trades'[j] = trades[j]
    BY <1>0, <2>2, <2>3, AppendElements
  <2>5. \A j \in 1 .. Len(trades') : j \in 1 .. Len(trades) \/ j = Len(trades) + 1
    BY <1>0, <2>4
  <2>6. QED  BY <2>2, <2>4, <2>5 DEF StopExitLoses
<1>1. ASSUME FlattenOne PROVE StopExitLoses'
  <2>1. 1 \in 1 .. Len(open) /\ candle.open \in Int
    BY <1>0, <1>1 DEF FlattenOne, Candle
  <2>2. QED  BY <1>1, <1>c, <2>1 DEF FlattenOne, CloseAndRegister
<1>2. ASSUME ExamineStop PROVE StopExitLoses'
  <2> DEFINE p == open[cursor + 1]
  <2>1. cursor + 1 \in 1 .. Len(open) /\ p \in Position /\ SoundPosition(p)
    BY <1>0, <1>2 DEF ExamineStop, PositionsInv, PositionsSound
  <2>2. Pnl(p, StopExit(p)) < 0
    <3> HIDE DEF p
    <3>1. QED  BY <2>1, StopCosts DEF SoundPosition
  <2>3. StopExit(p) \in Int /\ p.signal.tp \in Int
    <3> HIDE DEF p
    <3>1. p.signal.sl \in Int /\ p.signal.tp \in Int
      BY <2>1 DEF Position, Signal
    <3>2. QED  BY <3>1, EngineAssumption DEF StopExit
  <2>4. CASE ClosePosition(cursor + 1, StopExit(p), "CLOSED_SL")
    BY <1>c, <2>1, <2>2, <2>3, <2>4
  <2>5. CASE ClosePosition(cursor + 1, p.signal.tp, "CLOSED_TP")
    BY <1>c, <2>1, <2>3, <2>5
  <2>6. CASE UNCHANGED <<account, lim>>
    BY <1>a, <2>6
  <2>7. QED  BY <1>2, <2>4, <2>5, <2>6 DEF ExamineStop, CloseAndRegister
<1>3. ASSUME FinalFlatten PROVE StopExitLoses'
  <2>1. CASE open # <<>>
    <3>1. 1 \in 1 .. Len(open) /\ candle.open \in Int
      BY <1>0, <2>1 DEF Candle
    <3>2. QED  BY <1>3, <1>c, <2>1, <3>1 DEF FinalFlatten
  <2>2. CASE open = <<>>
    BY <1>3, <1>a, <2>2 DEF FinalFlatten
  <2>3. QED  BY <2>1, <2>2
<1>4. ASSUME \/ NextBar \/ FlattenDone \/ StopsDone \/ FillPending \/ FillsDone \/ TakeSignal
             \/ RecordEquityPoint \/ LastBarDone \/ UNCHANGED vars
      PROVE  StopExitLoses'
  BY <1>4, <1>a DEF NextBar, FlattenDone, StopsDone, FillPending, FillsDone, TakeSignal,
                    RecordEquityPoint, LastBarDone, vars
<1>5. QED  BY <1>1, <1>2, <1>3, <1>4 DEF Next

\* A stop always costs, so it always feeds the loss and the streak.
THEOREM StopsLose == Spec => []StopExitLoses
<1>1. Init => StopExitLoses
  BY DEF Init, StopExitLoses
<1>2. QED  BY <1>1, NextStops, TypeCorrect, PositionsInvariant, PTL DEF Spec
-----------------------------------------------------------------------------
(***************************************************************************)
(* The paper broker beside the engine. What the two accounts can differ by *)
(* while a bar is under way depends on which of the two has closed the     *)
(* position already: neither, the broker on the open, or the engine at its *)
(* section 2 with the broker's exit among the prices still to come.        *)
(***************************************************************************)
PaperTyped ==
  /\ pFed \subseteq {X}
  /\ pLast \in [{X} -> Int]
  /\ pPositions \in [{X} -> [qty : Int, price : Int, id : Nat]]
  /\ pBrackets \in [{X} -> [armed : BOOLEAN, sl : Int, tp : Int]]
  /\ pEquity \in Int
  /\ entrySlip \in Int

\* The broker's sums are sums.
LEMMA BrokerSums ==
  ASSUME NEW f
  PROVE  Paper!SumFunction(f) = SumFunction(f)
BY Zenon DEF Paper!SumFunction, SumFunction, Paper!SumFunctionOnSet, SumFunctionOnSet,
             Paper!FoldFunctionOnSet, FoldFunctionOnSet, Paper!MapThenFoldSet, MapThenFoldSet

\* The sum over one index.
LEMMA SumOfOne ==
  ASSUME NEW x, NEW f, DOMAIN f = {x}, f[x] \in Int
  PROVE  SumFunction(f) = f[x]
<1>1. IsFiniteSet({}) /\ x \notin {} /\ \A y \in {} \cup {x} : f[y] \in Int
  BY FS_EmptySet
<1>2. SumFunctionOnSet(f, {} \cup {x}) = f[x] + SumFunctionOnSet(f, {})
  BY <1>1, SumAdd
<1>3. SumFunctionOnSet(f, {}) = 0
  BY SumEmpty
<1>4. {} \cup {x} = {x}
  OBVIOUS
<1>5. SumFunctionOnSet(f, {x}) = f[x]
  BY <1>2, <1>3, <1>4
<1>6. QED  BY <1>5 DEF SumFunction

\* What a close of the one symbol at a price is worth to the broker.
Closing(price) == Paper!MoveUsd(X, price) - Paper!CommissionUsd(X)

\* The money of a close is an integer.
LEMMA ClosingIsInt ==
  ASSUME PaperTyped, NEW price \in Int
  PROVE  Closing(price) \in Int
<1>1. pPositions[X].qty \in Int /\ pPositions[X].price \in Int
  BY DEF PaperTyped
<1>2. TickValue \in Int /\ Commission \in Int
  BY SizingAssumption, EngineAssumption
<1>3. \A a \in Int, b \in Int : a * b \in Int
  OBVIOUS
<1>4. price - pPositions[X].price \in Int /\ Paper!Magnitude(pPositions[X].qty) \in Int
  BY <1>1 DEF Paper!Magnitude
<1>5. (price - pPositions[X].price) * TickValue * pPositions[X].qty \in Int
  BY <1>1, <1>2, <1>3, <1>4
<1>6. 2 * Commission * Paper!Magnitude(pPositions[X].qty) \in Int
  BY <1>2, <1>3, <1>4
<1>7. QED  BY <1>5, <1>6 DEF Closing, Paper!MoveUsd, Paper!CommissionUsd

\* A close of the one symbol, and of none.
LEMMA ClosesOne ==
  ASSUME PaperTyped, NEW exits, DOMAIN exits = {X}, exits[X] \in Int, Paper!Close(exits)
  PROVE  /\ pEquity' = pEquity + Closing(exits[X])
         /\ ~Paper!Held(X)'
         /\ pPositions' \in [{X} -> [qty : Int, price : Int, id : Nat]]
         /\ pBrackets' \in [{X} -> [armed : BOOLEAN, sl : Int, tp : Int]]
<1> DEFINE f == [s \in DOMAIN exits |-> Paper!MoveUsd(s, exits[s]) - Paper!CommissionUsd(s)]
<1>1. DOMAIN f = {X} /\ f[X] = Closing(exits[X])
  BY DEF Closing
<1>2. pEquity' = pEquity + SumFunction(f)
  BY BrokerSums, Zenon DEF Paper!Close
<1> HIDE DEF f
<1>3. f[X] \in Int
  BY <1>1, ClosingIsInt
<1>4. SumFunction(f) = f[X]
  BY <1>1, <1>3, SumOfOne
<1>5. /\ pPositions' = [s \in {X} |-> IF s \in {X} THEN Paper!Flat ELSE pPositions[s]]
      /\ pBrackets' = [s \in {X} |-> IF s \in {X} THEN Paper!NoBracket ELSE pBrackets[s]]
  BY DEF Paper!Close
<1>6. /\ pPositions' \in [{X} -> [qty : Int, price : Int, id : Nat]]
      /\ pBrackets' \in [{X} -> [armed : BOOLEAN, sl : Int, tp : Int]]
      /\ pPositions'[X].qty = 0
  BY <1>5 DEF Paper!Flat, Paper!NoBracket
<1>7. QED  BY <1>1, <1>2, <1>4, <1>6 DEF Paper!Held

\* A close of nothing changes nothing.
LEMMA ClosesNone ==
  ASSUME PaperTyped, NEW exits, DOMAIN exits = {}, Paper!Close(exits)
  PROVE  UNCHANGED <<pEquity, pPositions, pBrackets>>
<1> DEFINE f == [s \in DOMAIN exits |-> Paper!MoveUsd(s, exits[s]) - Paper!CommissionUsd(s)]
<1>1. DOMAIN f = {}
  OBVIOUS
<1>2. pEquity' = pEquity + SumFunction(f)
  BY BrokerSums, Zenon DEF Paper!Close
<1> HIDE DEF f
<1>3. SumFunction(f) = 0
  BY <1>1, SumEmpty DEF SumFunction
<1>4. UNCHANGED pEquity
  <2>1. \A n \in Int : n + 0 = n
    OBVIOUS
  <2>2. pEquity \in Int
    BY DEF PaperTyped
  <2>3. QED  BY <1>2, <1>3, <2>1, <2>2, Zenon
<1>5. /\ pPositions' = [s \in {X} |-> pPositions[s]]
      /\ pBrackets' = [s \in {X} |-> pBrackets[s]]
  BY DEF Paper!Close
<1>6. pPositions = [s \in {X} |-> pPositions[s]] /\ pBrackets = [s \in {X} |-> pBrackets[s]]
  BY DEF PaperTyped
<1>7. QED  BY <1>4, <1>5, <1>6

\* What the broker does with a price: its bracket is touched by it or not.
Touches(price) ==
  /\ Paper!Held(X) /\ pBrackets[X].armed
  /\ Paper!StopTouched(X, price) \/ Paper!TargetTouched(X, price)

\* So is the price a bracket exits at.
LEMMA ExitIsInt ==
  ASSUME PaperTyped, NEW price \in Int
  PROVE  Paper!BracketExit(X, price) \in Int
<1>1. pBrackets[X].sl \in Int /\ pBrackets[X].tp \in Int /\ SlippageTicks \in Int
  BY EngineAssumption DEF PaperTyped
<1>2. Paper!Against(X) \in Int
  BY <1>1 DEF Paper!Against
<1>3. QED  BY <1>1, <1>2 DEF Paper!BracketExit

\* What a price does to the broker: nothing, or it closes at the exit.
LEMMA PaperFeeds ==
  ASSUME PaperTyped, NEW price \in Int, Paper!FeedPrice(X, price), UNCHANGED entrySlip
  PROVE  /\ PaperTyped'
         /\ pConnected' = pConnected /\ X \in pFed' /\ pLast'[X] = price
         /\ ~Touches(price) => UNCHANGED <<pEquity, pPositions, pBrackets>>
         /\ Touches(price) => /\ ~Paper!Held(X)'
                              /\ pEquity' = pEquity + Closing(Paper!BracketExit(X, price))
<1>1. /\ pConnected' = pConnected /\ pFed' = pFed \cup {X}
      /\ pLast' \in [{X} -> Int] /\ pLast'[X] = price
  BY DEF Paper!FeedPrice, PaperTyped
<1>2. CASE ~Touches(price)
  <2>1. UNCHANGED <<pEquity, pPositions, pBrackets>>
    BY <1>2 DEF Paper!FeedPrice, Touches
  <2>2. QED  BY <1>1, <1>2, <2>1 DEF PaperTyped
<1>3. CASE Touches(price)
  <2> DEFINE exits == [x \in {X} |-> Paper!BracketExit(x, price)]
  <2>1. Paper!Close(exits)
    BY <1>3 DEF Paper!FeedPrice, Touches
  <2>2. DOMAIN exits = {X} /\ exits[X] = Paper!BracketExit(X, price) /\ exits[X] \in Int
    BY ExitIsInt
  <2> HIDE DEF exits
  <2>3. /\ pEquity' = pEquity + Closing(Paper!BracketExit(X, price))
        /\ ~Paper!Held(X)'
        /\ pPositions' \in [{X} -> [qty : Int, price : Int, id : Nat]]
        /\ pBrackets' \in [{X} -> [armed : BOOLEAN, sl : Int, tp : Int]]
    BY <2>1, <2>2, ClosesOne
  <2>4. Closing(Paper!BracketExit(X, price)) \in Int
    BY ExitIsInt, ClosingIsInt
  <2>5. pEquity' \in Int
    BY <2>3, <2>4 DEF PaperTyped
  <2>6. QED  BY <1>1, <1>3, <2>3, <2>5 DEF PaperTyped
<1>4. QED  BY <1>2, <1>3

\* What a flatten does: it closes at the last price seen, if a position is held.
LEMMA PaperFlattens ==
  ASSUME PaperTyped, X \in pFed, Paper!FlattenAll({X}), UNCHANGED entrySlip
  PROVE  /\ PaperTyped'
         /\ UNCHANGED <<pConnected, pFed, pLast>>
         /\ ~Paper!Held(X) => UNCHANGED <<pEquity, pPositions, pBrackets>>
         /\ Paper!Held(X) => ~Paper!Held(X)' /\ pEquity' = pEquity + Closing(pLast[X])
<1> DEFINE exits == [s \in {x \in {X} \cap pFed : Paper!Held(x)} |-> pLast[s]]
<1>1. Paper!Close(exits) /\ UNCHANGED <<pConnected, pFed, pLast>>
  BY DEF Paper!FlattenAll
<1>2. CASE ~Paper!Held(X)
  <2>1. DOMAIN exits = {}
    BY <1>2
  <2> HIDE DEF exits
  <2>2. UNCHANGED <<pEquity, pPositions, pBrackets>>
    BY <1>1, <2>1, ClosesNone
  <2>3. QED  BY <1>1, <1>2, <2>2 DEF PaperTyped
<1>3. CASE Paper!Held(X)
  <2>1. DOMAIN exits = {X} /\ exits[X] = pLast[X] /\ exits[X] \in Int
    BY <1>3 DEF PaperTyped
  <2> HIDE DEF exits
  <2>2. /\ pEquity' = pEquity + Closing(pLast[X])
        /\ ~Paper!Held(X)'
        /\ pPositions' \in [{X} -> [qty : Int, price : Int, id : Nat]]
        /\ pBrackets' \in [{X} -> [armed : BOOLEAN, sl : Int, tp : Int]]
    BY <1>1, <2>1, ClosesOne
  <2>3. Closing(pLast[X]) \in Int
    BY ClosingIsInt DEF PaperTyped
  <2>4. QED  BY <1>1, <1>3, <2>2, <2>3 DEF PaperTyped
<1>4. QED  BY <1>2, <1>3

\* What an order does: it opens a position with a slip, under its bracket.
LEMMA PaperSubmits ==
  ASSUME PaperTyped, nextId \in Nat, NEW q \in Int, NEW sl \in Int, NEW tp \in Int,
         Paper!SubmitMarket(X, q, sl, tp), entrySlip' \in Int
  PROVE  /\ PaperTyped'
         /\ UNCHANGED <<pConnected, pFed, pLast, pEquity>>
         /\ ~Paper!Held(X)
         /\ pPositions'[X].qty = q
         /\ pPositions'[X].price = pLast[X] + (IF q > 0 THEN SlippageTicks ELSE -SlippageTicks)
         /\ pBrackets'[X] = [armed |-> TRUE, sl |-> sl, tp |-> tp]
<1>1. SlippageTicks \in Int
  BY EngineAssumption
<1>2. pLast[X] + (IF q > 0 THEN SlippageTicks ELSE -SlippageTicks) \in Int
  BY <1>1 DEF PaperTyped
<1>3. QED  BY <1>1, <1>2 DEF Paper!SubmitMarket, PaperTyped

-----------------------------------------------------------------------------
\* What a bar c does to a position: the levels it reaches, and the price at
\* which the engine closes there.
StopIn(c, p) == IF p.qty > 0 THEN c.low <= p.signal.sl ELSE c.high >= p.signal.sl
TargetIn(c, p) == IF p.qty > 0 THEN c.high >= p.signal.tp ELSE c.low <= p.signal.tp
Reached(c, p) == StopIn(c, p) \/ TargetIn(c, p)
ExitIn(c, p) == IF StopIn(c, p) THEN StopExit(p) ELSE p.signal.tp

\* The extreme of the bar that is sure to touch the bracket.
DecidingPrice(c, p) == IF StopIn(c, p) <=> p.qty > 0 THEN c.low ELSE c.high

SlipUsd(p) == SlippageTicks * TickValue * AbsVal(p.qty)

\* The quantity has the sign of the side, and the levels are in order.
Sided(p) ==
  /\ OrderedLevels(p.signal)
  /\ p.qty # 0
  /\ p.qty > 0 <=> p.signal.side = "BUY"

\* The broker holds the position p too, from a fill that slipped.
Twin(p) ==
  /\ pPositions[X].qty = p.qty
  /\ pPositions[X].price = p.price + (IF p.qty > 0 THEN SlippageTicks ELSE -SlippageTicks)
  /\ pBrackets[X] = [armed |-> TRUE, sl |-> p.signal.sl, tp |-> p.signal.tp]

\* The engine's guards, read on the candle of the bar.
LEMMA LevelsOfCandle ==
  ASSUME NEW p
  PROVE  /\ StopHit(p) <=> StopIn(candle, p)
         /\ TargetHit(p) <=> ~StopIn(candle, p) /\ TargetIn(candle, p)
         /\ Touched(p) <=> Reached(candle, p)
         /\ Ambiguous(p) <=> StopIn(candle, p) /\ TargetIn(candle, p)
BY DEF StopHit, TargetHit, Touched, Ambiguous, StopIn, TargetIn, Reached

\* A price against the trader splits into the price and the slip.
LEMMA SlipSplits ==
  ASSUME NEW a \in Int, NEW d \in Int, NEW v \in Int, NEW q \in Int
  PROVE  (a - d) * v * q = a * v * q - d * v * q
OBVIOUS

\* The slip is an integer.
LEMMA SlipIsInt ==
  ASSUME NEW p \in Position
  PROVE  SlipUsd(p) \in Int
<1>1. AbsVal(p.qty) \in Int /\ SlippageTicks \in Int /\ TickValue \in Int
  BY SizingAssumption, EngineAssumption DEF Position, AbsVal
<1>2. \A a \in Int, b \in Int : a * b \in Int
  OBVIOUS
<1>3. SlippageTicks * TickValue \in Int
  BY <1>1, <1>2
<1>4. QED  BY <1>1, <1>2, <1>3 DEF SlipUsd

\* A close by the broker is worth what one by the engine is, less the slip.
LEMMA TwinCloses ==
  ASSUME PaperTyped, NEW p \in Position, Twin(p), NEW price \in Int
  PROVE  Closing(price) = Pnl(p, price) - SlipUsd(p)
<1> DEFINE q == p.qty
           d == IF q > 0 THEN SlippageTicks ELSE -SlippageTicks
           a == price - p.price
           paid == 2 * Commission * AbsVal(q)
<1>1. q \in Int /\ d \in Int /\ a \in Int /\ TickValue \in Int /\ SlippageTicks \in Int
  BY SizingAssumption, EngineAssumption DEF Position
<1>2. Paper!CommissionUsd(X) = paid
  BY DEF Paper!CommissionUsd, Paper!Magnitude, AbsVal, Twin
<1>3. Paper!MoveUsd(X, price) = (a - d) * TickValue * q
  <2>1. Paper!MoveUsd(X, price) = (price - (p.price + d)) * TickValue * q
    BY DEF Paper!MoveUsd, Twin
  <2>2. price - (p.price + d) = a - d
    BY <1>1 DEF Position
  <2> HIDE DEF a, d, q
  <2>3. QED  BY <2>1, <2>2
<1>4. Pnl(p, price) = a * TickValue * q - paid
  BY DEF Pnl
<1>5. d * TickValue * q = SlipUsd(p)
  <2>1. CASE q > 0
    BY <1>1, <2>1 DEF SlipUsd, AbsVal
  <2>2. CASE ~(q > 0)
    <3>1. AbsVal(q) = -q
      BY <1>1, <2>2 DEF AbsVal
    <3>2. \A s \in Int, v \in Int, n \in Int : (-s) * v * n = s * v * (-n)
      OBVIOUS
    <3>3. d = -SlippageTicks
      BY <2>2
    <3> HIDE DEF d, q
    <3>4. d * TickValue * q = SlippageTicks * TickValue * (-q)
      BY <1>1, <3>2, <3>3
    <3>5. QED  BY <3>1, <3>4 DEF SlipUsd, q
  <2>3. QED  BY <2>1, <2>2
<1>6. (a - d) * TickValue * q = a * TickValue * q - d * TickValue * q
  <2> HIDE DEF a, d, q
  <2>1. QED  BY <1>1, SlipSplits
<1>7. paid \in Int /\ a * TickValue * q \in Int /\ d * TickValue * q \in Int
  <2>1. \A x \in Int, y \in Int : x * y \in Int
    OBVIOUS
  <2>2. Commission \in Int /\ AbsVal(q) \in Int /\ 2 * Commission \in Int
    BY <1>1, EngineAssumption DEF AbsVal
  <2>3. paid \in Int
    <3> HIDE DEF q
    <3>1. QED  BY <2>1, <2>2
  <2>4. a * TickValue \in Int /\ d * TickValue \in Int
    <3> HIDE DEF a, d
    <3>1. QED  BY <1>1, <2>1
  <2> HIDE DEF a, d, q, paid
  <2>5. QED  BY <1>1, <2>1, <2>3, <2>4
<1> HIDE DEF a, d, q, paid
<1>8. QED  BY <1>2, <1>3, <1>4, <1>5, <1>6, <1>7 DEF Closing

\* With the levels in order, the stop never pays more than the target.
LEMMA StopPaysLess ==
  ASSUME NEW p \in Position, Sided(p)
  PROVE  Pnl(p, StopExit(p)) <= Pnl(p, p.signal.tp)
<1> DEFINE n == IF p.qty > 0 THEN p.signal.tp - StopExit(p) ELSE StopExit(p) - p.signal.tp
           m == AbsVal(p.qty)
           a == StopExit(p) - p.price
           b == p.signal.tp - p.price
           paid == 2 * Commission * m
<1>1. /\ p.qty \in Int /\ p.price \in Int /\ p.signal.tp \in Int /\ p.signal.sl \in Int
      /\ TickValue \in Nat /\ SlippageTicks \in Nat /\ Commission \in Nat
  BY SizingAssumption, EngineAssumption DEF Position, Signal
<1>2. IF p.qty > 0 THEN p.signal.sl <= p.signal.tp ELSE p.signal.tp <= p.signal.sl
  BY DEF Sided, OrderedLevels
<1>3. n \in Nat /\ m \in Nat /\ StopExit(p) \in Int
  BY <1>1, <1>2 DEF StopExit, AbsVal
<1>4. n * TickValue * m \in Nat
  <2>1. n * TickValue \in Nat
    <3> HIDE DEF n
    <3>1. QED  BY <1>1, <1>3, ProductIsNatural
  <2> HIDE DEF n, m
  <2>2. QED  BY <1>3, <2>1, ProductIsNatural
<1>5. a \in Int /\ b \in Int
  BY <1>1, <1>3
<1>6. b * TickValue * p.qty - a * TickValue * p.qty = n * TickValue * m
  <2>1. \A x \in Int, y \in Int, v \in Int, q \in Int :
          y * v * q - x * v * q = (y - x) * v * q /\ (x - y) * v * (-q) = (y - x) * v * q
    OBVIOUS
  <2>2. CASE p.qty > 0
    <3>1. n = b - a /\ m = p.qty
      BY <1>1, <1>3, <2>2 DEF AbsVal
    <3> HIDE DEF n, m, a, b
    <3>2. QED  BY <1>1, <1>5, <2>1, <3>1
  <2>3. CASE ~(p.qty > 0)
    <3>1. n = a - b /\ m = -p.qty
      BY <1>1, <1>3, <2>3 DEF AbsVal
    <3> HIDE DEF n, m, a, b
    <3>2. QED  BY <1>1, <1>5, <2>1, <3>1
  <2>4. QED  BY <2>2, <2>3
<1>7. Pnl(p, StopExit(p)) = a * TickValue * p.qty - paid
  BY DEF Pnl
<1>8. Pnl(p, p.signal.tp) = b * TickValue * p.qty - paid
  BY DEF Pnl
<1>9. a * TickValue * p.qty \in Int /\ b * TickValue * p.qty \in Int /\ paid \in Int
  <2>1. \A x \in Int, y \in Int : x * y \in Int
    OBVIOUS
  <2>2. 2 * Commission \in Int /\ m \in Int
    BY <1>1, <1>3
  <2>3. a * TickValue \in Int /\ b * TickValue \in Int /\ TickValue \in Int
    <3> HIDE DEF a, b
    <3>1. QED  BY <1>1, <1>5, <2>1
  <2>4. paid \in Int
    <3> HIDE DEF m
    <3>1. QED  BY <2>1, <2>2
  <2> HIDE DEF a, b, paid
  <2>5. QED  BY <1>1, <2>1, <2>3, <2>4
<1> HIDE DEF a, b, m, n, paid
<1>10. QED  BY <1>4, <1>6, <1>7, <1>8, <1>9

\* A price of the bar that touches the broker's bracket: the bar reaches a level
\* for the engine, which closes no better, and at the same price if the bar
\* reaches one level alone.
LEMMA TickExits ==
  ASSUME PaperTyped, NEW p \in Position, Sided(p), Twin(p), NEW c \in Candle,
         NEW price \in Int, c.low <= price, price <= c.high, Touches(price)
  PROVE  /\ Reached(c, p)
         /\ Closing(Paper!BracketExit(X, price)) \in Int
         /\ Pnl(p, ExitIn(c, p)) \in Int
         /\ Pnl(p, ExitIn(c, p)) - SlipUsd(p) <= Closing(Paper!BracketExit(X, price))
         /\ ~(StopIn(c, p) /\ TargetIn(c, p)) =>
              Pnl(p, ExitIn(c, p)) - SlipUsd(p) = Closing(Paper!BracketExit(X, price))
<1> DEFINE e == Paper!BracketExit(X, price)
<1>1. /\ p.qty \in Int /\ p.signal.sl \in Int /\ p.signal.tp \in Int
      /\ c.low \in Int /\ c.high \in Int /\ SlippageTicks \in Int
  BY EngineAssumption DEF Position, Signal, Candle
<1>2. /\ Paper!StopTouched(X, price) <=>
           (IF p.qty > 0 THEN price <= p.signal.sl ELSE price >= p.signal.sl)
      /\ Paper!TargetTouched(X, price) <=>
           (IF p.qty > 0 THEN price >= p.signal.tp ELSE price <= p.signal.tp)
      /\ e = IF Paper!StopTouched(X, price) THEN StopExit(p) ELSE p.signal.tp
  <2>1. pBrackets[X].sl = p.signal.sl /\ pBrackets[X].tp = p.signal.tp /\ pPositions[X].qty = p.qty
    BY DEF Twin
  <2>2. p.signal.sl + Paper!Against(X) = StopExit(p)
    BY <1>1, <2>1 DEF Paper!Against, StopExit
  <2>3. QED
    BY <2>1, <2>2 DEF Paper!StopTouched, Paper!TargetTouched, Paper!BracketExit
<1>3. Paper!StopTouched(X, price) => StopIn(c, p)
  BY <1>1, <1>2 DEF StopIn
<1>4. Paper!TargetTouched(X, price) => TargetIn(c, p)
  BY <1>1, <1>2 DEF TargetIn
<1>5. Paper!StopTouched(X, price) \/ Paper!TargetTouched(X, price)
  BY DEF Touches
<1>6. e \in Int /\ StopExit(p) \in Int
  BY <1>1, ExitIsInt DEF StopExit
<1>7. Closing(e) = Pnl(p, e) - SlipUsd(p) /\ Closing(e) \in Int /\ SlipUsd(p) \in Int
  BY <1>6, TwinCloses, ClosingIsInt, SlipIsInt
<1>8. ExitIn(c, p) = e \/ (ExitIn(c, p) = StopExit(p) /\ e = p.signal.tp /\ TargetIn(c, p) /\ StopIn(c, p))
  BY <1>2, <1>3, <1>4, <1>5 DEF ExitIn
<1>9. ExitIn(c, p) \in Int
  BY <1>1, <1>6 DEF ExitIn
<1>10. Pnl(p, ExitIn(c, p)) \in Int /\ Pnl(p, e) \in Int
  BY <1>6, <1>9, PnlIsInt
<1>11. Pnl(p, ExitIn(c, p)) <= Pnl(p, e)
  <2>1. CASE ExitIn(c, p) = e
    BY <1>10, <2>1
  <2>2. CASE ExitIn(c, p) = StopExit(p) /\ e = p.signal.tp
    BY <2>2, StopPaysLess
  <2>3. QED  BY <1>8, <2>1, <2>2
<1> HIDE DEF e
<1>12. Pnl(p, ExitIn(c, p)) - SlipUsd(p) <= Closing(e)
  BY <1>7, <1>10, <1>11
<1>13. ~(StopIn(c, p) /\ TargetIn(c, p)) => Pnl(p, ExitIn(c, p)) - SlipUsd(p) = Closing(e)
  BY <1>7, <1>8
<1>14. Reached(c, p)
  BY <1>3, <1>4, <1>5 DEF Reached
<1>15. QED  BY <1>7, <1>10, <1>12, <1>13, <1>14 DEF e

\* A bar that reaches a level touches the bracket at its deciding price.
LEMMA DecidingPriceTouches ==
  ASSUME PaperTyped, NEW p \in Position, Sided(p), Twin(p), NEW c \in Candle, Reached(c, p)
  PROVE  Touches(DecidingPrice(c, p))
<1> DEFINE price == DecidingPrice(c, p)
<1>1. /\ p.qty \in Int /\ p.signal.sl \in Int /\ p.signal.tp \in Int
      /\ c.low \in Int /\ c.high \in Int /\ p.qty # 0
  BY DEF Position, Signal, Candle, Sided
<1>2. pBrackets[X].sl = p.signal.sl /\ pBrackets[X].tp = p.signal.tp
      /\ pBrackets[X].armed /\ pPositions[X].qty = p.qty
  BY DEF Twin
<1>3. /\ Paper!StopTouched(X, price) <=>
           (IF p.qty > 0 THEN price <= p.signal.sl ELSE price >= p.signal.sl)
      /\ Paper!TargetTouched(X, price) <=>
           (IF p.qty > 0 THEN price >= p.signal.tp ELSE price <= p.signal.tp)
  BY <1>2 DEF Paper!StopTouched, Paper!TargetTouched
<1>4. Paper!StopTouched(X, price) \/ Paper!TargetTouched(X, price)
  BY <1>1, <1>3 DEF DecidingPrice, Reached, StopIn, TargetIn
<1>5. QED  BY <1>1, <1>2, <1>4 DEF Touches, Paper!Held

-----------------------------------------------------------------------------
\* Equal while the two are exact, and otherwise no more.
Same(a, b) == a <= b /\ (agreement = "exact" => a = b)

BothFlat ==
  /\ open = <<>>
  /\ ~Paper!Held(X)
  /\ Same(equity, pEquity + entrySlip)

BothHold ==
  /\ Len(open) = 1 /\ Sided(open[1]) /\ Twin(open[1])
  /\ Same(equity, pEquity + entrySlip - SlipUsd(open[1]))
  /\ phase = "stops" /\ cursor # 0 => ~Reached(candle, open[1])
  /\ phase \in {"fill", "signals"} => open[1].fill = t \/ ~Reached(candle, open[1])

\* The broker closed on the open of the bar; the engine will at its section 2.
BrokerFirst ==
  /\ phase \in {"flat", "stops"}
  /\ phase = "stops" => cursor = 0
  /\ ~Paper!Held(X)
  /\ Len(open) = 1 /\ Reached(candle, open[1])
  /\ equity + Pnl(open[1], ExitIn(candle, open[1])) <= pEquity + entrySlip
  /\ agreement = "exact" /\ ~(StopIn(candle, open[1]) /\ TargetIn(candle, open[1])) =>
       equity + Pnl(open[1], ExitIn(candle, open[1])) = pEquity + entrySlip

\* The engine closed p at its section 2; the broker will before the bar is over.
WillClose(p) ==
  /\ Sided(p) /\ Twin(p) /\ Reached(candle, p)
  /\ agreement = "exact" => ~(StopIn(candle, p) /\ TargetIn(candle, p))
  /\ \E i \in 1 .. Len(ticks) : ticks[i] = DecidingPrice(candle, p)
  /\ Same(equity, pEquity + entrySlip + Pnl(p, ExitIn(candle, p)) - SlipUsd(p))

EngineFirst ==
  /\ phase \in {"stops", "fill", "signals"}
  /\ phase # "signals" => pending = <<>>
  /\ open = <<>>
  /\ \E p \in Position : WillClose(p)

Accounts ==
  agreement # "none" /\ phase \notin {"final", "done"} =>
    BothFlat \/ BothHold \/ BrokerFirst \/ EngineFirst

\* The broker is fed the bar the engine reads.
Feed ==
  /\ pConnected
  /\ ticks \in Seq(Int)
  /\ candle.low <= candle.open /\ candle.open <= candle.high
  /\ \A i \in 1 .. Len(ticks) : ticks[i] \in {candle.low, candle.high}
  /\ phase = "next" => ticks = <<>>
  /\ phase \in {"flat", "stops"} =>
       \A x \in {candle.low, candle.high} : \E i \in 1 .. Len(ticks) : ticks[i] = x
  /\ phase \in {"flat", "stops", "fill"} => X \in pFed /\ pLast[X] = candle.open
  /\ phase = "stops" => cursor <= Len(open)

Levels ==
  /\ \A i \in 1 .. Len(batch) : OrderedLevels(batch[i])
  /\ \A i \in 1 .. Len(pending) : OrderedLevels(pending[i].signal)

ParityInv == PaperTyped /\ Feed /\ Levels /\ Accounts

\* The invariant holds at the start.
LEMMA ParityInitially == ParityInit => ParityInv
<1> SUFFICES ASSUME ParityInit PROVE ParityInv
  OBVIOUS
<1>1. PaperTyped
  BY EngineAssumption DEF ParityInit, PaperTyped, Paper!Flat, Paper!NoBracket
<1>2. Feed
  BY MarketAssumption DEF ParityInit, Init, Feed
<1>3. Levels
  BY DEF ParityInit, Init, Levels
<1>4. BothFlat
  <2>1. ~Paper!Held(X) /\ open = <<>>
    BY DEF ParityInit, Init, Paper!Held, Paper!Flat
  <2>2. equity = StartingEquity /\ pEquity = StartingEquity /\ entrySlip = 0 /\ StartingEquity \in Int
    BY EngineAssumption DEF ParityInit, Init
  <2>3. QED  BY <2>1, <2>2 DEF BothFlat, Same
<1>5. QED  BY <1>1, <1>2, <1>3, <1>4 DEF ParityInv, Accounts

\* Every behaviour of the two together is one of the engine.
LEMMA ParityStepsTheEngine == [ParityNext]_parityVars => [Next]_vars
<1> SUFFICES ASSUME [ParityNext]_parityVars PROVE [Next]_vars
  OBVIOUS
<1>1. CASE Tick
  <2>1. UNCHANGED nextId
    BY <1>1 DEF Tick, Paper!FeedPrice
  <2>2. QED  BY <1>1, <2>1 DEF Tick, vars, market, account, tallies
<1>2. CASE UNCHANGED parityVars
  BY <1>2 DEF parityVars
<1>3. QED
  BY <1>1, <1>2 DEF ParityNext, OpensBar, FlattensBoth, FillsBoth, ExaminesStop, EndsBar,
                    EngineAlone, Next

\* So what is proved of the engine alone holds of the engine beside the broker.
THEOREM ParityRunsTheEngine == ParitySpec => Spec
<1>1. ParityInit => Init
  BY DEF ParityInit
<1>2. QED  BY <1>1, ParityStepsTheEngine, PTL DEF ParitySpec, Spec

\* What is assumed of the candles.
LEMMA CandleOfBar ==
  ASSUME NEW c \in Candles
  PROVE  c \in Candle /\ c.low \in Int /\ c.open \in Int /\ c.high \in Int
         /\ c.low <= c.open /\ c.open <= c.high /\ c.low <= c.high
BY EngineAssumption, MarketAssumption DEF Candle

\* The prices still to come, one fewer.
LEMMA HeadTail ==
  ASSUME NEW s \in Seq(Int), s # <<>>
  PROVE  /\ Head(s) = s[1] /\ 1 \in 1 .. Len(s) /\ Head(s) \in Int
         /\ Tail(s) \in Seq(Int) /\ Len(Tail(s)) = Len(s) - 1
         /\ \A i \in 1 .. Len(Tail(s)) : i + 1 \in 1 .. Len(s) /\ Tail(s)[i] = s[i + 1]
OBVIOUS

\* The two extremes, as a sequence.
LEMMA PairOfPrices ==
  ASSUME NEW a \in Int, NEW b \in Int
  PROVE  /\ <<a, b>> \in Seq(Int) /\ Len(<<a, b>>) = 2
         /\ <<a, b>>[1] = a /\ <<a, b>>[2] = b
OBVIOUS

\* The only open position is a position.
LEMMA OneOpen ==
  ASSUME TypeOK, Len(open) = 1
  PROVE  open[1] \in Position
<1>1. 1 \in 1 .. Len(open) /\ open \in Seq(Position)
  BY DEF TypeOK
<1>2. QED  BY <1>1

\* Closing the only position leaves none.
LEMMA LastOneCloses ==
  ASSUME TypeOK, Len(open) = 1, NEW price, NEW status, ClosePosition(1, price, status)
  PROVE  open' = <<>> /\ equity' = equity + Pnl(open[1], price)
<1>1. open \in Seq(Position) /\ 1 \in 1 .. Len(open)
  BY DEF TypeOK
<1>2. RemoveAt(open, 1) \in Seq(Position) /\ Len(RemoveAt(open, 1)) = 0
  BY <1>1, RemoveAtProperties
<1>3. QED  BY <1>2 DEF ClosePosition

\* The broker is fed what the bar holds.
LEMMA NextFeed ==
  TypeOK /\ PendingInv /\ PaperTyped /\ Feed /\ [ParityNext]_parityVars => PaperTyped' /\ Feed'
<1> SUFFICES ASSUME TypeOK, PendingInv, PaperTyped, Feed, [ParityNext]_parityVars
             PROVE  PaperTyped' /\ Feed'
  OBVIOUS
<1> USE DEF market, account, tallies, paper, twins
<1>0. /\ open \in Seq(Position) /\ cursor \in Nat /\ candle \in Candle /\ nextId \in Nat
      /\ ticks \in Seq(Int)
  BY DEF TypeOK, Feed
<1>1. CASE OpensBar
  <2>1. /\ candle' \in Candles /\ phase' = "flat" /\ UNCHANGED entrySlip
        /\ ticks' \in {<<candle'.low, candle'.high>>, <<candle'.high, candle'.low>>}
        /\ Paper!FeedPrice(X, candle'.open)
    BY <1>1 DEF OpensBar, NextBar
  <2> DEFINE o == candle'.open
  <2>2. /\ o \in Int /\ candle'.low \in Int /\ candle'.high \in Int
        /\ candle'.low <= o /\ o <= candle'.high
    BY <2>1, CandleOfBar
  <2>3. PaperTyped' /\ pConnected' = pConnected /\ X \in pFed' /\ pLast'[X] = o
    <3> HIDE DEF o
    <3>1. Paper!FeedPrice(X, o)
      BY <2>1 DEF o
    <3>2. QED  BY <2>1, <2>2, <3>1, PaperFeeds
  <2>4. Feed'
    <3> DEFINE lo == candle'.low
               hi == candle'.high
    <3>0. lo \in Int /\ hi \in Int /\ ticks' \in {<<lo, hi>>, <<hi, lo>>}
      BY <2>1, <2>2
    <3> HIDE DEF lo, hi
    <3>1. /\ ticks' \in Seq(Int) /\ Len(ticks') = 2
          /\ \/ ticks'[1] = lo /\ ticks'[2] = hi
             \/ ticks'[1] = hi /\ ticks'[2] = lo
      <4>1. CASE ticks' = <<lo, hi>>
        BY <3>0, <4>1, PairOfPrices
      <4>2. CASE ticks' = <<hi, lo>>
        BY <3>0, <4>2, PairOfPrices
      <4>3. QED  BY <3>0, <4>1, <4>2
    <3>2. /\ \A i \in 1 .. Len(ticks') : ticks'[i] \in {lo, hi}
          /\ \A x \in {lo, hi} : \E i \in 1 .. Len(ticks') : ticks'[i] = x
      BY <3>1
    <3> USE DEF lo, hi
    <3>3. QED  BY <2>1, <2>2, <2>3, <3>1, <3>2 DEF Feed
  <2>5. QED  BY <2>3, <2>4
<1>2. CASE FlattensBoth
  <2>1. /\ phase = "flat" /\ phase' = "flat" /\ UNCHANGED <<candle, ticks, entrySlip, cursor>>
        /\ Paper!FlattenAll({X})
    BY <1>2 DEF FlattensBoth, FlattenOne
  <2>2. X \in pFed
    BY <2>1 DEF Feed
  <2>3. PaperTyped' /\ UNCHANGED <<pConnected, pFed, pLast>>
    BY <2>1, <2>2, PaperFlattens
  <2>4. QED  BY <2>1, <2>3 DEF Feed
<1>3. CASE FillsBoth
  <2>1. /\ phase = "fill" /\ phase' = "fill" /\ UNCHANGED <<candle, ticks>>
    BY <1>3 DEF FillsBoth, FillPending
  <2>2. CASE UNCHANGED <<paper, entrySlip>>
    BY <2>1, <2>2 DEF PaperTyped, Feed
  <2>3. ASSUME Len(open') > Len(open),
               Paper!SubmitMarket(X, Last(open').qty, Last(open').signal.sl, Last(open').signal.tp),
               entrySlip' = entrySlip + SlippageTicks * TickValue * AbsVal(Last(open').qty)
        PROVE  PaperTyped' /\ Feed'
    <3> DEFINE p == Last(open')
    <3>1. open' \in Seq(Position) /\ Len(open') # 0
      <4>1. TypeOK'
        BY NextType, ParityStepsTheEngine
      <4>2. QED  BY <1>0, <2>3, <4>1 DEF TypeOK
    <3>2. p \in Position
      BY <3>1 DEF Last
    <3> HIDE DEF p
    <3>3. p.qty \in Int /\ p.signal.sl \in Int /\ p.signal.tp \in Int
      BY <3>2 DEF Position, Signal
    <3>4. entrySlip' \in Int
      <4>1. entrySlip' = entrySlip + SlipUsd(p)
        BY <2>3 DEF SlipUsd, p
      <4>2. QED  BY <3>2, <4>1, SlipIsInt DEF PaperTyped
    <3>5. Paper!SubmitMarket(X, p.qty, p.signal.sl, p.signal.tp)
      BY <2>3 DEF p
    <3>6. PaperTyped' /\ UNCHANGED <<pConnected, pFed, pLast>>
      BY <1>0, <3>3, <3>4, <3>5, PaperSubmits
    <3>7. QED  BY <2>1, <3>6 DEF Feed
  <2>4. QED  BY <1>3, <2>2, <2>3 DEF FillsBoth
<1>4. CASE ExaminesStop
  <2>1. /\ phase = "stops" /\ phase' = "stops" /\ UNCHANGED <<candle, ticks, paper, entrySlip>>
        /\ cursor < Len(open)
        /\ \/ cursor' = cursor + 1 /\ UNCHANGED open
           \/ UNCHANGED cursor /\ open' = RemoveAt(open, cursor + 1)
    BY <1>4 DEF ExaminesStop, ExamineStop, CloseAndRegister, ClosePosition
  <2>2. cursor + 1 \in 1 .. Len(open)
    BY <1>0, <2>1
  <2>3. Len(RemoveAt(open, cursor + 1)) = Len(open) - 1
    BY <1>0, <2>2, RemoveAtProperties
  <2>4. cursor' <= Len(open')
    BY <1>0, <2>1, <2>3
  <2>5. QED  BY <2>1, <2>4 DEF PaperTyped, Feed
<1>5. CASE Tick
  <2>1. /\ phase = "signals" /\ phase' = "signals" /\ ticks # <<>> /\ ticks' = Tail(ticks)
        /\ UNCHANGED <<candle, entrySlip>> /\ Paper!FeedPrice(X, Head(ticks))
    BY <1>5 DEF Tick
  <2>2. /\ Head(ticks) \in Int /\ Tail(ticks) \in Seq(Int)
        /\ \A i \in 1 .. Len(Tail(ticks)) : i + 1 \in 1 .. Len(ticks) /\ Tail(ticks)[i] = ticks[i + 1]
    BY <1>0, <2>1, HeadTail
  <2>3. PaperTyped' /\ pConnected' = pConnected
    BY <2>1, <2>2, PaperFeeds
  <2>4. \A i \in 1 .. Len(ticks') : ticks'[i] \in {candle'.low, candle'.high}
    BY <2>1, <2>2 DEF Feed
  <2>5. QED  BY <2>1, <2>2, <2>3, <2>4 DEF Feed
<1>6. CASE EndsBar
  BY <1>6 DEF EndsBar, RecordEquityPoint, PaperTyped, Feed
<1>7. CASE EngineAlone
  <2>1. /\ UNCHANGED <<candle, ticks, paper, entrySlip>>
        /\ \/ phase = "flat" /\ phase' = "stops" /\ cursor' = 0 /\ UNCHANGED open
           \/ phase = "stops" /\ phase' = "fill"
           \/ phase = "fill" /\ phase' = "signals"
           \/ phase = "signals" /\ phase' = "signals"
           \/ phase' \in {"final", "done"}
    BY <1>7 DEF EngineAlone, FlattenDone, StopsDone, FillsDone, TakeSignal, LastBarDone, FinalFlatten
  <2>2. PaperTyped'
    BY <2>1 DEF PaperTyped
  <2>3. Feed'
    BY <1>0, <2>1 DEF Feed
  <2>4. QED  BY <2>2, <2>3
<1>8. CASE UNCHANGED parityVars
  BY <1>8 DEF parityVars, vars, PaperTyped, Feed
<1>9. QED
  BY <1>1, <1>2, <1>3, <1>4, <1>5, <1>6, <1>7, <1>8 DEF ParityNext

\* Every position, pending entry and signal of the engine has its levels in order.
LEMMA NextLevels ==
  TypeOK /\ PendingInv /\ Levels /\ [Next]_vars => Levels'
<1> SUFFICES ASSUME TypeOK, PendingInv, Levels, [Next]_vars PROVE Levels'
  OBVIOUS
<1> USE DEF market, account, tallies
<1>0. batch \in Seq(Signal) /\ pending \in Seq(PendingEntry) /\ cursor \in Nat
  BY DEF TypeOK
<1>1. CASE FillPending
  <2>1. UNCHANGED batch /\ (UNCHANGED pending \/ pending' = RemoveAt(pending, cursor + 1))
        /\ cursor < Len(pending)
    BY <1>1 DEF FillPending
  <2>2. cursor + 1 \in 1 .. Len(pending)
    BY <1>0, <2>1
  <2>3. \A j \in 1 .. Len(RemoveAt(pending, cursor + 1)) :
          \E k \in 1 .. Len(pending) : RemoveAt(pending, cursor + 1)[j] = pending[k]
    BY <1>0, <2>2, RemoveAtProperties
  <2>4. QED  BY <2>1, <2>3 DEF Levels
<1>2. CASE FillsDone
  <2>1. batch' \in SignalBatches /\ UNCHANGED pending
    BY <1>2 DEF FillsDone
  <2>2. QED  BY <2>1, MarketAssumption DEF Levels
<1>3. CASE TakeSignal
  <2>1. /\ batch # <<>> /\ batch' = Tail(batch)
        /\ UNCHANGED pending \/ pending' = Append(pending, [signal |-> Head(batch), submit |-> t])
    BY <1>3 DEF TakeSignal
  <2>2. \A i \in 1 .. Len(batch') : OrderedLevels(batch'[i])
    <3>1. \A i \in 1 .. Len(Tail(batch)) : i + 1 \in 1 .. Len(batch) /\ Tail(batch)[i] = batch[i + 1]
      BY <1>0, <2>1
    <3>2. QED  BY <2>1, <3>1 DEF Levels
  <2>3. OrderedLevels(Head(batch))
    <3>1. 1 \in 1 .. Len(batch) /\ Head(batch) = batch[1]
      BY <1>0, <2>1
    <3>2. QED  BY <3>1 DEF Levels
  <2>4. \A i \in 1 .. Len(pending') : OrderedLevels(pending'[i].signal)
    <3> DEFINE e == [signal |-> Head(batch), submit |-> t]
    <3>1. e.signal = Head(batch)
      OBVIOUS
    <3> HIDE DEF e
    <3>2. CASE UNCHANGED pending
      BY <3>2 DEF Levels
    <3>3. CASE pending' = Append(pending, e)
      <4>1. \A i \in 1 .. Len(pending') : pending'[i] = e \/ (i \in 1 .. Len(pending) /\ pending'[i] = pending[i])
        BY <1>0, <3>3
      <4>2. QED  BY <2>3, <3>1, <4>1 DEF Levels
    <3>4. QED  BY <2>1, <3>2, <3>3 DEF e
  <2>5. QED  BY <2>2, <2>4 DEF Levels
<1>4. CASE UNCHANGED <<batch, pending>>
  BY <1>4 DEF Levels
<1>5. QED
  BY <1>1, <1>2, <1>3, <1>4 DEF Next, NextBar, FlattenOne, FlattenDone, ExamineStop, StopsDone,
       RecordEquityPoint, LastBarDone, FinalFlatten, vars

\* A bar opens: the broker may close on the open, which the engine sees later.
LEMMA BarOpens ==
  ASSUME TypeOK, ParityInv, OpensBar
  PROVE  Accounts'
<1> SUFFICES ASSUME agreement # "none" PROVE BothHold' \/ BrokerFirst' \/ BothFlat'
  BY DEF OpensBar, Accounts
<1> DEFINE o == candle'.open
           c == candle'
<1>1. /\ phase = "next" /\ phase' = "flat" /\ candle' \in Candles
      /\ UNCHANGED <<open, equity, entrySlip, agreement>>
      /\ Paper!FeedPrice(X, o)
  BY DEF OpensBar, NextBar, account
<1>2. c \in Candle /\ o \in Int /\ c.low <= o /\ o <= c.high
  BY <1>1, CandleOfBar
<1> HIDE DEF o, c
<1>3. /\ ~Touches(o) => UNCHANGED <<pEquity, pPositions, pBrackets>>
      /\ Touches(o) => ~Paper!Held(X)' /\ pEquity' = pEquity + Closing(Paper!BracketExit(X, o))
  BY <1>1, <1>2, PaperFeeds DEF ParityInv
<1>4. BothFlat \/ BothHold
  BY <1>1 DEF ParityInv, Accounts, BrokerFirst, EngineFirst
<1>5. CASE BothFlat
  <2>1. ~Touches(o)
    BY <1>5 DEF BothFlat, Touches
  <2>2. BothFlat'
    BY <1>1, <1>3, <1>5, <2>1 DEF BothFlat, Same, Paper!Held
  <2>3. QED  BY <2>2
<1>6. CASE BothHold /\ ~Touches(o)
  <2>1. UNCHANGED <<pEquity, pPositions, pBrackets>>
    BY <1>3, <1>6
  <2>2. BothHold'
    BY <1>1, <1>6, <2>1 DEF BothHold, Same, Twin
  <2>3. QED  BY <2>2
<1>7. CASE BothHold /\ Touches(o)
  <2> DEFINE p == open[1]
             v == Closing(Paper!BracketExit(X, o))
             w == Pnl(p, ExitIn(c, p))
  <2>1. p \in Position /\ Sided(p) /\ Twin(p)
    BY <1>7, OneOpen DEF BothHold
  <2>2. /\ Reached(c, p) /\ v \in Int /\ w \in Int
        /\ w - SlipUsd(p) <= v
        /\ ~(StopIn(c, p) /\ TargetIn(c, p)) => w - SlipUsd(p) = v
    <3> HIDE DEF p
    <3>1. QED  BY <1>2, <1>7, <2>1, TickExits DEF ParityInv
  <2>3. SlipUsd(p) \in Int
    <3> HIDE DEF p
    <3>1. QED  BY <2>1, SlipIsInt
  <2>4. /\ equity <= pEquity + entrySlip - SlipUsd(p)
        /\ agreement = "exact" => equity = pEquity + entrySlip - SlipUsd(p)
        /\ equity \in Int /\ pEquity \in Int /\ entrySlip \in Int
    BY <1>7 DEF BothHold, Same, ParityInv, PaperTyped, TypeOK
  <2>5. /\ ~Paper!Held(X)' /\ pEquity' = pEquity + v
        /\ Len(open') = 1 /\ open'[1] = p /\ candle' = c
        /\ UNCHANGED <<equity, entrySlip, agreement>> /\ phase' = "flat"
    BY <1>1, <1>3, <1>7 DEF BothHold, c
  <2> HIDE DEF p, v, w
  <2>6. equity + w <= pEquity' + entrySlip
    BY <2>2, <2>3, <2>4, <2>5
  <2>7. agreement = "exact" /\ ~(StopIn(c, p) /\ TargetIn(c, p)) => equity + w = pEquity' + entrySlip
    BY <2>2, <2>3, <2>4, <2>5
  <2>8. BrokerFirst'
    BY <2>2, <2>5, <2>6, <2>7 DEF BrokerFirst, w
  <2>9. QED  BY <2>8
<1>8. QED  BY <1>4, <1>5, <1>6, <1>7

\* The 16:30 bar: both close at the same open.
LEMMA BothFlatten ==
  ASSUME TypeOK, ParityInv, FlattensBoth
  PROVE  Accounts'
<1> SUFFICES ASSUME agreement' # "none" PROVE BothFlat'
  BY DEF Accounts
<1>1. /\ phase = "flat" /\ phase' = "flat" /\ open # <<>> /\ FlatBar(t)
      /\ ClosePosition(1, candle.open, "CLOSED_FLAT") /\ Paper!FlattenAll({X})
      /\ UNCHANGED entrySlip /\ agreement' = agreement /\ agreement # "none" /\ ~FlattensPastLevel
  BY DEF FlattensBoth, FlattenOne, CloseAndRegister
<1>2. BothHold \/ BrokerFirst
  BY <1>1 DEF ParityInv, Accounts, BothFlat, EngineFirst
<1> DEFINE p == open[1]
           v == Closing(pLast[X])
<1>3. ~Reached(candle, p)
  <2>1. 1 \in 1 .. Len(open) /\ p \in Position
    BY <1>1 DEF TypeOK
  <2>2. ~Touched([p EXCEPT !.fill = t])
    BY <1>1, <2>1 DEF FlattensPastLevel
  <2>3. [p EXCEPT !.fill = t].qty = p.qty /\ [p EXCEPT !.fill = t].signal = p.signal
    BY <2>1 DEF Position
  <2> DEFINE q == [p EXCEPT !.fill = t]
  <2> HIDE DEF p, q
  <2>4. ~Reached(candle, q)
    BY <2>2, LevelsOfCandle DEF q
  <2>5. QED  BY <2>3, <2>4 DEF Reached, StopIn, TargetIn, q
<1>4. BothHold
  BY <1>2, <1>3 DEF BrokerFirst
<1>5. p \in Position /\ Sided(p) /\ Twin(p) /\ Len(open) = 1
  BY <1>4, OneOpen DEF BothHold
<1>6. open' = <<>> /\ equity' = equity + Pnl(p, candle.open)
  BY <1>1, <1>5, LastOneCloses
<1>7. X \in pFed /\ pLast[X] = candle.open /\ candle.open \in Int
  BY <1>1 DEF ParityInv, Feed, TypeOK, Candle
<1>8. Paper!Held(X)
  BY <1>5 DEF Twin, Sided, Paper!Held
<1>9. ~Paper!Held(X)' /\ pEquity' = pEquity + v
  BY <1>1, <1>7, <1>8, PaperFlattens DEF ParityInv
<1>10. v = Pnl(p, candle.open) - SlipUsd(p) /\ Pnl(p, candle.open) \in Int /\ SlipUsd(p) \in Int
  <2> HIDE DEF p
  <2>1. QED  BY <1>5, <1>7, TwinCloses, PnlIsInt, SlipIsInt DEF ParityInv
<1>11. /\ equity <= pEquity + entrySlip - SlipUsd(p)
       /\ agreement = "exact" => equity = pEquity + entrySlip - SlipUsd(p)
       /\ equity \in Int /\ pEquity \in Int /\ entrySlip \in Int
  BY <1>4 DEF BothHold, Same, ParityInv, PaperTyped, TypeOK
<1> HIDE DEF p, v
<1>12. Same(equity, pEquity + entrySlip)'
  BY <1>1, <1>6, <1>9, <1>10, <1>11 DEF Same
<1>13. QED  BY <1>6, <1>9, <1>12 DEF BothFlat

\* A fill: both open, or the engine alone and the comparison ends.
LEMMA BothFill ==
  ASSUME TypeOK, PendingInv, ParityInv, FillsBoth
  PROVE  Accounts'
<1> SUFFICES ASSUME agreement' # "none" PROVE BothFlat' \/ BothHold'
  BY DEF Accounts
<1>0. /\ open \in Seq(Position) /\ pending \in Seq(PendingEntry) /\ cursor \in Nat
      /\ candle \in Candle /\ equity \in Int /\ nextId \in Nat /\ t \in Nat
  BY DEF TypeOK
<1>1. /\ phase = "fill" /\ phase' = "fill" /\ UNCHANGED <<t, candle, equity>>
      /\ cursor < Len(pending) /\ agreement' = agreement /\ agreement # "none"
  BY DEF FillsBoth, FillPending, market
<1> DEFINE e == pending[1]
<1>2. cursor = 0 /\ 1 \in 1 .. Len(pending) /\ e \in PendingEntry /\ pending[cursor + 1] = e
  BY <1>0, <1>1 DEF PendingInv, FillsFromTheFront
<1>3. pending # <<>>
  BY <1>0, <1>2
<1>4. BothFlat \/ BothHold
  BY <1>1, <1>3 DEF ParityInv, Accounts, BrokerFirst, EngineFirst
<1> DEFINE qty == FillQuantity(e.signal, candle.open)
           r == [signal |-> e.signal, submit |-> e.submit, fill |-> t, price |-> candle.open,
                 qty |-> IF e.signal.side = "BUY" THEN qty ELSE -qty]
<1>5. UNCHANGED open \/ (Fills(e) /\ open' = Append(open, r))
  <2> HIDE DEF e
  <2>1. UNCHANGED open \/ (Fills(e) /\ OpenPosition(e))
    BY <1>2 DEF FillsBoth, FillPending
  <2>2. QED  BY <2>1 DEF OpenPosition
<1>6. CASE UNCHANGED open
  <2>1. ~(Len(open') > Len(open))
    BY <1>0, <1>6
  <2>2. UNCHANGED <<paper, entrySlip>>
    BY <2>1 DEF FillsBoth
  <2>3. BothFlat => BothFlat'
    BY <1>1, <1>6, <2>2 DEF BothFlat, Same, Paper!Held, paper
  <2>4. BothHold => BothHold'
    BY <1>1, <1>6, <2>2 DEF BothHold, Same, Twin, paper
  <2>5. QED  BY <1>4, <2>3, <2>4
<1>7. CASE Fills(e) /\ open' = Append(open, r)
  <2>1. /\ e.signal \in Signal /\ e.submit \in Nat /\ candle.open \in Int
        /\ e.signal.side \in {"BUY", "SELL"} /\ e.signal.sl \in Int /\ e.signal.tp \in Int
    BY <1>0, <1>2 DEF PendingEntry, Candle, Signal
  <2>2. qty \in Nat /\ qty # 0
    BY <1>0, <1>7, <2>1, SizeIsNat DEF Fills, FillQuantity
  <2>3. OrderedLevels(e.signal)
    BY <1>2 DEF ParityInv, Levels
  <2> HIDE DEF qty, e
  <2>4. /\ r \in Position /\ r.signal = e.signal /\ r.price = candle.open /\ r.fill = t
        /\ r.qty = (IF e.signal.side = "BUY" THEN qty ELSE -qty)
    BY <1>0, <2>1, <2>2 DEF Position
  <2> HIDE DEF r
  <2>0. PICK p \in Position : p = r
    BY <2>4
  <2>5. Sided(p)
    <3>1. p.qty # 0 /\ (p.qty > 0 <=> e.signal.side = "BUY")
      BY <2>1, <2>2, <2>0, <2>4
    <3>2. QED  BY <2>3, <2>0, <2>4, <3>1 DEF Sided
  <2>6. Len(open') = Len(open) + 1 /\ open'[Len(open) + 1] = p
    BY <1>0, <1>7, <2>0, <2>4, AppendElements
  <2>7. Len(open') > Len(open) /\ Last(open') = p
    BY <1>0, <2>6 DEF Last
  <2>8. /\ Paper!SubmitMarket(X, p.qty, p.signal.sl, p.signal.tp)
        /\ entrySlip' = entrySlip + SlipUsd(p)
    BY <1>0, <1>1, <2>7 DEF FillsBoth, SlipUsd
  <2>9. SlipUsd(p) \in Int /\ entrySlip \in Int /\ entrySlip' \in Int /\ pEquity \in Int
    BY <2>0, <2>4, <2>8, SlipIsInt DEF ParityInv, PaperTyped
  <2>10. p.qty \in Int /\ p.signal.sl \in Int /\ p.signal.tp \in Int
    BY <2>0, <2>4 DEF Position, Signal
  <2>11. /\ ~Paper!Held(X) /\ UNCHANGED pEquity
         /\ pPositions'[X].qty = p.qty
         /\ pPositions'[X].price = pLast[X] + (IF p.qty > 0 THEN SlippageTicks ELSE -SlippageTicks)
         /\ pBrackets'[X] = [armed |-> TRUE, sl |-> p.signal.sl, tp |-> p.signal.tp]
    BY <1>0, <2>8, <2>9, <2>10, PaperSubmits DEF ParityInv
  <2>12. pLast[X] = p.price
    BY <1>1, <2>0, <2>4 DEF ParityInv, Feed
  <2>13. open = <<>> /\ Same(equity, pEquity + entrySlip)
    BY <1>4, <2>11 DEF BothFlat, BothHold, Twin, Sided, Paper!Held
  <2>14. Len(open') = 1 /\ open'[1] = p
    BY <2>6, <2>13
  <2>15. Same(equity, pEquity + entrySlip - SlipUsd(p))'
    <3>1. pEquity + entrySlip' - SlipUsd(p) = pEquity + entrySlip
      BY <2>8, <2>9
    <3>2. QED  BY <1>1, <2>11, <2>13, <3>1 DEF Same
  <2>16. BothHold'
    <3>1. /\ Len(open)' = 1 /\ open[1]' = p
          /\ pPositions'[X].price = p.price + (IF p.qty > 0 THEN SlippageTicks ELSE -SlippageTicks)
      BY <2>11, <2>12, <2>14
    <3>2. p.fill = t'
      BY <1>1, <2>0, <2>4
    <3>3. QED
      BY <1>1, <2>5, <2>11, <2>15, <3>1, <3>2 DEF BothHold, Twin, Same
  <2>17. QED  BY <2>16
<1>8. QED  BY <1>5, <1>6, <1>7

\* Section 2 of the engine: it closes where the broker has closed or is to close.
LEMMA BothExamine ==
  ASSUME TypeOK, PendingInv, ParityInv, ExaminesStop
  PROVE  Accounts'
<1> SUFFICES ASSUME agreement' # "none" PROVE BothFlat' \/ BothHold' \/ EngineFirst'
  BY DEF Accounts
<1>0. /\ open \in Seq(Position) /\ cursor \in Nat /\ candle \in Candle /\ equity \in Int
      /\ pEquity \in Int /\ entrySlip \in Int
  BY DEF TypeOK, ParityInv, PaperTyped
<1>1. /\ phase = "stops" /\ phase' = "stops" /\ cursor < Len(open)
      /\ UNCHANGED <<t, candle, ticks, entrySlip, pending>>
      /\ UNCHANGED <<pPositions, pBrackets, pEquity>>
      /\ agreement' = IF Ambiguous(open[cursor + 1]) /\ agreement = "exact"
                      THEN "pessimistic" ELSE agreement
  BY DEF ExaminesStop, ExamineStop, market, paper
<1>2. agreement # "none" /\ open # <<>>
  BY <1>0, <1>1
<1>3. BothHold \/ BrokerFirst
  BY <1>1, <1>2 DEF ParityInv, Accounts, BothFlat, EngineFirst
<1>4. Len(open) = 1 /\ cursor = 0 /\ pending = <<>>
  BY <1>0, <1>1, <1>2, <1>3 DEF BothHold, BrokerFirst, PendingInv, PendingAlone
<1>5. PICK p \in Position : p = open[1]
  BY <1>4, OneOpen
<1> DEFINE s == StopIn(candle, p)
           g == TargetIn(candle, p)
           w == Pnl(p, ExitIn(candle, p))
<1>6. open[cursor + 1] = p
  BY <1>4, <1>5
<1>7. agreement' = IF s /\ g /\ agreement = "exact" THEN "pessimistic" ELSE agreement
  <2>1. QED  BY <1>1, <1>6, LevelsOfCandle
<1>8. \/ Reached(candle, p) /\ ClosePosition(1, ExitIn(candle, p), "CLOSED_SL")
      \/ Reached(candle, p) /\ ClosePosition(1, ExitIn(candle, p), "CLOSED_TP")
      \/ ~Reached(candle, p) /\ cursor' = 1 /\ UNCHANGED account
  <2>1. \/ StopHit(p) /\ ClosePosition(1, StopExit(p), "CLOSED_SL")
        \/ TargetHit(p) /\ ClosePosition(1, p.signal.tp, "CLOSED_TP")
        \/ ~StopHit(p) /\ ~TargetHit(p) /\ cursor' = 1 /\ UNCHANGED account
    <3>1. cursor + 1 = 1
      BY <1>4
    <3>2. \/ StopHit(p) /\ ClosePosition(cursor + 1, StopExit(p), "CLOSED_SL")
          \/ TargetHit(p) /\ ClosePosition(cursor + 1, p.signal.tp, "CLOSED_TP")
          \/ ~StopHit(p) /\ ~TargetHit(p) /\ cursor' = cursor + 1 /\ UNCHANGED account
      <4>1. QED  BY <1>6 DEF ExaminesStop, ExamineStop, CloseAndRegister
    <3>3. QED  BY <3>1, <3>2, Zenon
  <2>2. QED  BY <2>1, LevelsOfCandle DEF ExitIn, Reached
<1>9. w \in Int /\ SlipUsd(p) \in Int
  <2>1. ExitIn(candle, p) \in Int
    BY <1>5, EngineAssumption DEF ExitIn, StopExit, Position, Signal
  <2>2. QED  BY <1>5, <2>1, PnlIsInt, SlipIsInt
<1>10. ASSUME Reached(candle, p), open' = <<>>, equity' = equity + w
       PROVE  BothFlat' \/ EngineFirst'
  <2>1. CASE BrokerFirst
    <3>1. /\ equity + w <= pEquity + entrySlip
          /\ agreement = "exact" /\ ~(s /\ g) => equity + w = pEquity + entrySlip
          /\ ~Paper!Held(X)
      BY <1>5, <2>1 DEF BrokerFirst
    <3> HIDE DEF w, s, g
    <3>2. QED  BY <1>1, <1>7, <1>10, <3>1 DEF BothFlat, Same, Paper!Held
  <2>2. CASE BothHold
    <3>1. /\ Sided(p) /\ Twin(p)
          /\ equity <= pEquity + entrySlip - SlipUsd(p)
          /\ agreement = "exact" => equity = pEquity + entrySlip - SlipUsd(p)
      BY <1>5, <2>2 DEF BothHold, Same
    <3>2. \E i \in 1 .. Len(ticks) : ticks[i] = DecidingPrice(candle, p)
      <4>1. DecidingPrice(candle, p) \in {candle.low, candle.high}
        BY DEF DecidingPrice
      <4>2. QED  BY <1>1, <4>1 DEF ParityInv, Feed
    <3> DEFINE a == pEquity + entrySlip + w - SlipUsd(p)
    <3> HIDE DEF w
    <3>3. equity + w <= a /\ (agreement = "exact" => equity + w = a)
      BY <1>0, <1>9, <3>1
    <3>4. agreement' = "exact" => agreement = "exact" /\ ~(s /\ g)
      BY <1>7
    <3>5. Same(equity, pEquity + entrySlip + Pnl(p, ExitIn(candle, p)) - SlipUsd(p))'
      BY <1>1, <1>10, <3>3, <3>4 DEF Same, w
    <3>6. WillClose(p)'
      <4>1. Twin(p)'
        BY <1>1, <3>1 DEF Twin
      <4>2. QED
        BY <1>1, <1>10, <3>1, <3>2, <3>4, <3>5, <4>1 DEF WillClose
    <3>7. EngineFirst'
      BY <1>1, <1>4, <1>5, <1>10, <3>6 DEF EngineFirst
    <3>8. QED  BY <3>7
  <2>3. QED  BY <1>3, <2>1, <2>2
<1>11. ASSUME NEW status, Reached(candle, p), ClosePosition(1, ExitIn(candle, p), status)
       PROVE  BothFlat' \/ EngineFirst'
  <2>1. open' = <<>> /\ equity' = equity + w
    <3> DEFINE x == ExitIn(candle, p)
    <3> HIDE DEF x
    <3>1. ClosePosition(1, x, status)
      BY <1>11 DEF x
    <3>2. open' = <<>> /\ equity' = equity + Pnl(open[1], x)
      BY <1>4, <3>1, LastOneCloses
    <3>3. QED  BY <1>5, <3>2 DEF x
  <2> HIDE DEF w
  <2>2. QED  BY <1>10, <1>11, <2>1
<1>12. ASSUME ~Reached(candle, p), cursor' = 1, UNCHANGED account
       PROVE  BothHold'
  <2>1. BothHold
    BY <1>3, <1>5, <1>12 DEF BrokerFirst
  <2>2. agreement' = agreement
    BY <1>7, <1>12 DEF Reached
  <2>3. QED  BY <1>1, <1>5, <1>12, <2>1, <2>2 DEF BothHold, Same, Twin, account
<1>13. QED  BY <1>8, <1>11, <1>12

\* The broker sees an extreme of the bar: it closes what the engine has closed, or nothing.
LEMMA BrokerTicks ==
  ASSUME TypeOK, ParityInv, Tick
  PROVE  Accounts'
<1> SUFFICES ASSUME agreement' # "none" PROVE BothFlat' \/ BothHold' \/ EngineFirst'
  BY DEF Accounts
<1> DEFINE price == Head(ticks)
<1>0. /\ open \in Seq(Position) /\ candle \in Candle /\ equity \in Int
      /\ pEquity \in Int /\ entrySlip \in Int /\ ticks \in Seq(Int) /\ ticks # <<>>
  BY DEF TypeOK, ParityInv, PaperTyped, Feed, Tick
<1>1. /\ phase = "signals" /\ phase' = "signals" /\ ticks' = Tail(ticks)
      /\ UNCHANGED <<t, candle, open, equity, entrySlip, pending>>
      /\ Paper!FeedPrice(X, price)
      /\ agreement' = agreement /\ agreement # "none"
      /\ ~\E i \in 1 .. Len(open) : Unwatched(open[i])
  BY DEF Tick, market, account
<1>2. /\ price = ticks[1] /\ 1 \in 1 .. Len(ticks) /\ price \in Int
      /\ Len(Tail(ticks)) = Len(ticks) - 1
      /\ \A i \in 1 .. Len(Tail(ticks)) : i + 1 \in 1 .. Len(ticks) /\ Tail(ticks)[i] = ticks[i + 1]
  BY <1>0, HeadTail
<1>3. candle.low <= price /\ price <= candle.high
  <2>1. price \in {candle.low, candle.high}
    BY <1>2 DEF ParityInv, Feed
  <2>2. candle.low <= candle.high
    BY <1>0 DEF ParityInv, Feed, Candle
  <2>3. candle.low \in Int /\ candle.high \in Int
    BY <1>0 DEF Candle
  <2> HIDE DEF price
  <2>4. QED  BY <2>1, <2>2, <2>3
<1> HIDE DEF price
<1>4. /\ ~Touches(price) => UNCHANGED <<pEquity, pPositions, pBrackets>>
      /\ Touches(price) => ~Paper!Held(X)' /\ pEquity' = pEquity + Closing(Paper!BracketExit(X, price))
  BY <1>1, <1>2, PaperFeeds DEF ParityInv
<1>5. BothFlat \/ BothHold \/ EngineFirst
  BY <1>1 DEF ParityInv, Accounts, BrokerFirst
<1>6. CASE BothFlat
  <2>1. ~Touches(price)
    BY <1>6 DEF BothFlat, Touches
  <2>2. BothFlat'
    BY <1>1, <1>4, <1>6, <2>1 DEF BothFlat, Same, Paper!Held
  <2>3. QED  BY <2>2
<1>7. CASE BothHold
  <2>1. PICK p \in Position : p = open[1]
    BY <1>7, OneOpen DEF BothHold
  <2>2. ~Reached(candle, p)
    <3>1. ~Unwatched(p)
      <4>1. 1 \in 1 .. Len(open)
        BY <1>7 DEF BothHold
      <4>2. QED  BY <1>1, <2>1, <4>1
    <3>2. ~(p.fill = t /\ Reached(candle, p))
      BY <3>1, LevelsOfCandle DEF Unwatched
    <3>3. p.fill = t \/ ~Reached(candle, p)
      BY <1>1, <1>7, <2>1 DEF BothHold
    <3>4. QED  BY <3>2, <3>3
  <2>3. Sided(p) /\ Twin(p)
    BY <1>7, <2>1 DEF BothHold
  <2>4. ~Touches(price)
    BY <1>0, <1>2, <1>3, <2>2, <2>3, TickExits DEF ParityInv
  <2>5. BothHold'
    BY <1>1, <1>4, <1>7, <2>4 DEF BothHold, Same, Twin
  <2>6. QED  BY <2>5
<1>8. CASE EngineFirst
  <2>1. PICK p \in Position : WillClose(p)
    BY <1>8 DEF EngineFirst
  <2> DEFINE w == Pnl(p, ExitIn(candle, p))
             v == Closing(Paper!BracketExit(X, price))
  <2>2. Sided(p) /\ Twin(p) /\ Reached(candle, p) /\ open = <<>>
    BY <1>8, <2>1 DEF EngineFirst, WillClose
  <2>3. /\ equity <= pEquity + entrySlip + w - SlipUsd(p)
        /\ agreement = "exact" => equity = pEquity + entrySlip + w - SlipUsd(p)
        /\ agreement = "exact" => ~(StopIn(candle, p) /\ TargetIn(candle, p))
    BY <2>1 DEF WillClose, Same
  <2>4. SlipUsd(p) \in Int
    BY SlipIsInt
  <2>5. CASE Touches(price)
    <3>1. /\ v \in Int /\ w \in Int /\ w - SlipUsd(p) <= v
          /\ ~(StopIn(candle, p) /\ TargetIn(candle, p)) => w - SlipUsd(p) = v
      BY <1>0, <1>2, <1>3, <2>2, <2>5, TickExits DEF ParityInv
    <3>2. ~Paper!Held(X)' /\ pEquity' = pEquity + v
      BY <1>4, <2>5
    <3> HIDE DEF v, w
    <3>3. equity <= pEquity + v + entrySlip
      BY <1>0, <2>3, <2>4, <3>1
    <3>4. agreement = "exact" => equity = pEquity + v + entrySlip
      BY <1>0, <2>3, <2>4, <3>1
    <3>5. BothFlat'
      BY <1>1, <2>2, <3>2, <3>3, <3>4 DEF BothFlat, Same
    <3>6. QED  BY <3>5
  <2>6. CASE ~Touches(price)
    <3>1. PICK i \in 1 .. Len(ticks) : ticks[i] = DecidingPrice(candle, p)
      BY <2>1 DEF WillClose
    <3>2. Touches(DecidingPrice(candle, p))
      BY <1>0, <2>2, DecidingPriceTouches DEF ParityInv
    <3>3. i # 1
      BY <1>2, <2>6, <3>1, <3>2
    <3>4. i - 1 \in 1 .. Len(ticks')
      BY <1>0, <1>1, <1>2, <3>3
    <3>5. ticks'[i - 1] = ticks[i]
      BY <1>1, <1>2, <3>4
    <3>6. \E j \in 1 .. Len(ticks') : ticks'[j] = DecidingPrice(candle, p)
      BY <3>1, <3>4, <3>5
    <3>7. UNCHANGED <<pEquity, pPositions, pBrackets>>
      BY <1>4, <2>6
    <3>8. WillClose(p)'
      BY <1>1, <2>1, <3>6, <3>7 DEF WillClose, Same, Twin
    <3>9. EngineFirst'
      BY <1>1, <2>2, <3>8 DEF EngineFirst
    <3>10. QED  BY <3>9
  <2>7. QED  BY <2>5, <2>6
<1>9. QED  BY <1>5, <1>6, <1>7, <1>8

\* The prices are used up, so no exit is left outstanding.
LEMMA BarEnds ==
  ASSUME TypeOK, ParityInv, EndsBar
  PROVE  Accounts'
<1>1. /\ phase = "signals" /\ phase' = "next" /\ ticks = <<>>
      /\ UNCHANGED <<t, candle, open, equity, entrySlip, agreement, pPositions, pBrackets, pEquity>>
  BY DEF EndsBar, RecordEquityPoint, market, account, twins, paper
<1>2. ~BrokerFirst /\ ~EngineFirst
  BY <1>1 DEF BrokerFirst, EngineFirst, WillClose
<1>3. BothFlat => BothFlat'
  BY <1>1 DEF BothFlat, Same, Paper!Held
<1>4. BothHold => BothHold'
  BY <1>1 DEF BothHold, Same, Twin
<1>5. QED  BY <1>1, <1>2, <1>3, <1>4 DEF Accounts, ParityInv

\* The steps of the engine that touch neither account.
LEMMA EngineMovesOn ==
  ASSUME TypeOK, ParityInv, EngineAlone
  PROVE  Accounts'
<1> SUFFICES ASSUME phase' \notin {"final", "done"} PROVE Accounts'
  BY DEF Accounts
<1>0. open \in Seq(Position) /\ cursor \in Nat
  BY DEF TypeOK
<1>1. /\ UNCHANGED <<t, candle, open, equity, ticks, entrySlip, agreement>>
      /\ UNCHANGED <<pPositions, pBrackets, pEquity>>
      /\ \/ phase = "flat" /\ phase' = "stops" /\ cursor' = 0
         \/ phase = "stops" /\ phase' = "fill" /\ cursor = Len(open) /\ UNCHANGED pending
         \/ phase \in {"fill", "signals"} /\ phase' = "signals"
      /\ phase \notin {"final", "done"}
  BY DEF EngineAlone, FlattenDone, StopsDone, FillsDone, TakeSignal, LastBarDone, FinalFlatten,
         market, account, twins, paper
<1>2. BothFlat => BothFlat'
  BY <1>1 DEF BothFlat, Same, Paper!Held
<1>3. ASSUME BothHold PROVE BothHold'
  <2>1. phase = "stops" => ~Reached(candle, open[1])
    BY <1>1, <1>3 DEF BothHold
  <2>2. /\ Len(open') = 1 /\ Sided(open'[1]) /\ open'[1] = open[1]
        /\ phase' = "stops" => cursor' = 0
        /\ phase' \in {"fill", "signals"} => open[1].fill = t \/ ~Reached(candle, open[1])
    BY <1>1, <1>3, <2>1 DEF BothHold
  <2>3. Twin(open[1])' /\ Same(equity, pEquity + entrySlip - SlipUsd(open[1]))'
    BY <1>1, <1>3 DEF BothHold, Twin, Same
  <2>4. QED  BY <1>1, <2>2, <2>3 DEF BothHold
<1>4. ASSUME BrokerFirst PROVE BrokerFirst'
  <2>1. phase' = "stops" /\ cursor' = 0
    BY <1>0, <1>1, <1>4 DEF BrokerFirst
  <2>2. QED  BY <1>1, <1>4, <2>1 DEF BrokerFirst, Paper!Held
<1>5. ASSUME EngineFirst PROVE EngineFirst'
  <2>1. PICK p \in Position : WillClose(p)
    BY <1>5 DEF EngineFirst
  <2>2. WillClose(p)'
    BY <1>1, <2>1 DEF WillClose, Twin, Same
  <2>3. QED  BY <1>1, <1>5, <2>2 DEF EngineFirst
<1>6. QED  BY <1>1, <1>2, <1>3, <1>4, <1>5 DEF Accounts, ParityInv

\* Every step preserves the invariant.
LEMMA NextParity ==
  TypeOK /\ PendingInv /\ ParityInv /\ [ParityNext]_parityVars => ParityInv'
<1> SUFFICES ASSUME TypeOK, PendingInv, ParityInv, [ParityNext]_parityVars PROVE ParityInv'
  OBVIOUS
<1>1. PaperTyped' /\ Feed'
  BY NextFeed DEF ParityInv
<1>2. Levels'
  BY NextLevels, ParityStepsTheEngine DEF ParityInv
<1>3. CASE UNCHANGED parityVars
  <2>1. /\ UNCHANGED <<phase, t, candle, cursor, pending, open, equity>>
        /\ UNCHANGED <<ticks, entrySlip, agreement, pPositions, pBrackets, pEquity>>
    BY <1>3 DEF parityVars, vars, market, account, twins, paper
  <2>2. BothFlat => BothFlat'
    BY <2>1 DEF BothFlat, Same, Paper!Held
  <2>3. BothHold => BothHold'
    BY <2>1 DEF BothHold, Same, Twin
  <2>4. BrokerFirst => BrokerFirst'
    BY <2>1 DEF BrokerFirst, Paper!Held
  <2>5. ASSUME EngineFirst PROVE EngineFirst'
    <3>1. PICK p \in Position : WillClose(p)
      BY <2>5 DEF EngineFirst
    <3>2. WillClose(p)'
      BY <2>1, <3>1 DEF WillClose, Twin, Same
    <3>3. QED  BY <2>1, <2>5, <3>2 DEF EngineFirst
  <2>6. Accounts /\ agreement' = agreement /\ phase' = phase
    BY <2>1 DEF ParityInv
  <2>7. EngineFirst => EngineFirst'
    BY <2>5
  <2>8. Accounts'
    BY <2>2, <2>3, <2>4, <2>6, <2>7, Zenon DEF Accounts
  <2>9. QED  BY <1>1, <1>2, <2>8 DEF ParityInv
<1>4. ASSUME ParityNext PROVE Accounts'
  BY <1>4, BarOpens, BothFlatten, BothFill, BothExamine, BrokerTicks, BarEnds, EngineMovesOn
  DEF ParityNext, ParityInv
<1>5. QED  BY <1>1, <1>2, <1>3, <1>4 DEF ParityInv

\* The inductive invariant: where the two accounts stand at every moment of a bar.
THEOREM ParityInvariant == ParitySpec => []ParityInv
<1>1. ParitySpec => []TypeOK /\ []PendingInv
  BY ParityRunsTheEngine, TypeCorrect, PendingInvariant, PTL
<1>2. QED
  BY <1>1, ParityInitially, NextParity, PTL DEF ParitySpec

\* What the invariant says at the end of a bar.
LEMMA AccountsAtTheEnd ==
  ASSUME TypeOK, ParityInv, phase = "next", agreement # "none"
  PROVE  /\ open = <<>> <=> ~Paper!Held(X)
         /\ open = <<>> => Same(equity, pEquity + entrySlip)
<1>1. BothFlat \/ BothHold
  BY DEF ParityInv, Accounts, BrokerFirst, EngineFirst
<1>2. ASSUME BothHold PROVE open # <<>> /\ Paper!Held(X)
  <2>1. Len(open) = 1 /\ Len(<<>>) = 0
    BY <1>2 DEF BothHold
  <2>2. open[1].qty # 0 /\ pPositions[X].qty = open[1].qty
    BY <1>2 DEF BothHold, Sided, Twin
  <2>3. open # <<>>
    BY ONLY <2>1
  <2>4. pPositions[X].qty # 0
    BY ONLY <2>2
  <2>5. Paper!Held(X)
    BY <2>4, Zenon DEF Paper!Held
  <2>6. QED  BY ONLY <2>3, <2>5
<1>3. QED  BY <1>1, <1>2 DEF BothFlat

\* On bars that decide what they do to a position the engine and the broker are
\* the same account, the slip of the entries apart: for every series and market.
THEOREM AccountsAgree == ParitySpec => []ParityOnClearBars
<1>1. TypeOK /\ ParityInv => ParityOnClearBars
  BY AccountsAtTheEnd DEF ParityOnClearBars, Same
<1>2. ParitySpec => []TypeOK
  BY ParityRunsTheEngine, TypeCorrect, PTL
<1>3. QED  BY <1>1, <1>2, ParityInvariant, PTL

\* On the others that the two both watch the engine never shows more money.
THEOREM EngineIsPessimistic == ParitySpec => []StopFirstIsPessimistic
<1>1. TypeOK /\ ParityInv => StopFirstIsPessimistic
  BY AccountsAtTheEnd DEF StopFirstIsPessimistic, Same
<1>2. ParitySpec => []TypeOK
  BY ParityRunsTheEngine, TypeCorrect, PTL
<1>3. QED  BY <1>1, <1>2, ParityInvariant, PTL
=============================================================================
