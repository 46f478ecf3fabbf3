-------------------------------- MODULE Risk --------------------------------
(***************************************************************************)
(* The risk package: the LimitsState that gates entries (risk/limits.py)   *)
(* and the position sizer (risk/sizing.py), as pure operators over values. *)
(* The backtest engine and the live runner keep the state and call them.   *)
(*                                                                         *)
(* Prices are whole ticks and money is whole units, so the percentages of  *)
(* the code become comparisons multiplied by 100.                          *)
(***************************************************************************)
EXTENDS Integers

CONSTANTS
  DailyLossLimitPct,     \* LimitsConfig.daily_loss_limit_pct
  MaxTradesPerDay,       \* LimitsConfig.max_trades_per_day
  MaxConsecutiveLosses,  \* LimitsConfig.max_consecutive_losses
  RiskPct,               \* RiskConfig.per_trade_risk_pct
  MinQuantity,           \* RiskConfig.min_quantity
  MaxQuantity,           \* RiskConfig.max_quantity
  TickValue              \* InstrumentSpec.tick_value_usd

ASSUME LimitsAssumption ==
  /\ DailyLossLimitPct \in Nat
  /\ MaxTradesPerDay \in Nat
  /\ MaxConsecutiveLosses \in Nat

ASSUME SizingAssumption ==
  /\ RiskPct \in Nat
  /\ MinQuantity \in Nat
  /\ MaxQuantity \in Nat
  /\ TickValue \in Nat \ {0}

-----------------------------------------------------------------------------
NoDay == -1  \* current_day is None

Day == Nat \cup {NoDay}

LimitsStates ==
  [startEquity : Int, day : Day, trades : Nat, streak : Nat, loss : Nat,
   lockedDay : BOOLEAN, lockedStreak : BOOLEAN]

\* The dataclass defaults: no day has begun.
FreshLimits ==
  [startEquity |-> 0, day |-> NoDay, trades |-> 0, streak |-> 0, loss |-> 0,
   lockedDay |-> FALSE, lockedStreak |-> FALSE]

\* LimitsState.reset_for_day: every counter and both locks start afresh.
ResetForDay(s, today, equity) ==
  [FreshLimits EXCEPT !.startEquity = equity, !.day = today]

\* LimitsState.register_trade: a closed trade counts, a losing one feeds the
\* day's loss and the streak, and each cap that is reached locks. A lock is
\* never taken back here: a later win resets the streak, not the lock.
RegisterTrade(s, pnl) ==
  LET loss   == IF pnl < 0 THEN s.loss - pnl ELSE s.loss
      streak == IF pnl < 0 THEN s.streak + 1 ELSE 0
  IN  [s EXCEPT
         !.trades = @ + 1,
         !.loss = loss,
         !.streak = streak,
         !.lockedDay = @ \/ loss * 100 >= s.startEquity * DailyLossLimitPct,
         !.lockedStreak = @ \/ streak >= MaxConsecutiveLosses]

\* Mutant: off by one at the daily cap.
CanTradeOnceMore(s) ==
  /\ ~s.lockedDay
  /\ ~s.lockedStreak
  /\ s.trades <= MaxTradesPerDay

CanTrade(s) ==
  /\ ~s.lockedDay
  /\ ~s.lockedStreak
  /\ s.trades < MaxTradesPerDay

-----------------------------------------------------------------------------
Distance(a, b) == IF a >= b THEN a - b ELSE b - a

LesserOf(a, b) == IF a <= b THEN a ELSE b
GreaterOf(a, b) == IF a >= b THEN a ELSE b

\* size_position: contracts such that the stop, when hit, costs at most the
\* risk budget; 0 when one contract already exceeds it. The clip comes after
\* the budget: a MinQuantity above what the budget buys wins over it.
SizePosition(equity, entry, sl) ==
  LET risk   == Distance(entry, sl) * TickValue  \* per contract
      budget == equity * RiskPct                 \* in hundredths
  IN  IF risk <= 0 \/ risk * 100 > budget
      THEN 0
      ELSE GreaterOf(MinQuantity,
                     LesserOf(MaxQuantity, budget \div (risk * 100)))
=============================================================================
