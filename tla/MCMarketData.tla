---------------------------- MODULE MCMarketData ----------------------------
(***************************************************************************)
(* MarketData over two days of four minutes. The continuous series has two *)
(* contracts that take the lead from one another, a spread, a minute told  *)
(* twice and a malformed row. A second source holds one row, or nothing.   *)
(***************************************************************************)
EXTENDS MarketData

CONSTANTS Here, There
MCSources == {Here, There}
MCMaxRows == [source \in MCSources |-> IF source = Here THEN 3 ELSE 1]

Row(ts, sym, low, high, volume) ==
  [ts |-> ts, sym |-> sym, open |-> low, high |-> high, low |-> low, close |-> high,
   volume |-> volume]
Tick(ts, mid) == [ts |-> ts, sym |-> "H", mid |-> mid, volume |-> 1]

HereRows ==
  [l \in Loaders |->
    CASE l = CME   -> {Row(0, "H", 1, 2, 2), Row(0, "M", 3, 4, 1), Row(2, "M", 2, 4, 1),
                       Row(3, "H-M", 0, 1, 9), Row(4, "M", 3, 5, 4), Row(5, "H", 1, 3, 1),
                       Row(6, "M", 3, 5, 1), Row(7, "H", 0, 2, 3)}
      [] l = OHLCV -> {Row(0, "H", 1, 2, 2), Row(0, "H", 1, 3, 1), Row(2, "H", 2, 4, 1),
                       Row(3, "H", 0, 1, 2), Row(7, "H", 3, 5, 4), Row(NoTime, "H", 1, 1, 1)}
      [] OTHER     -> {Tick(0, 3), Tick(0, 5), Tick(3, 4), Tick(6, 2), Tick(7, 6)}]
ThereRows ==
  [l \in Loaders |-> IF l = L2 THEN {Tick(1, 9)} ELSE {Row(1, "M", 6, 8, 5)}]
MCFeedRows == [source \in MCSources |-> IF source = Here THEN HereRows ELSE ThereRows]
=============================================================================
