--------------------------- MODULE MCLiveTrading ---------------------------
(***************************************************************************)
(* Two days on a host an hour ahead of UTC, so that all stamps are an hour *)
(* ahead of New York: two bars on which the detectors' index is the same,  *)
(* the two Silver Bullet windows, 16:30, an evening and the midnight bar.  *)
(* Some silences are longer than the window, and any minute may be silent. *)
(***************************************************************************)
EXTENDS LiveTrading

MCOffset == 60

MCStamps ==
  {At(10, 0), At(14, 0), At(16, 30), At(18, 0), At(24, 0), 1440 + At(10, 0), 1440 + At(10, 1)}
MCTimes == {stamp - MCOffset : stamp \in MCStamps}

MCLong  == [side |-> "BUY", entry |-> 10, sl |-> 8]
\* Its stop is too far for the equity.
MCWide  == [side |-> "SELL", entry |-> 11, sl |-> 14]

MCBatches == {<<>>, <<MCLong, MCWide>>}
=============================================================================
