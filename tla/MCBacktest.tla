----------------------------- MODULE MCBacktest -----------------------------
(***************************************************************************)
(* A two-day series around the session boundaries: the midnight bar, the   *)
(* last minute before the news block and its first, a morning in which a   *)
(* position fills, stops out and is followed by another, the afternoon's   *)
(* last entry minute, 16:30 right after it, and the next morning without a *)
(* midnight bar.                                                           *)
(***************************************************************************)
EXTENDS Parity

MCStamps ==
  << [day |-> 1, minute |-> 0],
     [day |-> 1, minute |-> At(8, 29)],
     [day |-> 1, minute |-> At(8, 30)],
     [day |-> 1, minute |-> At(9, 0)],
     [day |-> 1, minute |-> At(9, 1)],
     [day |-> 1, minute |-> At(9, 2)],
     [day |-> 1, minute |-> At(16, 0)],
     [day |-> 1, minute |-> At(16, 30)],
     [day |-> 2, minute |-> At(9, 0)],
     [day |-> 2, minute |-> At(9, 1)] >>

\* A quiet bar, one that reaches the long's stop and the short's target, one
\* that reaches the long's target, one that opens beyond the short's stop,
\* and one that reaches the stop and the target of either.
MCCandles ==
  { [open |-> 10, high |-> 11, low |-> 9],
    [open |-> 9, high |-> 10, low |-> 7],
    [open |-> 12, high |-> 13, low |-> 11],
    [open |-> 17, high |-> 18, low |-> 16],
    [open |-> 10, high |-> 14, low |-> 7] }

MCLong  == [side |-> "BUY", entry |-> 10, sl |-> 8, tp |-> 13]
MCShort == [side |-> "SELL", entry |-> 11, sl |-> 14, tp |-> 8]

MCBatches == {<<>>, <<MCLong, MCLong>>, <<MCShort, MCLong>>}
=============================================================================
