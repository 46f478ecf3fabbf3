-------------------------- MODULE MarketStructure --------------------------
(***************************************************************************)
(* Market structure (structure/market_structure.py): the walk over bars    *)
(* and confirmed swings that keeps the state and emits BoS, ChoCH and MSS. *)
(* walk[t] is the walk's state after bar t; its events are those emitted   *)
(* so far.                                                                 *)
(***************************************************************************)
EXTENDS PDArrays

CONSTANTS
  TakenLookback,  \* bars in which the opposite pool must have been taken
  FvgLookback     \* bars in which the breaking gap must be anchored

ASSUME MarketStructureAssumption == {TakenLookback, FvgLookback} \subseteq Nat

Roles == {"HH", "HL", "LH", "LL"}
NoSwing == [price |-> 0, confirmed |-> None]
Known(sw) == sw # NoSwing

\* A swing is compared with the last higher swing of its kind, and with the
\* last lower one only while there is no higher.
Role(last, w) ==
  IF w.kind = "HIGH"
  THEN LET prior == IF Known(last["HH"]) THEN last["HH"] ELSE last["LH"]
       IN  IF ~Known(prior) \/ w.price > prior.price THEN "HH" ELSE "LH"
  ELSE LET prior == IF Known(last["HL"]) THEN last["HL"] ELSE last["LL"]
       IN  IF ~Known(prior) \/ w.price > prior.price THEN "HL" ELSE "LL"

\* The state the last swing of each role makes.
StateOf(last) ==
  LET up   == Larger(last["HH"].confirmed, last["HL"].confirmed)
      down == Larger(last["LH"].confirmed, last["LL"].confirmed)
  IN  IF Known(last["HH"]) /\ Known(last["HL"]) /\ up > down THEN "BULL"
      ELSE IF Known(last["LH"]) /\ Known(last["LL"]) /\ down > up THEN "BEAR"
      ELSE "RANGE"

Promote(w, sw) ==
  LET last == [w.last EXCEPT ![Role(w.last, sw)] =
                [price |-> sw.price, confirmed |-> sw.confirmed]]
  IN  [w EXCEPT !.last = last, !.state = StateOf(last)]

\* The swings bar t confirms, the high before the low of the same bar.
PromoteAll(w, swings, t) ==
  LET of(kind) == {sw \in swings : sw.confirmed = t /\ sw.kind = kind}
      high == IF of("HIGH") = {} THEN w ELSE Promote(w, CHOOSE sw \in of("HIGH") : TRUE)
  IN  IF of("LOW") = {} THEN high ELSE Promote(high, CHOOSE sw \in of("LOW") : TRUE)

(***************************************************************************)
(* The three gates of an MSS.                                              *)
(***************************************************************************)
\* The side of the pool a bar takes; of several, the newest pool's.
TakenSide(taken, t) ==
  LET here == {c \in taken : c.index = t}
      newest == {c \in here : \A e \in here : e.pool.created <= c.pool.created}
  IN  IF here = {} THEN "none"
      ELSE IF \E c \in newest : c.side = "SSL" THEN "SSL" ELSE "BSL"

HadRecentConsumption(taken, side, t) ==
  \E u \in Larger(1, t - TakenLookback) .. t - 1 : TakenSide(taken, u) = side

\* Mutant: the range ends one bar late.
HasBreakingFvgAhead(fvgs, dir, t) ==
  \E g \in fvgs : g.direction = dir /\ g.anchor \in t - FvgLookback .. t + 1

HasBreakingFvg(fvgs, dir, t) ==
  \E g \in fvgs : g.direction = dir /\ g.anchor \in t - FvgLookback .. t

\* Whether the break of bar t against dir is a shift or a mere change.
Reversal(dir, t, d, fvgs, taken) ==
  IF /\ d[t] = dir
     /\ HasBreakingFvg(fvgs, dir, t)
     /\ HadRecentConsumption(taken, SideAgainst(dir), t)
  THEN "MSS" ELSE "ChoCH"

(***************************************************************************)
(* One bar of the walk: two continuations, then two reversals; each test   *)
(* reads the state the one before it has left.                             *)
(***************************************************************************)
Event(kind, dir, t, price) ==
  [kind |-> kind, direction |-> dir, index |-> t, broken |-> price]

Continue(w, s, t) ==
  IF w.state = "BULL" /\ Known(w.last["HH"]) /\ s[t].close > w.last["HH"].price
  THEN [w EXCEPT !.events = @ \cup {Event("BoS", BULL, t, w.last["HH"].price)}]
  ELSE IF w.state = "BEAR" /\ Known(w.last["LL"]) /\ s[t].close < w.last["LL"].price
  THEN [w EXCEPT !.events = @ \cup {Event("BoS", BEAR, t, w.last["LL"].price)}]
  ELSE w

Break(w, s, t, dir, d, fvgs, taken) ==
  LET level == IF dir = BULL THEN w.last["LH"] ELSE w.last["HL"]
      breaks == IF dir = BULL THEN s[t].close > level.price ELSE s[t].close < level.price
      kind == Reversal(dir, t, d, fvgs, taken)
  IN  IF w.state = Against(dir) /\ Known(level) /\ breaks
      THEN [w EXCEPT !.events = @ \cup {Event(kind, dir, t, level.price)},
                     !.state = IF kind = "MSS" THEN dir ELSE @]
      ELSE w

Walk(s, swings, d, fvgs, taken) ==
  LET walk[t \in 0 .. Len(s)] ==
        IF t = 0
        THEN [last |-> [r \in Roles |-> NoSwing], state |-> "RANGE", events |-> {}]
        ELSE LET seen == Continue(PromoteAll(walk[t - 1], swings, t), s, t)
             IN  Break(Break(seen, s, t, BULL, d, fvgs, taken), s, t, BEAR, d, fvgs, taken)
  IN  walk[Len(s)]

DetectStructureEvents(s, swings, d, fvgs, taken) == Walk(s, swings, d, fvgs, taken).events
=============================================================================
