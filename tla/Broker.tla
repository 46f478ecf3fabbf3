------------------------------- MODULE Broker -------------------------------
(***************************************************************************)
(* The contract of execution/broker.py, as its callers rely on it: an order*)
(* that is submitted opens a lot at most once, at once or later or never,  *)
(* and apart from that lots only go away. Nothing else opens a position.   *)
(* PaperBroker and QuantowerBridge implement this specification.           *)
(***************************************************************************)
EXTENDS Integers

CONSTANT Symbols

Order == [id : Nat \ {0}, symbol : Symbols, qty : Int \ {0}]

VARIABLES
  connected,  \* is_connected
  issued,     \* orders numbered so far
  asked,      \* orders submitted whose execution is still open
  lots        \* positions: the orders that were executed and not closed

brokerVars == <<connected, issued, asked, lots>>

Connect ==
  /\ connected' = TRUE
  /\ UNCHANGED <<issued, asked, lots>>

Disconnect ==
  /\ connected' = FALSE
  /\ UNCHANGED <<issued, asked, lots>>

Adds(after, before, number) ==
  \E o \in after : o \in Order /\ o.id = number /\ after = before \cup {o}

\* submit_market raises unless the broker is connected. The order is executed
\* at once, or its execution stays open, or it is rejected.
Submit ==
  /\ connected
  /\ issued' = issued + 1
  /\ \/ Adds(lots', lots, issued') /\ UNCHANGED asked
     \/ Adds(asked', asked, issued') /\ UNCHANGED lots
     \/ UNCHANGED <<asked, lots>>
  /\ UNCHANGED connected

\* An order that was submitted is executed, whether or not anybody waits.
Execute ==
  /\ \E o \in asked :
       /\ asked' = asked \ {o}
       /\ lots' = lots \cup {o}
  /\ UNCHANGED <<connected, issued>>

Reject ==
  /\ \E o \in asked : asked' = asked \ {o}
  /\ UNCHANGED <<connected, issued, lots>>

\* By a bracket, one lot; by flatten_all, all or those of a symbol.
Exit ==
  /\ lots' \subseteq lots
  /\ UNCHANGED <<connected, issued, asked>>

Fresh ==
  /\ connected = FALSE
  /\ issued = 0
  /\ asked = {}
  /\ lots = {}

BrokerNext == Connect \/ Disconnect \/ Submit \/ Execute \/ Reject \/ Exit

BrokerSpec == Fresh /\ [][BrokerNext]_brokerVars

\* What callers may count on, whatever answers they miss: no order stands for
\* two lots, and none is executed that has been executed already.
OneLotPerOrder ==
  /\ lots \cap asked = {}
  /\ \A o, p \in lots \cup asked : o.id = p.id => o = p
=============================================================================
