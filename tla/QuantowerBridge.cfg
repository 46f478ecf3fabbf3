SPECIFICATION Spec
CONSTANTS
  Symbol = MNQ
  Prices = {5, 8, 10}
  Quantities = {1}
  NoRequest = NoRequest
  MaxOrders = 2
INVARIANTS
  LotsAreGuarded
  BracketMovesWithFill
  AcceptedIsSettled
PROPERTIES
  ImplementsBroker
