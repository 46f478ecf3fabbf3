SPECIFICATION Spec
CONSTANTS
  Symbols = {MNQ, MES}
  StartingEquity = 100
  Commission = 1
  SlippageTicks = 1
  TickValue = 2
  Prices = {5, 8, 11}
  Quantities = {1}
  MaxOrders = 2
PROPERTIES
  KeepsContract
  FlattenRealises
