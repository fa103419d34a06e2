SPECIFICATION Spec
CONSTANTS
  Prices <- MCPrices
  Traded = {100, 500, 100000}
  MinOdds = {100, 150, 500}
  MaxOdds = {0, 105, 258, 1150, 95500}
  Stakes = {0, 40, 50, 5000}
  Units = {6, 8, 10}
INVARIANTS
  LimitIsTick
  LimitFair
  LayNotLost
CHECK_DEADLOCK FALSE
