CONSTANTS
  Seats = {s1, s2}
  MaxHolds = 1
  MaxOrders = 1
  MaxCalls = 2
  MaxLoads = 1
  NoHold = NoHold
  NoOrder = NoOrder
SPECIFICATION Spec
PROPERTY ExpiredIsPrompted
CHECK_DEADLOCK FALSE
