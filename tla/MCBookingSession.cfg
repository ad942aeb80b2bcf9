CONSTANTS
  Seats = {s1, s2}
  MaxHolds = 2
  MaxOrders = 1
  MaxCalls = 2
  MaxLoads = 1
  NoHold = NoHold
  NoOrder = NoOrder
SPECIFICATION Spec
INVARIANTS
  TypeOK
  ConfirmedIsPaid
  CheckoutMatchesHold
SYMMETRY SeatSymmetry
