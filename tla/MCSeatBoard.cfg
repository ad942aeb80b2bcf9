\* Two seats, one customer and one screen, with one failure: what the screen
\* shows, and that sales reach it.
CONSTANTS
  Seats = {s1, s2}
  Reservations = {r1}
  NoRes = NoRes
  Bookings = {b1}
  Callbacks = {k1}
  NoBooking = NoBooking
  MaxFaults = 1
SPECIFICATION BoardLiveSpec
INVARIANTS
  BoardTypeOK
  SoldShownIsSold
PROPERTY
  SaleReachesScreen
CHECK_DEADLOCK FALSE
