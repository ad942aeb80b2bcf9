\* Two seats, two callbacks and one failure anywhere: a plain sale, answers that
\* stay true, and every request is answered.
CONSTANTS
  Seats = {s1, s2}
  Reservations = {r1}
  NoRes = NoRes
  Bookings = {b1}
  Callbacks = {k1, k2}
  NoBooking = NoBooking
  MaxFaults = 1
SPECIFICATION LiveSpec
INVARIANTS
  SoldIffPaid
  PaidAnswersStayTrue
PROPERTIES
  RefinesSeatSale
  EveryRequestAnswered
CHECK_DEADLOCK FALSE
