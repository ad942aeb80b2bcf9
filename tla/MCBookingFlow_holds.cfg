\* Two seats: batches, rollbacks and overlapping bookings, nothing fails.
CONSTANTS
  Seats = {s1, s2}
  Reservations = {r1, r2}
  NoRes = NoRes
  Bookings = {b1, b2}
  Callbacks = {k1, k2}
  NoBooking = NoBooking
  MaxFaults = 0
SPECIFICATION Spec
SYMMETRY Symmetry
INVARIANTS
  TypeOK
  NoDoubleSale
  BookedSeatsWereHeld
  RefusedHoldHoldsNothing
  LocksLostOnlyByRight
CHECK_DEADLOCK FALSE
