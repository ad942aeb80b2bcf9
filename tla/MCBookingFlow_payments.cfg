\* Two bookings that may name the same seats, and three callbacks: what is sold,
\* and that a conflict is the last word.
CONSTANTS
  Seats = {s1, s2}
  Reservations = {r1}
  NoRes = NoRes
  Bookings = {b1, b2}
  Callbacks = {k1, k2, k3}
  NoBooking = NoBooking
  MaxFaults = 0
SPECIFICATION Spec
SYMMETRY Symmetry
INVARIANTS
  SoldIffPaid
  ConflictIsFinal
PROPERTY
  RefinesSeatSale
CHECK_DEADLOCK FALSE
