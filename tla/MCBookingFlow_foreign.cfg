\* one property the documentation states and the code does not keep
CONSTANTS
  Seats = {s1}
  Reservations = {r1, r2}
  NoRes = NoRes
  Bookings = {b1}
  Callbacks = {k1}
  NoBooking = NoBooking
  MaxFaults = 0
SPECIFICATION Spec
PROPERTY
  NoForeignRelease
CHECK_DEADLOCK FALSE
