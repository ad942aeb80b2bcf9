\* Two seats, two bookings that may name the same seats, two scans, one failure, one scanner page.
CONSTANTS
  Seats = {s1, s2}
  Orders = {b1, b2}
  Scans = {k1, k2}
  NoTicket = NoTicket
  MaxFaults = 1
SPECIFICATION ScreenSpec
SYMMETRY Symmetry
INVARIANTS
  TypeOK
  OneAdmissionPerSeat
  AdmittedHasPaid
  RefusalHasACause
  VerdictFitsToken
CHECK_DEADLOCK FALSE
