--------------------------- MODULE MCBookingFlow ---------------------------
(* Instances of BookingFlow for TLC. *)
EXTENDS BookingFlow, TLC

(* Requests of one kind are interchangeable, and so are seats: no property *)
(* and no action tells them apart.  Used for safety runs only.             *)
Symmetry == Permutations(Seats) \cup Permutations(Reservations)
              \cup Permutations(Bookings) \cup Permutations(Callbacks)
=============================================================================
