---------------------------- MODULE MCTicketGate ----------------------------
(* Instances of ScanPage, and so of TicketGate, for TLC. *)
EXTENDS ScanPage, TLC

(* Seats, bookings and scans are interchangeable. *)
Symmetry == Permutations(Seats) \cup Permutations(Orders) \cup Permutations(Scans)
=============================================================================
