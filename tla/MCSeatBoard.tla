---------------------------- MODULE MCSeatBoard ----------------------------
(* Instances of SeatBoard for TLC. *)
EXTENDS SeatBoard

(* News of a sale reaches every screen that is there to hear it.  Seats    *)
(* are interchangeable, in Init as in every action and in the fairness, so *)
(* one seat, among others that do what they like, stands for all.          *)
SaleReachesScreen == SaleReaches(CHOOSE s \in Seats : TRUE)
=============================================================================
