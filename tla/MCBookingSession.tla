---------------------------- MODULE MCBookingSession ---------------------------
(* A small instance of BookingSession for TLC; seats are interchangeable.     *)
(* The prices of the seats are checked here over small numbers.               *)
EXTENDS BookingSession, Pricing, TLC

SeatSymmetry == Permutations(Seats)

Factors == {0, 80, 100, 110, 120, 125, 200}

ASSUME SmallPricesAgree ==
  \A base \in 0..60 :
    /\ \A cell \in [type : Types \cup {"OTHER"}, factor : Factors] : ShownIsCharged(base, cell)
    /\ \A cell \in [type : Types, factor : Factors] : SeededIsCharged(base, cell)
=============================================================================
