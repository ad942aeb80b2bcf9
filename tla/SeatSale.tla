------------------------------ MODULE SeatSale ------------------------------
(***************************************************************************)
(* What selling the seats of one showtime promises, whatever the locks,    *)
(* requests, callbacks and failures in between: an order names its seats   *)
(* once and for all, it is sold as a whole or not at all, a seat is sold   *)
(* to at most one order, a blocked seat is never sold, and a sold or       *)
(* cancelled order stays that way.                                         *)
(***************************************************************************)

CONSTANTS
  Seats,
  Orders

VARIABLES
  free,     \* the seats that can still be sold
  order     \* order[o]: its status and its seats

saleVars == <<free, order>>

SaleInit ==
  /\ free \in SUBSET Seats
  /\ order = [o \in Orders |-> [status |-> "NONE", seats |-> {}]]

Open(o, S) ==
  /\ order[o].status = "NONE"
  /\ order' = [order EXCEPT ![o] = [status |-> "PENDING_PAYMENT", seats |-> S]]
  /\ UNCHANGED free

Sell(o) ==
  /\ order[o].status = "PENDING_PAYMENT"
  /\ order[o].seats \subseteq free
  /\ order' = [order EXCEPT ![o].status = "PAID"]
  /\ free' = free \ order[o].seats

Cancel(o) ==
  /\ order[o].status = "PENDING_PAYMENT"
  /\ order' = [order EXCEPT ![o].status = "CANCELLED"]
  /\ UNCHANGED free

SaleNext ==
  \E o \in Orders :
    \/ \E S \in (SUBSET Seats) \ {{}} : Open(o, S)
    \/ Sell(o)
    \/ Cancel(o)

SaleSpec == SaleInit /\ [][SaleNext]_saleVars
=============================================================================
