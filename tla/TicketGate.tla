----------------------------- MODULE TicketGate -----------------------------
(***************************************************************************)
(* Admission at the turnstile: TicketService.verifyQrTicket, called by any *)
(* number of scanners at once, over a sale that goes on.  The sale is the  *)
(* abstract one that BookingFlow implements, so every property here rests  *)
(* on what SeatSale promises and on nothing else of the booking flow.      *)
(* A ticket is the pair of its booking and its seat; it exists from the    *)
(* creation of the booking, paid or not, and its owner can show its QR     *)
(* token from then on.                                                     *)
(***************************************************************************)
EXTENDS SeatSale, Integers

CONSTANTS
  Scans,        \* calls of verify-qr
  NoTicket,     \* the ticket of a call not made yet
  MaxFaults     \* how many database failures may happen

Pairs == Orders \X Seats

ASSUME NoTicketAssumption == NoTicket \notin Orders \X Seats
ASSUME MaxFaultsAssumption == MaxFaults \in Nat

VARIABLES
  ended,     \* the clock has passed the exp of the showtime's tokens
  used,      \* the tickets whose status is CHECKED_IN
  scan,      \* scan[k]: the k-th call of verify-qr
  faults     \* database failures so far

gateVars == <<ended, used, scan, faults>>
vars == <<saleVars, gateVars>>

ScanBusy == {"reading", "claiming"}
ScanDone == {"admitted", "invalid", "expired", "unpaid", "alreadyUsed", "error"}

Init ==
  /\ SaleInit
  /\ ended = FALSE
  /\ used = {}
  /\ scan = [k \in Scans |-> [pc |-> "idle", ticket |-> NoTicket]]
  /\ faults = 0

(* The rows of the tickets table. *)
Issued(t) == order[t[1]].status # "NONE" /\ t[2] \in order[t[1]].seats

ScanPc(k, pc) == scan' = [scan EXCEPT ![k].pc = pc]

(* A token is refused at once when verifyToken finds that its signature    *)
(* does not fit its payload, and when its exp is over by the clock.        *)
Verdict(genuine) ==
  IF ~genuine THEN "invalid" ELSE IF ended THEN "expired" ELSE "reading"

ScanArrives(k, t) ==
  /\ scan[k].pc = "idle"
  /\ Issued(t)
  /\ \E genuine \in BOOLEAN :
       scan' = [scan EXCEPT ![k] = [pc |-> Verdict(genuine), ticket |-> t]]
  /\ UNCHANGED <<saleVars, ended, used, faults>>

AdmissibleBug(t) == order[t[1]].status # "CANCELLED"

(* Only tickets of a paid booking are admitted. *)
Admissible(t) == order[t[1]].status = "PAID"

(* The transaction reads the ticket with its booking, *)
ScanRead(k) ==
  /\ scan[k].pc = "reading"
  /\ ScanPc(k, IF Admissible(scan[k].ticket) THEN "claiming" ELSE "unpaid")
  /\ UNCHANGED <<saleVars, ended, used, faults>>

UnusedBug(t) == TRUE

(* and checks it in by an update that only finds it UNUSED. *)
Unused(t) == t \notin used

CheckInByBookingBug(t) == used' = used \cup {t[1]}

CheckInBug(t) == used' = used \cup {u \in Pairs : u[1] = t[1]}

CheckIn(t) == used' = used \cup {t}

ScanClaim(k) ==
  /\ scan[k].pc = "claiming"
  /\ \/ /\ Unused(scan[k].ticket)
        /\ CheckIn(scan[k].ticket)
        /\ ScanPc(k, "admitted")
     \/ /\ ~Unused(scan[k].ticket)
        /\ ScanPc(k, "alreadyUsed")
        /\ UNCHANGED used
  /\ UNCHANGED <<saleVars, ended, faults>>

(* A statement or the commit fails, or the commit's reply is lost. *)
ScanFault(k) ==
  /\ faults < MaxFaults
  /\ faults' = faults + 1
  /\ scan[k].pc \in ScanBusy
  /\ ScanPc(k, "error")
  /\ \/ UNCHANGED used
     \/ /\ scan[k].pc = "claiming"
        /\ Unused(scan[k].ticket)
        /\ CheckIn(scan[k].ticket)
  /\ UNCHANGED <<saleVars, ended>>

ShowtimeEnds ==
  /\ ~ended
  /\ ended' = TRUE
  /\ UNCHANGED <<saleVars, used, scan, faults>>

SaleStep == SaleNext /\ UNCHANGED gateVars

Next ==
  \/ \E k \in Scans :
       \/ \E t \in Pairs : ScanArrives(k, t)
       \/ ScanRead(k) \/ ScanClaim(k) \/ ScanFault(k)
  \/ ShowtimeEnds
  \/ SaleStep

Spec == Init /\ [][Next]_vars

-----------------------------------------------------------------------------
(* Every variable holds a value of its kind. *)
TypeOK ==
  /\ free \subseteq Seats
  /\ order \in [Orders -> [status : {"NONE", "PENDING_PAYMENT", "PAID", "CANCELLED"},
                           seats  : SUBSET Seats]]
  /\ ended \in BOOLEAN
  /\ used \subseteq Pairs
  /\ scan \in [Scans -> [pc     : {"idle"} \cup ScanBusy \cup ScanDone,
                         ticket : Pairs \cup {NoTicket}]]
  /\ faults \in 0..MaxFaults

(* Two people are never admitted to the same seat, be it with one ticket   *)
(* scanned at two turnstiles or with tickets of two bookings for the seat. *)
OneAdmissionPerSeat ==
  \A j, k \in Scans :
    j # k /\ scan[j].pc = "admitted" /\ scan[k].pc = "admitted"
      => scan[j].ticket[2] # scan[k].ticket[2]

(* Whoever was admitted has paid, although the booking was read before the *)
(* ticket was claimed and the payment callbacks run on meanwhile.          *)
AdmittedHasPaid ==
  \A k \in Scans :
    scan[k].pc = "admitted" =>
      /\ Issued(scan[k].ticket)
      /\ order[scan[k].ticket[1]].status = "PAID"

(* Nobody is turned away as "already checked in" unless another call       *)
(* checked that very ticket in, or failed while it did.                    *)
RefusalHasACause ==
  \A k \in Scans :
    scan[k].pc = "alreadyUsed" =>
      \E j \in Scans :
        j # k /\ scan[j].ticket = scan[k].ticket /\ scan[j].pc \in {"admitted", "error"}
=============================================================================
