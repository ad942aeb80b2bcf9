------------------------- MODULE BookingFlowProofs -------------------------
(***************************************************************************)
(* What BookingFlow guarantees for any number of seats, reservations,      *)
(* bookings, callbacks and failures.                                       *)
(***************************************************************************)
EXTENDS BookingFlow, TLAPS

-----------------------------------------------------------------------------
(* Types *)

(* A callback that has arrived names a booking. *)
TargetsKnown ==
  \A k \in Callbacks : cb[k].pc # "idle" => cb[k].target \in Bookings

TypeInv == TypeOK /\ TargetsKnown

LEMMA TypeInit == Init => TypeInv
<1> SUFFICES ASSUME Init PROVE TypeInv
    OBVIOUS
<1>1. LockTypeOK /\ started \in BOOLEAN
  BY DEF Init, LockInit, LockTypeOK
<1>0. faults \in 0..MaxFaults
  BY MaxFaultsAssumption DEF Init
<1>2. /\ seat \in [Seats -> {"AVAILABLE", "SOLD", "BLOCKED"}]
      /\ booking \in [Bookings -> BookingRow]
  BY DEF Init, BookingRow
<1>3. hold \in [Reservations -> HoldRequests]
  BY DEF Init, HoldRequests
<1>4. check \in [Bookings -> CheckoutRequests]
  BY DEF Init, CheckoutRequests
<1>5. cb \in [Callbacks -> CallbackRequests] /\ TargetsKnown
  BY DEF Init, CallbackRequests, TargetsKnown
<1> QED BY <1>0, <1>1, <1>2, <1>3, <1>4, <1>5 DEF TypeInv, TypeOK

LEMMA LockSteps ==
  ASSUME LockTypeOK, NEW s \in Seats
  PROVE  /\ \A r \in Reservations :
              Acquire(s, r) \/ Occupied(s) \/ Release(s, r) => LockTypeOK'
         /\ ForceRelease(s) \/ RunOut(s) => LockTypeOK'
<1>1. ASSUME NEW r \in Reservations, Acquire(s, r) \/ Occupied(s) PROVE LockTypeOK'
  BY <1>1 DEF LockTypeOK, Acquire, Occupied
<1>2. Delete(s) => lock' \in [Seats -> Reservations \cup {NoRes}]
  BY DEF LockTypeOK, Delete
<1>3. ASSUME NEW r \in Reservations, LockEnds(s, r)
      PROVE  gone' \in [Reservations -> SUBSET Seats]
  BY <1>3 DEF LockTypeOK, LockEnds
<1>4. ASSUME NEW r \in Reservations, Release(s, r) PROVE LockTypeOK'
  BY <1>2, <1>3, <1>4 DEF LockTypeOK, Release
<1>5. ForceRelease(s) => LockTypeOK'
  BY <1>2 DEF LockTypeOK, ForceRelease
<1>6. RunOut(s) => LockTypeOK'
  BY <1>2, <1>3 DEF LockTypeOK, RunOut
<1> QED BY <1>1, <1>4, <1>5, <1>6

LEMMA TypeStep == TypeInv /\ [Next]_vars => TypeInv'
<1> SUFFICES ASSUME TypeInv, [Next]_vars PROVE TypeInv'
    OBVIOUS
<1> USE DEF TypeInv, TargetsKnown
<1> DEFINE HoldPart == /\ LockTypeOK
                       /\ hold \in [Reservations -> HoldRequests]
           CheckPart == check \in [Bookings -> CheckoutRequests]
           RowPart == /\ seat \in [Seats -> {"AVAILABLE", "SOLD", "BLOCKED"}]
                      /\ booking \in [Bookings -> BookingRow]
           CbPart == /\ cb \in [Callbacks -> CallbackRequests]
                     /\ TargetsKnown
           RestPart == started \in BOOLEAN /\ faults \in 0..MaxFaults
<1>parts. HoldPart /\ CheckPart /\ RowPart /\ CbPart /\ RestPart
    BY DEF TypeOK
<1>whole. HoldPart' /\ CheckPart' /\ RowPart' /\ CbPart' /\ RestPart' => TypeInv'
    BY DEF TypeOK
<1>fault. Fault => faults' \in 0..MaxFaults
    BY <1>parts, MaxFaultsAssumption DEF Fault
<1>decide. ASSUME NEW b, NEW st \in {"PAID", "CANCELLED"}, DecideBooking(b, st)
           PROVE  booking' \in [Bookings -> BookingRow]
  BY <1>decide, <1>parts DEF DecideBooking, BookingRow
<1>sell. ASSUME NEW S, SellSeats(S)
         PROVE  seat' \in [Seats -> {"AVAILABLE", "SOLD", "BLOCKED"}]
  BY <1>sell, <1>parts DEF SellSeats
<1>1. ASSUME NEW r \in Reservations, NEW want \in SeatSets, HoldRequest(r, want)
      PROVE  TypeInv'
  <2>1. HoldPart'
    BY <1>1, <1>parts DEF HoldRequest, SeatSets, HoldRequests, HoldBusy, HoldDone, LockTypeOK
  <2> QED BY <1>1, <1>parts, <1>whole, <2>1 DEF HoldRequest
<1>2. ASSUME NEW r \in Reservations, NEW s \in Seats, ReleaseSeat(r, s)
      PROVE  TypeInv'
  <2>1. HoldPart'
    BY <1>2, <1>parts, LockSteps DEF ReleaseSeat
  <2> QED BY <1>2, <1>parts, <1>whole, <2>1 DEF ReleaseSeat
<1>3. ASSUME NEW b \in Bookings, NEW r \in Reservations, NEW want \in SeatSets,
             CheckoutRequest(b, r, want)
      PROVE  TypeInv'
  <2>1. CheckPart'
    BY <1>3, <1>parts DEF CheckoutRequest, CheckoutRequests, CheckBusy, CheckDone, SeatSets
  <2>2. HoldPart'
    BY <1>3, <1>parts DEF CheckoutRequest, LockTypeOK
  <2> QED BY <1>3, <1>parts, <1>whole, <2>1, <2>2 DEF CheckoutRequest
<1>4. ASSUME NEW k \in Callbacks, NEW kind \in {"pay", "cancel"}, NEW b \in Bookings,
             CallbackArrives(k, kind, b)
      PROVE  TypeInv'
  <2>1. CbPart'
    BY <1>4, <1>parts DEF CallbackArrives, CallbackRequests, CbBusy
  <2>2. HoldPart'
    BY <1>4, <1>parts DEF CallbackArrives, LockTypeOK
  <2> QED BY <1>4, <1>parts, <1>whole, <2>1, <2>2 DEF CallbackArrives
<1>5. ASSUME NEW r \in Reservations, HoldStep(r)
      PROVE  TypeInv'
  <2>1. CASE HoldReadSeats(r)
    <3>1. HoldPart'
      BY <2>1, <1>parts DEF HoldReadSeats, HoldPc, HoldSet, HoldRequests, HoldBusy, HoldDone, LockTypeOK
    <3> QED BY <2>1, <1>parts, <1>whole, <3>1 DEF HoldReadSeats
  <2>2. ASSUME NEW s \in Seats, HoldAcquire(r, s)
        PROVE  TypeInv'
    <3>1. LockTypeOK'
      BY <2>2, <1>parts, LockSteps DEF HoldAcquire
    <3>2. hold' \in [Reservations -> HoldRequests]
      BY <2>2, <1>parts DEF HoldAcquire, HoldLoses, HoldPc, HoldSet, HoldRequests, HoldBusy, HoldDone
    <3> QED BY <2>2, <1>parts, <1>whole, <3>1, <3>2 DEF HoldAcquire
  <2>3. ASSUME NEW s \in Seats, HoldRollback(r, s)
        PROVE  TypeInv'
    <3>1. LockTypeOK'
      BY <2>3, <1>parts, LockSteps DEF HoldRollback
    <3>2. hold' \in [Reservations -> HoldRequests]
      BY <2>3, <1>parts DEF HoldRollback, HoldSet, HoldRequests, HoldBusy, HoldDone
    <3> QED BY <2>3, <1>parts, <1>whole, <3>1, <3>2 DEF HoldRollback
  <2> QED BY <1>5, <2>1, <2>2, <2>3 DEF HoldStep
<1>6. ASSUME NEW b \in Bookings, CheckoutStep(b)
      PROVE  TypeInv'
  <2>1. CheckPart' /\ RowPart' /\ UNCHANGED <<lock, gone, started, hold, cb, faults>>
    <3>1. ASSUME NEW s \in Seats, CheckoutVerify(b, s)
          PROVE  CheckPart' /\ RowPart' /\ UNCHANGED <<lock, gone, started, hold, cb, faults>>
      BY <3>1, <1>parts DEF CheckoutVerify, CheckPc, CheckSet, CheckoutRequests, CheckBusy, CheckDone
    <3>2. CASE CheckoutReadShowtime(b)
      BY <3>2, <1>parts DEF CheckoutReadShowtime, CheckPc, CheckSet, CheckoutRequests, CheckBusy, CheckDone
    <3>3. CASE CheckoutReadSeats(b)
      BY <3>3, <1>parts DEF CheckoutReadSeats, CheckPc, CheckSet, CheckoutRequests, CheckBusy, CheckDone
    <3>4. CASE CheckoutCommit(b)
      BY <3>4, <1>parts
         DEF CheckoutCommit, CreateBooking, CheckPc, CheckSet, CheckoutRequests, CheckBusy, CheckDone, BookingRow
    <3> QED BY <1>6, <3>1, <3>2, <3>3, <3>4 DEF CheckoutStep
  <2> QED BY <2>1, <1>parts, <1>whole DEF LockTypeOK
<1>7. ASSUME NEW k \in Callbacks, CallbackStep(k)
      PROVE  TypeInv'
  <2>1. CASE PayRead(k) \/ CancelRead(k)
    <3>1. CbPart'
      BY <2>1, <1>parts DEF PayRead, CancelRead, CbPc, CbSet, CallbackRequests, CbBusy, CbDone
    <3>2. UNCHANGED <<lock, gone, started, seat, booking, hold, check, faults>>
      BY <2>1 DEF PayRead, CancelRead
    <3> QED BY <1>parts, <1>whole, <3>1, <3>2 DEF LockTypeOK
  <2>2. CASE PayCommit(k) \/ CancelCommit(k)
    <3>1. cb[k].target \in Bookings
      BY <2>2, <1>parts DEF PayCommit, CancelCommit
    <3>2. SeatsOf(k) \in SUBSET Seats
      BY <3>1, <1>parts DEF SeatsOf, BookingRow
    <3>3. CbPart'
      BY <2>2, <1>parts, <3>2
         DEF PayCommit, PayWins, PayLoses, CancelCommit, CleanUp, CbPc, CbSet, CallbackRequests,
             CbBusy, CbDone
    <3>4. RowPart'
      <4>1. CASE PayCommit(k)
        BY <4>1, <1>parts, <1>decide, <1>sell DEF PayCommit, PayWins, PayLoses
      <4>2. CASE CancelCommit(k)
        BY <4>2, <1>parts, <1>decide DEF CancelCommit
      <4> QED BY <2>2, <4>1, <4>2
    <3>5. UNCHANGED <<lock, gone, started, hold, check, faults>>
      BY <2>2 DEF PayCommit, CancelCommit
    <3> QED BY <1>parts, <1>whole, <3>3, <3>4, <3>5 DEF LockTypeOK
  <2>3. ASSUME NEW s \in Seats, CallbackCleanup(k, s)
        PROVE  TypeInv'
    <3>1. CbPart'
      BY <2>3, <1>parts DEF CallbackCleanup, CbSet, Answer, CallbackRequests, CbBusy, CbDone
    <3>2. LockTypeOK'
      BY <2>3, <1>parts, LockSteps DEF CallbackCleanup
    <3> QED BY <2>3, <1>parts, <1>whole, <3>1, <3>2 DEF CallbackCleanup
  <2> QED BY <1>7, <2>1, <2>2, <2>3 DEF CallbackStep
<1>8. ASSUME NEW r \in Reservations, HoldFault(r)
      PROVE  TypeInv'
  <2>1. hold' \in [Reservations -> HoldRequests]
    BY <1>8, <1>parts DEF HoldFault, HoldLoses, HoldPc, HoldSet, HoldRequests, HoldBusy, HoldDone
  <2>2. LockTypeOK'
    <3>1. hold[r].want \subseteq Seats /\ hold[r].got \subseteq Seats
      BY <1>parts DEF HoldRequests
    <3>2. CASE UNCHANGED <<lock, gone>>
      BY <3>2, <1>parts DEF LockTypeOK
    <3>3. ASSUME NEW s \in Seats, Acquire(s, r) \/ Release(s, r) PROVE LockTypeOK'
      BY <3>3, <1>parts, LockSteps
    <3> QED BY <1>8, <3>1, <3>2, <3>3 DEF HoldFault
  <2> QED BY <1>8, <1>parts, <1>whole, <1>fault, <2>1, <2>2 DEF HoldFault
<1>9. ASSUME NEW b \in Bookings, CheckoutFault(b)
      PROVE  TypeInv'
  <2>1. CheckPart' /\ RowPart'
    BY <1>9, <1>parts
       DEF CheckoutFault, CreateBooking, CheckPc, CheckSet, CheckoutRequests, CheckBusy, CheckDone, BookingRow
  <2> QED BY <1>9, <1>parts, <1>whole, <1>fault, <2>1 DEF CheckoutFault, LockTypeOK
<1>10. ASSUME NEW k \in Callbacks, CommitFault(k) \/ CleanupFault(k)
       PROVE  TypeInv'
  <2>1. CbPart'
    BY <1>10, <1>parts
       DEF CommitFault, CleanupFault, CbPc, CbSet, Answer, CallbackRequests, CbBusy, CbDone
  <2>2. RowPart'
    BY <1>10, <1>parts, <1>decide, <1>sell DEF CommitFault, CleanupFault
  <2>3. LockTypeOK'
    <3>1. CASE UNCHANGED <<lock, gone>>
      BY <3>1, <1>parts DEF LockTypeOK
    <3>2. ASSUME NEW s \in cb[k].todo, ForceRelease(s) PROVE LockTypeOK'
      BY <3>2, <1>parts, LockSteps DEF CallbackRequests
    <3> QED BY <1>10, <3>1, <3>2 DEF CommitFault, CleanupFault
  <2> QED BY <1>10, <1>parts, <1>whole, <1>fault, <2>1, <2>2, <2>3 DEF CommitFault, CleanupFault
<1>11. CASE Crash
  <2>1. hold' \in [Reservations -> HoldRequests]
    BY <1>11, <1>parts DEF Crash, HoldRequests, HoldDone
  <2>2. CheckPart'
    <3>1. ASSUME NEW b \in Bookings
          PROVE  [check[b] EXCEPT !.pc = "lost"] \in CheckoutRequests
      BY <1>parts DEF CheckoutRequests, CheckDone
    <3> QED BY <1>11, <1>parts, <3>1 DEF Crash
  <2>3. CbPart'
    <3>1. ASSUME NEW k \in Callbacks
          PROVE  [cb[k] EXCEPT !.pc = "lost"] \in CallbackRequests
      BY <1>parts DEF CallbackRequests, CbDone
    <3>2. cb' = [k \in Callbacks |->
                   IF cb[k].pc \in CbBusy THEN [cb[k] EXCEPT !.pc = "lost"] ELSE cb[k]]
      BY <1>11 DEF Crash
    <3>3. cb' \in [Callbacks -> CallbackRequests]
      BY <1>parts, <3>1, <3>2
    <3>4. \A k \in Callbacks :
             /\ cb'[k].pc # "idle" => cb[k].pc # "idle"
             /\ cb'[k].target = cb[k].target
      BY <1>parts, <3>2 DEF CallbackRequests, CbBusy
    <3> QED BY <1>parts, <3>3, <3>4
  <2> QED BY <1>11, <1>parts, <1>whole, <1>fault, <2>1, <2>2, <2>3 DEF Crash, LockTypeOK
<1>12. ASSUME NEW s \in Seats, LockExpires(s)
       PROVE  TypeInv'
  <2>1. LockTypeOK'
    BY <1>12, <1>parts, LockSteps DEF LockExpires
  <2> QED BY <1>12, <1>parts, <1>whole, <2>1 DEF LockExpires
<1>13. CASE ShowtimeStarts
  BY <1>13, <1>parts, <1>whole DEF ShowtimeStarts, LockTypeOK
<1>14. CASE UNCHANGED vars
  BY <1>14, <1>parts, <1>whole DEF vars, LockTypeOK
<1> QED
  BY <1>1, <1>2, <1>3, <1>4, <1>5, <1>6, <1>7, <1>8, <1>9, <1>10, <1>11, <1>12, <1>13, <1>14
     DEF Next, Arrivals, Failures

(* Every variable keeps to its kind, in every behaviour of the             *)
(* specification: the services of BookingFlow never store anything else.   *)
THEOREM TypeCorrect == Spec => []TypeOK
<1>1. Spec => []TypeInv
  BY TypeInit, TypeStep, PTL DEF Spec
<1>2. TypeInv => TypeOK
  BY DEF TypeInv
<1> QED BY <1>1, <1>2, PTL

-----------------------------------------------------------------------------
(* Rows *)

(* A checkout request that has not ended has not created its booking yet,  *)
(* and it was made for some seats.                                         *)
NoRowYet ==
  \A b \in Bookings :
    check[b].pc \in {"idle"} \cup CheckBusy => booking[b].status = "NONE"

SeatsWanted ==
  \A b \in Bookings : check[b].pc \in CheckBusy => check[b].want # {}

(* The three ways in which the tables bookings and showtime_seats change.  *)
Creates(b) ==
  /\ check[b].pc = "creating"
  /\ CreateBooking(b)
  /\ check'[b].pc \in CheckDone
  /\ UNCHANGED seat

Sells(b) ==
  /\ booking[b].status = "PENDING_PAYMENT"
  /\ Finalizable(booking[b].seats)
  /\ DecideBooking(b, "PAID")
  /\ SellSeats(booking[b].seats)

Cancels(b) ==
  /\ booking[b].status = "PENDING_PAYMENT"
  /\ DecideBooking(b, "CANCELLED")
  /\ UNCHANGED seat

LEMMA RowSteps ==
  ASSUME TypeInv, [Next]_vars
  PROVE  \/ UNCHANGED <<booking, seat>>
         \/ \E b \in Bookings : Creates(b) \/ Sells(b) \/ Cancels(b)
<1> DEFINE Goal == \/ UNCHANGED <<booking, seat>>
                   \/ \E b \in Bookings : Creates(b) \/ Sells(b) \/ Cancels(b)
<1>1. CASE Arrivals
  BY <1>1 DEF Arrivals, HoldRequest, ReleaseSeat, CheckoutRequest, CallbackArrives
<1>2. ASSUME NEW r \in Reservations, HoldStep(r) \/ HoldFault(r) PROVE Goal
  BY <1>2 DEF HoldStep, HoldReadSeats, HoldAcquire, HoldRollback, HoldFault
<1>3. ASSUME NEW b \in Bookings, CheckoutStep(b) \/ CheckoutFault(b) PROVE Goal
  BY <1>3 DEF CheckoutStep, CheckoutVerify, CheckoutReadShowtime, CheckoutReadSeats,
              CheckoutCommit, CheckoutFault, CheckPc, CheckSet, CheckDone, Creates,
              TypeInv, TypeOK, CheckoutRequests
<1>4. ASSUME NEW k \in Callbacks, CallbackStep(k) \/ CommitFault(k) \/ CleanupFault(k)
      PROVE  Goal
  <2>1. CASE PayCommit(k) \/ CancelCommit(k) \/ CommitFault(k)
    <3>1. cb[k].pc # "idle"
      BY <2>1 DEF PayCommit, CancelCommit, CommitFault
    <3>2. cb[k].target \in Bookings
      BY <3>1 DEF TypeInv, TargetsKnown
    <3> QED
      BY <2>1, <3>2 DEF PayCommit, PayWins, PayLoses, CancelCommit, CommitFault,
            Cancellable, Sells, Cancels, StatusOf, SeatsOf
  <2>2. CASE PayRead(k) \/ CancelRead(k) \/ CleanupFault(k)
    BY <2>2 DEF PayRead, CancelRead, CleanupFault
  <2>3. ASSUME NEW s \in Seats, CallbackCleanup(k, s) PROVE Goal
    BY <2>3 DEF CallbackCleanup
  <2> QED BY <1>4, <2>1, <2>2, <2>3 DEF CallbackStep
<1>5. CASE Crash \/ ShowtimeStarts \/ UNCHANGED vars
  BY <1>5 DEF Crash, ShowtimeStarts, vars
<1>6. ASSUME NEW s \in Seats, LockExpires(s) PROVE Goal
  BY <1>6 DEF LockExpires
<1> QED BY <1>1, <1>2, <1>3, <1>4, <1>5, <1>6 DEF Next, Failures

(* A request that is still open was open before, for the same seats.       *)
LEMMA CheckSteps ==
  ASSUME TypeInv, [Next]_vars, NEW b \in Bookings,
         check'[b].pc \in {"idle"} \cup CheckBusy
  PROVE  /\ check[b].pc \in {"idle"} \cup CheckBusy
         /\ check[b].pc \in CheckBusy => check'[b].want = check[b].want
         /\ check[b].pc = "idle" /\ check'[b].pc # "idle" => check'[b].want # {}
<1> DEFINE Goal == /\ check[b].pc \in {"idle"} \cup CheckBusy
                   /\ check[b].pc \in CheckBusy => check'[b].want = check[b].want
                   /\ check[b].pc = "idle" /\ check'[b].pc # "idle" => check'[b].want # {}
<1> USE DEF CheckBusy
<1>0. check \in [Bookings -> CheckoutRequests]
  BY DEF TypeInv, TypeOK
<1>1. CASE UNCHANGED check
  BY <1>1
<1>2. ASSUME NEW c \in Bookings, NEW r \in Reservations, NEW want \in SeatSets,
             CheckoutRequest(c, r, want)
      PROVE  Goal
  BY <1>2, <1>0 DEF CheckoutRequest, SeatSets, CheckoutRequests, CheckDone
<1>3. ASSUME NEW c \in Bookings, CheckoutStep(c) \/ CheckoutFault(c)
      PROVE  Goal
  BY <1>3, <1>0 DEF CheckoutStep, CheckoutVerify, CheckoutReadShowtime, CheckoutReadSeats,
        CheckoutCommit, CheckoutFault, CheckPc, CheckSet, CheckoutRequests, CheckDone
<1>4. CASE Crash
  BY <1>4, <1>0 DEF Crash, CheckoutRequests, CheckDone
<1>5. ASSUME NEW r \in Reservations, HoldStep(r) \/ HoldFault(r)
      PROVE  UNCHANGED check
  BY <1>5 DEF HoldStep, HoldReadSeats, HoldAcquire, HoldRollback, HoldFault
<1>6. ASSUME NEW k \in Callbacks, CallbackStep(k) \/ CommitFault(k) \/ CleanupFault(k)
      PROVE  UNCHANGED check
  BY <1>6 DEF CallbackStep, PayRead, PayCommit, CancelRead, CancelCommit, CallbackCleanup,
              CommitFault, CleanupFault
<1>7. CASE ShowtimeStarts \/ UNCHANGED vars \/ \E s \in Seats : LockExpires(s)
  BY <1>7, <1>1 DEF ShowtimeStarts, vars, LockExpires
<1>8. CASE Arrivals
  BY <1>8, <1>1, <1>2 DEF Arrivals, HoldRequest, ReleaseSeat, CallbackArrives
<1> QED BY <1>1, <1>2, <1>3, <1>4, <1>5, <1>6, <1>7, <1>8 DEF Next, Failures

-----------------------------------------------------------------------------
(* No double sale *)

(* NoDoubleSale alone is not inductive: that a payment only finds AVAILABLE *)
(* seats says nothing about other bookings unless SOLD and PAID go          *)
(* together, and that in turn would break if a checkout could overwrite the *)
(* row of a PAID booking.                                                   *)
SaleInv ==
  /\ TypeInv
  /\ NoRowYet
  /\ SeatsWanted
  /\ SoldIffPaid
  /\ NoDoubleSale

LEMMA SaleInit == Init => SaleInv
<1> SUFFICES ASSUME Init PROVE SaleInv
    OBVIOUS
<1>1. TypeInv
  BY TypeInit
<1>2. NoRowYet /\ SeatsWanted
  BY DEF Init, NoRowYet, SeatsWanted, CheckBusy
<1>3. SoldIffPaid /\ NoDoubleSale
  BY DEF Init, SoldIffPaid, NoDoubleSale
<1> QED BY <1>1, <1>2, <1>3 DEF SaleInv

LEMMA SaleStep == SaleInv /\ [Next]_vars => SaleInv'
<1> SUFFICES ASSUME SaleInv, [Next]_vars PROVE SaleInv'
    OBVIOUS
<1>1. TypeInv /\ TypeInv'
  BY TypeStep DEF SaleInv
<1>2. /\ seat \in [Seats -> {"AVAILABLE", "SOLD", "BLOCKED"}]
      /\ booking \in [Bookings -> BookingRow]
      /\ check \in [Bookings -> CheckoutRequests]
  BY <1>1 DEF TypeInv, TypeOK
<1>3. SeatsWanted'
  BY <1>1, CheckSteps DEF SaleInv, SeatsWanted, CheckBusy
<1>4. \/ UNCHANGED <<booking, seat>>
      \/ \E b \in Bookings : Creates(b) \/ Sells(b) \/ Cancels(b)
  BY <1>1, RowSteps
<1>5. NoRowYet'
  <2> SUFFICES ASSUME NEW b \in Bookings, check'[b].pc \in {"idle"} \cup CheckBusy
               PROVE  booking'[b].status = "NONE"
    BY DEF NoRowYet
  <2>1. booking[b].status = "NONE"
    BY <1>1, CheckSteps DEF SaleInv, NoRowYet
  <2>2. ASSUME NEW c \in Bookings, Creates(c) PROVE c # b
    BY <2>2 DEF Creates, CheckDone, CheckBusy
  <2> QED BY <1>2, <1>4, <2>1, <2>2
          DEF Creates, Sells, Cancels, CreateBooking, DecideBooking
<1>6. SoldIffPaid' /\ NoDoubleSale'
  <2>1. CASE UNCHANGED <<booking, seat>>
    BY <2>1 DEF SaleInv, SoldIffPaid, NoDoubleSale
  <2>2. ASSUME NEW b \in Bookings, Creates(b) PROVE SoldIffPaid' /\ NoDoubleSale'
    <3>1. booking[b].status = "NONE"
      BY <2>2 DEF Creates, SaleInv, NoRowYet, CheckBusy
    <3>2. booking'[b].status = "PENDING_PAYMENT" /\ seat' = seat
      BY <2>2, <1>2 DEF Creates, CreateBooking
    <3>3. \A c \in Bookings : c # b => booking'[c] = booking[c]
      BY <2>2, <1>2 DEF Creates, CreateBooking
    <3> QED BY <3>1, <3>2, <3>3 DEF SaleInv, SoldIffPaid, NoDoubleSale
  <2>3. ASSUME NEW b \in Bookings, Cancels(b) PROVE SoldIffPaid' /\ NoDoubleSale'
    <3>1. booking[b].status = "PENDING_PAYMENT" /\ seat' = seat
      BY <2>3 DEF Cancels
    <3>2. booking'[b].status = "CANCELLED"
      BY <2>3, <1>2 DEF Cancels, DecideBooking, BookingRow
    <3>3. \A c \in Bookings : c # b => booking'[c] = booking[c]
      BY <2>3, <1>2 DEF Cancels, DecideBooking
    <3> QED BY <3>1, <3>2, <3>3 DEF SaleInv, SoldIffPaid, NoDoubleSale
  <2>4. ASSUME NEW b \in Bookings, Sells(b) PROVE SoldIffPaid' /\ NoDoubleSale'
    <3>1. /\ booking[b].status = "PENDING_PAYMENT"
          /\ \A s \in booking[b].seats : seat[s] = "AVAILABLE"
      BY <2>4 DEF Sells, Finalizable
    <3>2. booking'[b].status = "PAID" /\ booking'[b].seats = booking[b].seats
      BY <2>4, <1>2 DEF Sells, DecideBooking, BookingRow
    <3>3. \A c \in Bookings : c # b => booking'[c] = booking[c]
      BY <2>4, <1>2 DEF Sells, DecideBooking
    <3>4. \A s \in Seats : seat'[s] = IF s \in booking[b].seats THEN "SOLD" ELSE seat[s]
      BY <2>4 DEF Sells, SellSeats
    <3>5. booking[b].seats \subseteq Seats
      BY <1>2 DEF BookingRow
    <3>6. SoldIffPaid'
      BY <3>1, <3>2, <3>3, <3>4 DEF SaleInv, SoldIffPaid
    <3>7. ASSUME NEW c \in Bookings, c # b, booking[c].status = "PAID"
          PROVE  booking[c].seats \cap booking[b].seats = {}
      BY <3>1, <3>5, <3>7 DEF SaleInv, SoldIffPaid
    <3>8. NoDoubleSale'
      BY <3>1, <3>2, <3>3, <3>7 DEF SaleInv, NoDoubleSale
    <3> QED BY <3>6, <3>8
  <2> QED BY <1>4, <2>1, <2>2, <2>3, <2>4
<1> QED BY <1>1, <1>3, <1>5, <1>6 DEF SaleInv

LEMMA SaleAlways == Spec => []SaleInv
  BY SaleInit, SaleStep, PTL DEF Spec

(* No seat is ever part of two PAID bookings, for any number of concurrent *)
(* holds, checkouts, payment and cancel callbacks, expiries and failures.  *)
THEOREM NeverSoldTwice == Spec => []NoDoubleSale
<1>1. SaleInv => NoDoubleSale
  BY DEF SaleInv
<1> QED BY <1>1, SaleAlways, PTL

(* showtime_seats and bookings agree in every reachable state: a seat is   *)
(* SOLD exactly when a PAID booking has it.                                *)
THEOREM TablesAgree == Spec => []SoldIffPaid
<1>1. SaleInv => SoldIffPaid
  BY DEF SaleInv
<1> QED BY <1>1, SaleAlways, PTL

-----------------------------------------------------------------------------
(* Refinement *)

LEMMA SaleStepRefined ==
  ASSUME SaleInv, [Next]_vars
  PROVE  [Sale!SaleNext]_(Sale!saleVars)
<1> DEFINE avail == {s \in Seats : seat[s] = "AVAILABLE"}
<1>1. /\ seat \in [Seats -> {"AVAILABLE", "SOLD", "BLOCKED"}]
      /\ booking \in [Bookings -> BookingRow]
      /\ check \in [Bookings -> CheckoutRequests]
  BY DEF SaleInv, TypeInv, TypeOK
<1>2. CASE UNCHANGED <<booking, seat>>
  BY <1>2 DEF Sale!saleVars
<1>3. ASSUME NEW b \in Bookings, Creates(b) PROVE Sale!SaleNext
  <2>1. booking[b].status = "NONE" /\ check[b].want \in (SUBSET Seats) \ {{}}
    BY <1>1, <1>3 DEF Creates, SaleInv, NoRowYet, SeatsWanted, CheckBusy, CheckoutRequests
  <2>2. Sale!Open(b, check[b].want)
    BY <1>3, <2>1 DEF Creates, CreateBooking, Sale!Open
  <2> QED BY <2>1, <2>2 DEF Sale!SaleNext
<1>4. ASSUME NEW b \in Bookings, Cancels(b) PROVE Sale!SaleNext
  <2>1. Sale!Cancel(b)
    BY <1>4 DEF Cancels, DecideBooking, Sale!Cancel
  <2> QED BY <2>1 DEF Sale!SaleNext
<1>5. ASSUME NEW b \in Bookings, Sells(b) PROVE Sale!SaleNext
  <2>1. booking[b].seats \subseteq Seats
    BY <1>1 DEF BookingRow
  <2>2. booking[b].seats \subseteq avail
    BY <1>5, <2>1 DEF Sells, Finalizable
  <2>3. avail' = avail \ booking[b].seats
    BY <1>5 DEF Sells, SellSeats
  <2>4. Sale!Sell(b)
    BY <1>5, <2>2, <2>3 DEF Sells, DecideBooking, Sale!Sell
  <2> QED BY <2>4 DEF Sale!SaleNext
<1>6. TypeInv
  BY DEF SaleInv
<1> QED BY <1>2, <1>3, <1>4, <1>5, <1>6, RowSteps

(* Every behaviour of the booking flow, failures included, is a plain sale *)
(* of seats: orders are sold as a whole, once, to one customer, or         *)
(* cancelled for good.                                                     *)
THEOREM FlowImplementsSale == Spec => RefinesSeatSale
<1>1. Init => Sale!SaleInit
  BY DEF Init, Sale!SaleInit
<1>2. SaleInv /\ [Next]_vars => [Sale!SaleNext]_(Sale!saleVars)
  BY SaleStepRefined
<1> QED BY <1>1, <1>2, SaleAlways, PTL DEF Spec, RefinesSeatSale, Sale!SaleSpec

-----------------------------------------------------------------------------
(* What callbacks were told *)

(* A decided booking stays as it is. *)
LEMMA DecidedIsFinal ==
  ASSUME SaleInv, [Next]_vars, NEW b \in Bookings,
         booking[b].status \in {"PAID", "CANCELLED"}
  PROVE  booking'[b] = booking[b]
<1>1. booking \in [Bookings -> BookingRow]
  BY DEF SaleInv, TypeInv, TypeOK
<1>2. TypeInv
  BY DEF SaleInv
<1>3. \A c \in Bookings : Creates(c) => booking[c].status = "NONE"
  BY DEF Creates, SaleInv, NoRowYet, CheckBusy
<1> QED BY <1>1, <1>2, <1>3, RowSteps
        DEF Creates, Sells, Cancels, CreateBooking, DecideBooking

(* Why each answer is right for ever.  A refused payment stays refused     *)
(* because its booking is cancelled, or because one of its seats is gone   *)
(* and no step makes a seat AVAILABLE again.                               *)
AnswerRight(k) ==
  LET status == StatusOf(k) IN
  /\ cb[k].pc # "idle" => status # "NONE"
  /\ cb[k].kind = "pay" /\ cb[k].pc \in {"cleaning", "paid"} => status = "PAID"
  /\ cb[k].kind = "cancel" /\ cb[k].pc = "cleaning" => status = "CANCELLED"
  /\ cb[k].pc = "alreadyPaid" => status = "PAID"
  /\ cb[k].pc = "cancelled" => status \in {"PAID", "CANCELLED"}
  /\ cb[k].pc = "conflict" =>
       \/ status = "CANCELLED"
       \/ status = "PENDING_PAYMENT" /\ ~Finalizable(SeatsOf(k))

AnswerInv == SaleInv /\ \A k \in Callbacks : AnswerRight(k)

(* A step leaves a callback alone unless it is a step of that callback.    *)
LEMMA CallbackLocal ==
  ASSUME TypeInv, [Next]_vars, NEW k \in Callbacks
  PROVE  \/ cb'[k] = cb[k]
         \/ \E kind \in {"pay", "cancel"}, b \in Bookings : CallbackArrives(k, kind, b)
         \/ CallbackStep(k) \/ CommitFault(k) \/ CleanupFault(k)
         \/ cb'[k].pc = "lost" /\ UNCHANGED booking /\ cb'[k].target = cb[k].target
              /\ cb[k].pc # "idle"
<1> DEFINE Goal ==
         \/ cb'[k] = cb[k]
         \/ \E kind \in {"pay", "cancel"}, b \in Bookings : CallbackArrives(k, kind, b)
         \/ CallbackStep(k) \/ CommitFault(k) \/ CleanupFault(k)
         \/ cb'[k].pc = "lost" /\ UNCHANGED booking /\ cb'[k].target = cb[k].target
              /\ cb[k].pc # "idle"
<1>0. cb \in [Callbacks -> CallbackRequests]
  BY DEF TypeInv, TypeOK
<1>1. CASE UNCHANGED cb
  BY <1>1
<1>2. ASSUME NEW j \in Callbacks, NEW kind \in {"pay", "cancel"}, NEW b \in Bookings,
             CallbackArrives(j, kind, b)
      PROVE  Goal
  <2>1. CASE j = k
    BY <1>2, <2>1
  <2>2. CASE j # k
    BY <1>0, <1>2, <2>2 DEF CallbackArrives
  <2> QED BY <2>1, <2>2
<1>3. ASSUME NEW j \in Callbacks, CallbackStep(j) \/ CommitFault(j) \/ CleanupFault(j)
      PROVE  Goal
  <2>1. CASE j = k
    BY <1>3, <2>1
  <2>2. CASE j # k
    BY <1>0, <1>3, <2>2 DEF CallbackStep, PayRead, PayCommit, PayWins, PayLoses, CancelRead,
       CancelCommit, CallbackCleanup, CommitFault, CleanupFault, CleanUp, CbPc, CbSet
  <2> QED BY <2>1, <2>2
<1>4. CASE Crash
  BY <1>0, <1>4 DEF Crash, CbBusy, CallbackRequests, CbDone
<1>5. ASSUME NEW r \in Reservations, HoldStep(r) \/ HoldFault(r)
      PROVE  UNCHANGED cb
  BY <1>5 DEF HoldStep, HoldReadSeats, HoldAcquire, HoldRollback, HoldFault
<1>6. ASSUME NEW b \in Bookings, CheckoutStep(b) \/ CheckoutFault(b)
      PROVE  UNCHANGED cb
  BY <1>6 DEF CheckoutStep, CheckoutVerify, CheckoutReadShowtime, CheckoutReadSeats,
        CheckoutCommit, CheckoutFault
<1>7. CASE ShowtimeStarts \/ UNCHANGED vars \/ \E s \in Seats : LockExpires(s)
  BY <1>7, <1>1 DEF ShowtimeStarts, vars, LockExpires
<1>8. CASE Arrivals
  BY <1>8, <1>1, <1>2 DEF Arrivals, HoldRequest, ReleaseSeat, CheckoutRequest
<1> QED BY <1>1, <1>2, <1>3, <1>4, <1>5, <1>6, <1>7, <1>8 DEF Next, Failures

(* Seats that cannot be finalised any more never can be again. *)
LEMMA GoneIsGone ==
  ASSUME SaleInv, [Next]_vars, NEW S \in SUBSET Seats, ~Finalizable(S)
  PROVE  ~Finalizable(S)'
<1>1. seat \in [Seats -> {"AVAILABLE", "SOLD", "BLOCKED"}] /\ TypeInv
  BY DEF SaleInv, TypeInv, TypeOK
<1>2. \A s \in Seats : seat[s] # "AVAILABLE" => seat'[s] # "AVAILABLE"
  BY <1>1, RowSteps DEF Creates, Sells, Cancels, SellSeats
<1> QED BY <1>2 DEF Finalizable

LEMMA AnswerStep == AnswerInv /\ [Next]_vars => AnswerInv'
<1> SUFFICES ASSUME AnswerInv, [Next]_vars PROVE AnswerInv'
    OBVIOUS
<1>1. SaleInv /\ SaleInv' /\ TypeInv
  BY SaleStep DEF AnswerInv, SaleInv
<1>2. /\ booking \in [Bookings -> BookingRow]
      /\ cb \in [Callbacks -> CallbackRequests]
      /\ TargetsKnown
  BY <1>1 DEF TypeInv, TypeOK
<1>3. ASSUME NEW k \in Callbacks PROVE AnswerRight(k)'
  <2>0. AnswerRight(k)
    BY DEF AnswerInv
  <2>1. CASE cb'[k] = cb[k] /\ cb[k].pc = "idle"
    BY <2>1 DEF AnswerRight
  <2>2. CASE cb'[k] = cb[k] /\ cb[k].pc # "idle"
    <3>1. cb[k].target \in Bookings /\ StatusOf(k) # "NONE"
      BY <1>2, <2>0, <2>2 DEF TargetsKnown, AnswerRight
    <3>2. StatusOf(k) \in {"PAID", "CANCELLED"} => StatusOf(k)' = StatusOf(k)
      BY <1>1, <2>2, <3>1, DecidedIsFinal DEF StatusOf
    <3>3. CASE StatusOf(k) \in {"PAID", "CANCELLED"}
      <4>1. StatusOf(k)' = StatusOf(k)
        BY <3>2, <3>3
      <4>2. CASE StatusOf(k) = "PAID"
        BY <2>0, <2>2, <4>1, <4>2 DEF AnswerRight
      <4>3. CASE StatusOf(k) = "CANCELLED"
        BY <2>0, <2>2, <4>1, <4>3 DEF AnswerRight
      <4> QED BY <3>3, <4>2, <4>3
    <3>4. CASE StatusOf(k) = "PENDING_PAYMENT"
      <4>1. booking'[cb[k].target].seats = booking[cb[k].target].seats
        BY <1>1, <1>2, <3>1, <3>4, RowSteps
           DEF StatusOf, Creates, Sells, Cancels, CreateBooking, DecideBooking, SaleInv,
               NoRowYet, CheckBusy, BookingRow
      <4>2. SeatsOf(k) \in SUBSET Seats /\ SeatsOf(k)' = SeatsOf(k)
        BY <1>2, <2>2, <3>1, <4>1 DEF SeatsOf, BookingRow
      <4>3. StatusOf(k)' \in {"PENDING_PAYMENT", "PAID", "CANCELLED"}
        BY <1>1, <1>2, <2>2, <3>1, <3>4, RowSteps
           DEF StatusOf, Creates, Sells, Cancels, CreateBooking, DecideBooking, SaleInv,
               NoRowYet, CheckBusy, BookingRow
      <4>4. cb[k].pc = "conflict" => ~Finalizable(SeatsOf(k))' /\ StatusOf(k)' # "PAID"
        <5>1. HAVE cb[k].pc = "conflict"
        <5>2. ~Finalizable(SeatsOf(k))
          BY <2>0, <3>4, <5>1 DEF AnswerRight
        <5>3. ~Finalizable(SeatsOf(k))'
          BY <1>1, <4>2, <5>2, GoneIsGone
        <5>4. \A b \in Bookings : Sells(b) => b # cb[k].target
          BY <5>2 DEF Sells, SeatsOf
        <5>5. StatusOf(k)' # "PAID"
          BY <1>1, <1>2, <2>2, <3>1, <3>4, <5>4, RowSteps
             DEF StatusOf, Creates, Sells, Cancels, CreateBooking, DecideBooking, SaleInv,
                 NoRowYet, CheckBusy, BookingRow
        <5> QED BY <5>3, <5>5
      <4> QED BY <2>0, <2>2, <3>4, <4>3, <4>4 DEF AnswerRight
    <3> QED BY <1>2, <3>1, <3>3, <3>4 DEF StatusOf, BookingRow
  <2>3. ASSUME NEW kind \in {"pay", "cancel"}, NEW b \in Bookings,
               CallbackArrives(k, kind, b)
        PROVE  AnswerRight(k)'
    BY <1>2, <2>3 DEF CallbackArrives, AnswerRight, StatusOf
  <2>4. CASE PayRead(k) \/ CancelRead(k)
    BY <1>2, <2>0, <2>4 DEF PayRead, CancelRead, CbPc, CbSet, AnswerRight, StatusOf
  <2>5. CASE PayCommit(k)
    <3>1. cb[k].target \in Bookings /\ cb[k].kind = "pay"
      BY <1>2, <2>5 DEF PayCommit, TargetsKnown
    <3>2. CASE StatusOf(k) = "PENDING_PAYMENT" /\ PayWins(k)
      BY <1>2, <3>1, <3>2
         DEF PayWins, DecideBooking, CleanUp, CbPc, CbSet, AnswerRight, StatusOf, SeatsOf,
             Finalizable, BookingRow
    <3>3. CASE StatusOf(k) # "PENDING_PAYMENT" /\ PayLoses(k)
      <4>1. StatusOf(k) \in {"PAID", "CANCELLED"}
        BY <1>2, <2>0, <2>5, <3>1, <3>3 DEF PayCommit, AnswerRight, StatusOf, BookingRow
      <4>2. StatusOf(k)' = StatusOf(k) /\ cb'[k].kind = "pay"
        BY <1>2, <3>1, <3>3 DEF PayLoses, CleanUp, CbPc, CbSet, StatusOf
      <4>3. CASE StatusOf(k) = "PAID"
        <5>1. cb'[k].pc = "cleaning"
          BY <1>2, <3>3, <4>3 DEF PayLoses, CleanUp, CbSet
        <5> QED BY <4>2, <4>3, <5>1 DEF AnswerRight
      <4>4. CASE StatusOf(k) = "CANCELLED"
        <5>1. cb'[k].pc = "conflict"
          BY <1>2, <3>3, <4>4 DEF PayLoses, CbPc, CbSet
        <5> QED BY <4>2, <4>4, <5>1 DEF AnswerRight
      <4> QED BY <4>1, <4>3, <4>4
    <3> QED BY <2>5, <3>2, <3>3 DEF PayCommit
  <2>6. CASE CancelCommit(k)
    <3>1. cb[k].target \in Bookings /\ cb[k].kind = "cancel" /\ StatusOf(k) # "NONE"
      BY <1>2, <2>0, <2>6 DEF CancelCommit, TargetsKnown, AnswerRight
    <3> QED BY <1>2, <2>6, <3>1
            DEF CancelCommit, Cancellable, DecideBooking, CleanUp, CbPc, CbSet, AnswerRight,
                StatusOf, SeatsOf, BookingRow
  <2>7. CASE CleanupFault(k) \/ \E s \in Seats : CallbackCleanup(k, s)
    BY <1>2, <2>0, <2>7
       DEF CleanupFault, CallbackCleanup, Answer, CbPc, CbSet, AnswerRight, StatusOf,
           CallbackRequests
  <2>8. CASE CommitFault(k)
    <3>1. cb[k].target \in Bookings /\ StatusOf(k) # "NONE"
      BY <1>2, <2>0, <2>8 DEF CommitFault, TargetsKnown, AnswerRight
    <3> QED BY <1>2, <2>8, <3>1
            DEF CommitFault, DecideBooking, CbPc, CbSet, AnswerRight, StatusOf, BookingRow
  <2>9. CASE cb'[k].pc = "lost" /\ UNCHANGED booking /\ cb'[k].target = cb[k].target
               /\ cb[k].pc # "idle"
    BY <2>0, <2>9 DEF AnswerRight, StatusOf
  <2> QED
    BY <1>1, <2>1, <2>2, <2>3, <2>4, <2>5, <2>6, <2>7, <2>8, <2>9, CallbackLocal
       DEF CallbackStep
<1> QED BY <1>1, <1>3 DEF AnswerInv

LEMMA AnswerAlways == Spec => []AnswerInv
<1>1. Init => AnswerInv
  BY SaleInit DEF Init, AnswerInv, AnswerRight
<1> QED BY <1>1, AnswerStep, PTL DEF Spec

(* Whatever a callback was answered about a payment or a cancellation      *)
(* stays true, and its post-commit loop only runs for a decided booking.   *)
THEOREM AnswersStayTrue == Spec => []PaidAnswersStayTrue
<1>1. AnswerInv => PaidAnswersStayTrue
  BY DEF AnswerInv, AnswerRight, PaidAnswersStayTrue, StatusOf
<1> QED BY <1>1, AnswerAlways, PTL

(* A payment that was refused with a conflict never turns PAID later.      *)
THEOREM RefusedForGood == Spec => []ConflictIsFinal
<1>1. AnswerInv => ConflictIsFinal
  BY DEF AnswerInv, AnswerRight, ConflictIsFinal, StatusOf
<1> QED BY <1>1, AnswerAlways, PTL
=============================================================================
