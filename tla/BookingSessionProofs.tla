------------------------- MODULE BookingSessionProofs -------------------------
(***************************************************************************)
(* What a customer's browser gets right, for any number of seats, holds,   *)
(* checkouts and callbacks with answers in any order: what it confirms is  *)
(* paid, it checks out what it held, and the prices that it shows are the  *)
(* ones that are charged.                                                  *)
(***************************************************************************)
EXTENDS BookingSession, Pricing, TLAPS

-----------------------------------------------------------------------------
(* The browser and its requests *)

(* A callback that was sent knows its order; an order that was not served  *)
(* yet has no status.                                                      *)
RequestsKnown ==
  /\ \A k \in Calls : call[k].pc \notin {"idle", "done"} => call[k].of \in Orders
  /\ \A c \in Orders : order[c].pc \in {"idle", "sent"} => order[c].status = "NONE"

(* The way to the page of success: an answer that leads there, and the     *)
(* page itself, are about an order that is paid.                           *)
SuccessIsPaid ==
  /\ \A k \in Calls : call[k].pc = "ok" /\ call[k].success => order[call[k].of].status = "PAID"
  /\ page = "success" => order[at].status = "PAID"

(* Of a hold h during which nothing was clicked, the store has the seats   *)
(* or has been emptied.                                                    *)
Kept(h) == selected \in {{}, hold[h].seats}

(* The way from a hold to a checkout: the selection of a hold that is      *)
(* under way, then of the reservation, is that hold's until it is clicked  *)
(* on or emptied; once the seats can be clicked there is no reservation.   *)
StoreFollowsHold ==
  /\ \A h \in Asking \ edited : Kept(h)
  /\ reservation \in Holds => hold[reservation].pc = "done" /\ loading
  /\ reservation \in Holds \ edited => Kept(reservation)
  /\ \A c \in Orders : order[c].res \in Holds => hold[order[c].res].pc = "done"

PlaceTypes ==
  /\ page \in Pages /\ at \in Orders \cup {NoOrder}
  /\ busy \in {0} \cup IF page = "checkout" THEN Orders ELSE IF page = "gateway" THEN Calls ELSE {}
  /\ (at # NoOrder) = (page \in {"gateway", "success"})
  /\ verdict \in {"none", "confirmed", "pending"}
  /\ loading \in BOOLEAN
  /\ own \in Nat /\ old \in Nat

StoreTypes ==
  /\ selected \subseteq Seats /\ reservation \in Holds \cup {NoHold}
  /\ edited \subseteq Holds

RequestTypes ==
  /\ hold \in [Holds -> HoldRecords]
  /\ order \in [Orders -> OrderRecords]
  /\ call \in [Calls -> CallRecords]

LEMMA TypesOf == TypeOK <=> PlaceTypes /\ StoreTypes /\ RequestTypes
  BY DEF TypeOK, PlaceTypes, StoreTypes, RequestTypes

(* Mounting a page leaves nothing of the one before but the maps that it   *)
(* had asked for.                                                          *)
LEMMA Mounted ==
  ASSUME PlaceTypes, NEW p, NEW c, Mount(p, c),
         \/ p \in {"seats", "login", "checkout"} /\ c = NoOrder
         \/ p \in {"gateway", "success"} /\ c \in Orders
         \/ p = page /\ c = at
  PROVE  PlaceTypes' /\ page' = p /\ at' = c /\ busy' = 0 /\ verdict' = "none" /\ loading'
  BY SentinelsAssumption DEF Mount, PlaceTypes, Pages

(* The requests: where a step leaves one, it is of its kind.               *)
LEMMA RequestsStep ==
  ASSUME PlaceTypes, StoreTypes, RequestTypes, RequestsKnown, [Next]_vars
  PROVE  RequestTypes' /\ RequestsKnown'
<1> USE DEF RequestTypes, RequestsKnown, HoldRecords, OrderRecords, CallRecords
<1>1. ASSUME UNCHANGED <<hold, order, call>> PROVE RequestTypes' /\ RequestsKnown'
  BY <1>1
<1>2. CASE \/ Visit \/ Load \/ LateLoad \/ CountdownEnds \/ SendToLogin \/ Bounce \/ ShowBooking
           \/ (\E s \in Seats : handleSeatClick(s)) \/ UNCHANGED vars
  BY <1>1, <1>2 DEF Visit, Load, LateLoad, CountdownEnds, SendToLogin, Bounce, ShowBooking,
                    handleSeatClick, vars
<1>3. CASE Reload
  <2>1. hold' \in [Holds -> HoldRecords]
    BY <1>3 DEF Reload, HoldOver
  <2>2. /\ order' \in [Orders -> OrderRecords]
        /\ \A c \in Orders : order'[c].pc \in {"idle", "sent"} => order'[c].status = "NONE"
    BY <1>3 DEF Reload, OrderOver, Awaited
  <2>3. /\ call' \in [Calls -> CallRecords]
        /\ \A k \in Calls : call'[k].pc \notin {"idle", "done"} => call'[k].of \in Orders
    <3>1. ASSUME NEW k \in Calls
          PROVE  /\ call'[k] \in CallRecords
                 /\ call'[k].pc \notin {"idle", "done"} => call'[k].of \in Orders
      BY <1>3 DEF Reload, CallOver
    <3>2. call' = [k \in Calls |-> call'[k]]
      BY <1>3 DEF Reload
    <3> QED BY <3>1, <3>2
  <2> QED BY <2>1, <2>2, <2>3
<1>4. ASSUME NEW h \in Holds,
             handleHoldSeats(h) \/ ServeHold(h) \/ HoldGranted(h) \/ HoldRefused(h)
      PROVE  RequestTypes' /\ RequestsKnown'
  <2>1. UNCHANGED <<order, call>>
    BY <1>4 DEF handleHoldSeats, ServeHold, HoldGranted, HoldRefused
  <2>2. hold' \in [Holds -> HoldRecords]
    <3>1. CASE handleHoldSeats(h)
      BY <3>1 DEF handleHoldSeats, StoreTypes
    <3>2. CASE ServeHold(h)
      BY <3>2 DEF ServeHold
    <3>3. CASE HoldGranted(h)
      BY <3>3 DEF HoldGranted
    <3>4. CASE HoldRefused(h)
      BY <3>4 DEF HoldRefused, HoldOver
    <3> QED BY <1>4, <3>1, <3>2, <3>3, <3>4
  <2> QED BY <2>1, <2>2
<1>5. ASSUME NEW c \in Orders,
             handleCheckout(c) \/ ServeCheckout(c) \/ CheckoutBooked(c) \/ CheckoutRefused(c)
      PROVE  RequestTypes' /\ RequestsKnown'
  <2>1. UNCHANGED <<hold, call>>
    BY <1>5 DEF handleCheckout, ServeCheckout, CheckoutBooked, CheckoutRefused
  <2>2. /\ order' \in [Orders -> OrderRecords]
        /\ \A d \in Orders : order'[d].pc \in {"idle", "sent"} => order'[d].status = "NONE"
    <3>1. CASE handleCheckout(c)
      BY <3>1 DEF handleCheckout, StoreTypes
    <3>2. CASE ServeCheckout(c)
      <4>1. PICK answer \in {"booked", "expired", "refused"}, status \in {"PENDING", "NONE"} :
              order' = [order EXCEPT ![c] = OrderOver(answer, status)]
        BY <3>2 DEF ServeCheckout
      <4> QED BY <4>1 DEF OrderOver
    <3>3. CASE CheckoutBooked(c)
      <4>1. order' = [order EXCEPT ![c].pc = "known"]
        BY <3>3 DEF CheckoutBooked
      <4>2. order' \in [Orders -> OrderRecords]
        BY <4>1
      <4>3. \A d \in Orders : order'[d].pc \in {"idle", "sent"} => order'[d] = order[d]
        BY <4>1
      <4> QED BY <4>2, <4>3
    <3>4. CASE CheckoutRefused(c)
      <4>1. order' = [order EXCEPT ![c].pc = "done"]
        BY <3>4 DEF CheckoutRefused
      <4>2. order' \in [Orders -> OrderRecords]
        BY <4>1
      <4>3. \A d \in Orders : order'[d].pc \in {"idle", "sent"} => order'[d] = order[d]
        BY <4>1
      <4> QED BY <4>2, <4>3
    <3> QED BY <1>5, <3>1, <3>2, <3>3, <3>4
  <2> QED BY <2>1, <2>2
<1>6. ASSUME NEW k \in Calls, NEW success \in BOOLEAN, handleSimulatePayment(k, success)
      PROVE  RequestTypes' /\ RequestsKnown'
  <2>1. at \in Orders
    BY <1>6, SentinelsAssumption DEF handleSimulatePayment, MayPay, PlaceTypes
  <2> QED BY <1>6, <2>1 DEF handleSimulatePayment
<1>7. ASSUME NEW k \in Calls, ServeCall(k)
      PROVE  RequestTypes' /\ RequestsKnown'
  <2>1. PICK c \in Orders : c = call[k].of
    <3>1. call[k].of \in Orders
      BY <1>7 DEF ServeCall
    <3> QED BY <3>1
  <2>2. /\ hold' = hold
        /\ \/ order' = order
           \/ order[c].status = "PENDING"
              /\ \E status \in {"PAID", "CANCELLED"} : order' = [order EXCEPT ![c].status = status]
    BY <1>7, <2>1 DEF ServeCall, SetStatus, Stay
  <2>3. /\ order' \in [Orders -> OrderRecords]
        /\ \A d \in Orders : order'[d].pc \in {"idle", "sent"} => order'[d].status = "NONE"
    <3>1. CASE order' = order
      BY <3>1
    <3>2. ASSUME NEW status \in {"PAID", "CANCELLED"}, order[c].status = "PENDING",
                 order' = [order EXCEPT ![c].status = status]
          PROVE  /\ order' \in [Orders -> OrderRecords]
                 /\ \A d \in Orders : order'[d].pc \in {"idle", "sent"} => order'[d].status = "NONE"
      BY <3>2
    <3> QED BY <2>2, <3>1, <3>2
  <2>4. \/ \E answer \in {"ok", "error"} : call' = [call EXCEPT ![k].pc = answer]
        \/ call' = [call EXCEPT ![k] = [pc |-> "done", of |-> NoOrder, success |-> FALSE]]
    BY <1>7 DEF ServeCall, Replies, CallOver
  <2>5. /\ call' \in [Calls -> CallRecords]
        /\ \A j \in Calls : call'[j].pc \notin {"idle", "done"} => call'[j].of \in Orders
    <3>1. ASSUME NEW answer \in {"ok", "error"}, call' = [call EXCEPT ![k].pc = answer]
          PROVE  /\ call' \in [Calls -> CallRecords]
                 /\ \A j \in Calls : call'[j].pc \notin {"idle", "done"} => call'[j].of \in Orders
      BY <2>1, <3>1
    <3>2. CASE call' = [call EXCEPT ![k] = [pc |-> "done", of |-> NoOrder, success |-> FALSE]]
      BY <3>2
    <3> QED BY <2>4, <3>1, <3>2
  <2> QED BY <2>2, <2>3, <2>5
<1>8. ASSUME NEW k \in Calls, CallAnswered(k) \/ CallFailed(k)
      PROVE  RequestTypes' /\ RequestsKnown'
  <2>1. /\ UNCHANGED <<hold, order>>
        /\ call' = [call EXCEPT ![k] = [pc |-> "done", of |-> NoOrder, success |-> FALSE]]
    BY <1>8 DEF CallAnswered, CallFailed, CallOver
  <2> QED BY <2>1
<1> QED BY <1>2, <1>3, <1>4, <1>5, <1>6, <1>7, <1>8 DEF Next

LEMMA PlaceStep ==
  ASSUME PlaceTypes, RequestTypes, RequestsKnown, [Next]_vars
  PROVE  PlaceTypes'
<1>1. CASE UNCHANGED <<place, loads>>
  BY <1>1 DEF place, loads, PlaceTypes
<1>2. CASE Visit
  BY <1>2, Mounted DEF Visit
<1>3. CASE Reload
  BY <1>3, Mounted DEF Reload
<1>4. CASE Load \/ LateLoad \/ CountdownEnds
  <2>1. /\ UNCHANGED place
        /\ loading' \in BOOLEAN /\ own' \in Nat /\ old' \in Nat
    <3>0. loading \in BOOLEAN /\ own \in Nat /\ old \in Nat
      BY DEF PlaceTypes
    <3>1. CASE Load
      <4>1. loading' \in BOOLEAN
        BY <3>1 DEF Load
      <4>2. UNCHANGED <<place, old>> /\ own > 0 /\ own' = own - 1
        BY <3>1 DEF Load
      <4> QED BY <3>0, <4>1, <4>2
    <3>2. CASE LateLoad
      BY <3>2 DEF LateLoad, PlaceTypes
    <3>3. CASE CountdownEnds
      BY <3>3 DEF CountdownEnds, PlaceTypes
    <3> QED BY <1>4, <3>1, <3>2, <3>3
  <2> QED BY <2>1 DEF place, PlaceTypes
<1>5. CASE SendToLogin \/ Bounce
  BY <1>5, Mounted DEF SendToLogin, Bounce
<1>6. CASE ShowBooking
  BY <1>6 DEF ShowBooking, Says, loads, PlaceTypes
<1>7. CASE \E s \in Seats : handleSeatClick(s)
  BY <1>1, <1>7 DEF handleSeatClick, place, loads
<1>8. ASSUME NEW h \in Holds,
             handleHoldSeats(h) \/ ServeHold(h) \/ HoldGranted(h) \/ HoldRefused(h)
      PROVE  PlaceTypes'
  <2>1. CASE handleHoldSeats(h) \/ ServeHold(h)
    BY <1>1, <2>1 DEF handleHoldSeats, ServeHold, Stay
  <2>2. CASE HoldGranted(h)
    BY <2>2, Mounted DEF HoldGranted
  <2>3. CASE HoldRefused(h)
    BY <2>3 DEF HoldRefused, place, PlaceTypes
  <2> QED BY <1>8, <2>1, <2>2, <2>3
<1>9. ASSUME NEW c \in Orders,
             handleCheckout(c) \/ ServeCheckout(c) \/ CheckoutBooked(c) \/ CheckoutRefused(c)
      PROVE  PlaceTypes'
  <2>1. CASE handleCheckout(c)
    BY <2>1 DEF handleCheckout, MayCheckOut, loads, PlaceTypes
  <2>2. CASE ServeCheckout(c)
    BY <1>1, <2>2 DEF ServeCheckout, Stay
  <2>3. CASE CheckoutBooked(c)
    BY <2>3, Mounted DEF CheckoutBooked
  <2>4. CASE CheckoutRefused(c)
    <3>1. \/ Mount("seats", NoOrder)
          \/ busy' \in {0, busy} /\ UNCHANGED <<page, at, verdict, loads>>
      BY <2>4 DEF CheckoutRefused
    <3>2. CASE Mount("seats", NoOrder)
      BY <3>2, Mounted
    <3>3. CASE busy' \in {0, busy} /\ UNCHANGED <<page, at, verdict, loads>>
      BY <3>3 DEF loads, PlaceTypes
    <3> QED BY <3>1, <3>2, <3>3
  <2> QED BY <1>9, <2>1, <2>2, <2>3, <2>4
<1>10. ASSUME NEW k \in Calls,
              \/ \E success \in BOOLEAN : handleSimulatePayment(k, success)
              \/ ServeCall(k) \/ CallAnswered(k) \/ CallFailed(k)
       PROVE  PlaceTypes'
  <2>1. CASE \E success \in BOOLEAN : handleSimulatePayment(k, success)
    BY <2>1 DEF handleSimulatePayment, MayPay, loads, PlaceTypes
  <2>2. CASE ServeCall(k)
    BY <1>1, <2>2 DEF ServeCall, Stay
  <2>3. CASE CallAnswered(k)
    <3>1. call[k].of \in Orders
      BY <2>3 DEF CallAnswered, RequestsKnown
    <3> QED BY <2>3, <3>1, Mounted DEF CallAnswered
  <2>4. CASE CallFailed(k)
    BY <2>4 DEF CallFailed, loads, PlaceTypes
  <2> QED BY <1>10, <2>1, <2>2, <2>3, <2>4
<1> QED BY <1>1, <1>2, <1>3, <1>4, <1>5, <1>6, <1>7, <1>8, <1>9, <1>10 DEF Next, vars

(* Who writes the store: clicks, maps that arrive, the countdown, the      *)
(* grant of a hold, and a checkout that is booked.                         *)
LEMMA StoreWrites ==
  ASSUME [Next]_vars
  PROVE  \/ UNCHANGED <<selected, reservation, edited>>
         \/ selected' = {} /\ reservation' \in {reservation, NoHold} /\ edited' = edited
         \/ \E s \in Seats : handleSeatClick(s)
         \/ \E h \in Holds : HoldGranted(h)
<1> DEFINE Goal == \/ UNCHANGED <<selected, reservation, edited>>
                   \/ selected' = {} /\ reservation' \in {reservation, NoHold} /\ edited' = edited
                   \/ \E s \in Seats : handleSeatClick(s)
                   \/ \E h \in Holds : HoldGranted(h)
<1>1. CASE Visit \/ Reload \/ SendToLogin \/ Bounce \/ ShowBooking \/ UNCHANGED vars
  BY <1>1 DEF Visit, Reload, SendToLogin, Bounce, ShowBooking, store, vars
<1>2. CASE Load \/ LateLoad \/ CountdownEnds
  BY <1>2 DEF Load, LateLoad, CountdownEnds, SetShowtime
<1>3. ASSUME NEW h \in Holds, handleHoldSeats(h) \/ ServeHold(h) \/ HoldRefused(h) PROVE Goal
  BY <1>3 DEF handleHoldSeats, ServeHold, HoldRefused, store
<1>4. ASSUME NEW c \in Orders,
             handleCheckout(c) \/ ServeCheckout(c) \/ CheckoutBooked(c) \/ CheckoutRefused(c)
      PROVE  Goal
  BY <1>4 DEF handleCheckout, ServeCheckout, CheckoutBooked, CheckoutRefused, resetBooking, store
<1>5. ASSUME NEW k \in Calls,
             \/ \E success \in BOOLEAN : handleSimulatePayment(k, success)
             \/ ServeCall(k) \/ CallAnswered(k) \/ CallFailed(k)
      PROVE  Goal
  BY <1>5 DEF handleSimulatePayment, ServeCall, CallAnswered, CallFailed, store
<1> QED BY <1>1, <1>2, <1>3, <1>4, <1>5 DEF Next

LEMMA TypeInit == Init => TypeOK /\ RequestsKnown
<1> SUFFICES ASSUME Init PROVE TypeOK /\ RequestsKnown
  OBVIOUS
<1>1. PlaceTypes
  BY SentinelsAssumption DEF Init, PlaceTypes, Pages
<1>2. StoreTypes
  BY DEF Init, StoreTypes
<1>3. RequestTypes /\ RequestsKnown
  BY DEF Init, RequestTypes, RequestsKnown, HoldRecords, OrderRecords, CallRecords
<1> QED BY <1>1, <1>2, <1>3, TypesOf

LEMMA TypeStep == TypeOK /\ RequestsKnown /\ [Next]_vars => TypeOK' /\ RequestsKnown'
<1> SUFFICES ASSUME TypeOK, RequestsKnown, [Next]_vars PROVE TypeOK' /\ RequestsKnown'
  OBVIOUS
<1>0. PlaceTypes /\ StoreTypes /\ RequestTypes
  BY TypesOf
<1>1. PlaceTypes' /\ RequestTypes' /\ RequestsKnown'
  BY <1>0, PlaceStep, RequestsStep
<1>2. StoreTypes'
  <2>1. CASE UNCHANGED <<selected, reservation, edited>>
    BY <1>0, <2>1 DEF StoreTypes
  <2>2. CASE selected' = {} /\ reservation' \in {reservation, NoHold} /\ edited' = edited
    BY <1>0, <2>2 DEF StoreTypes
  <2>3. CASE \E s \in Seats : handleSeatClick(s)
    BY <1>0, <2>3 DEF handleSeatClick, toggleSeat, StoreTypes, Asking
  <2>4. CASE \E h \in Holds : HoldGranted(h)
    BY <1>0, <2>4 DEF HoldGranted, setReservation, StoreTypes
  <2>5. \/ UNCHANGED <<selected, reservation, edited>>
        \/ selected' = {} /\ reservation' \in {reservation, NoHold} /\ edited' = edited
        \/ \E s \in Seats : handleSeatClick(s)
        \/ \E h \in Holds : HoldGranted(h)
    BY StoreWrites
  <2> QED BY <2>1, <2>2, <2>3, <2>4, <2>5
<1> QED BY <1>1, <1>2 DEF TypeOK, PlaceTypes, StoreTypes, RequestTypes
-----------------------------------------------------------------------------
(* What is confirmed is paid *)

(* An order that is paid stays paid: callbacks only touch pending ones, a  *)
(* checkout is served before there is anything to pay, and reloading       *)
(* forgets requests, not bookings.                                         *)
LEMMA PaidIsFinal ==
  ASSUME RequestTypes, RequestsKnown, [Next]_vars,
         NEW c \in Orders, order[c].status = "PAID"
  PROVE  order'[c].status = "PAID"
<1> USE DEF RequestTypes, RequestsKnown, OrderRecords
<1>1. CASE order' = order
  BY <1>1
<1>2. CASE Visit \/ Load \/ LateLoad \/ CountdownEnds \/ SendToLogin \/ Bounce \/ ShowBooking
           \/ (\E s \in Seats : handleSeatClick(s)) \/ UNCHANGED vars
  BY <1>1, <1>2 DEF Visit, Load, LateLoad, CountdownEnds, SendToLogin, Bounce, ShowBooking,
                    handleSeatClick, vars
<1>3. CASE Reload
  BY <1>3 DEF Reload, OrderOver
<1>4. CASE \E h \in Holds : handleHoldSeats(h) \/ ServeHold(h) \/ HoldGranted(h) \/ HoldRefused(h)
  BY <1>1, <1>4 DEF handleHoldSeats, ServeHold, HoldGranted, HoldRefused
<1>5. ASSUME NEW d \in Orders,
             handleCheckout(d) \/ ServeCheckout(d) \/ CheckoutBooked(d) \/ CheckoutRefused(d)
      PROVE  order'[c].status = "PAID"
  <2>1. CASE handleCheckout(d) \/ ServeCheckout(d)
    <3>1. c # d
      BY <2>1 DEF handleCheckout, ServeCheckout, Unused
    <3> QED BY <2>1, <3>1 DEF handleCheckout, ServeCheckout
  <2>2. CASE CheckoutBooked(d) \/ CheckoutRefused(d)
    BY <2>2 DEF CheckoutBooked, CheckoutRefused
  <2> QED BY <1>5, <2>1, <2>2
<1>6. ASSUME NEW k \in Calls, ServeCall(k)
      PROVE  order'[c].status = "PAID"
  <2>1. PICK d : d = call[k].of
    OBVIOUS
  <2>2. order' = order \/ (order[d].status = "PENDING"
                           /\ \E status : order' = [order EXCEPT ![d].status = status])
    BY <1>6, <2>1 DEF ServeCall, SetStatus
  <2>3. ASSUME order[d].status = "PENDING", NEW status, order' = [order EXCEPT ![d].status = status]
        PROVE  order'[c].status = "PAID"
    <3>1. c # d
      BY <2>3
    <3> QED BY <2>3, <3>1
  <2> QED BY <1>1, <2>2, <2>3
<1>7. CASE \E k \in Calls :
             \/ \E success \in BOOLEAN : handleSimulatePayment(k, success)
             \/ CallAnswered(k) \/ CallFailed(k)
  BY <1>1, <1>7 DEF handleSimulatePayment, CallAnswered, CallFailed
<1> QED BY <1>2, <1>3, <1>4, <1>5, <1>6, <1>7 DEF Next

PaidInv == TypeOK /\ RequestsKnown /\ SuccessIsPaid

(* A callback that becomes an answer which leads to the page of success    *)
(* found its order paid or made it so.                                     *)
LEMMA AnswersArePaid ==
  ASSUME PaidInv, [Next]_vars, NEW k \in Calls, call'[k].pc = "ok", call'[k].success
  PROVE  call'[k].of \in Orders /\ order'[call'[k].of].status = "PAID"
<1> USE DEF PaidInv, SuccessIsPaid, RequestTypes, RequestsKnown, CallRecords, OrderRecords
<1> DEFINE Goal == call'[k].of \in Orders /\ order'[call'[k].of].status = "PAID"
<1>0. RequestTypes
  BY TypesOf
<1>1. ASSUME call'[k] = call[k] PROVE Goal
  <2>1. call[k].of \in Orders /\ order[call[k].of].status = "PAID"
    BY <1>0, <1>1
  <2>2. order'[call[k].of].status = "PAID"
    BY <1>0, <2>1, PaidIsFinal
  <2> QED BY <1>1, <2>1, <2>2
<1>2. CASE \/ Visit \/ Load \/ LateLoad \/ CountdownEnds \/ SendToLogin \/ Bounce \/ ShowBooking
           \/ (\E s \in Seats : handleSeatClick(s)) \/ UNCHANGED vars
  BY <1>1, <1>2 DEF Visit, Load, LateLoad, CountdownEnds, SendToLogin, Bounce, ShowBooking,
                    handleSeatClick, vars
<1>3. CASE Reload
  <2>1. call'[k] = call[k]
    BY <1>0, <1>3 DEF Reload, CallOver
  <2> QED BY <1>1, <2>1
<1>4. CASE \E h \in Holds : handleHoldSeats(h) \/ ServeHold(h) \/ HoldGranted(h) \/ HoldRefused(h)
  BY <1>1, <1>4 DEF handleHoldSeats, ServeHold, HoldGranted, HoldRefused
<1>5. CASE \E c \in Orders :
             handleCheckout(c) \/ ServeCheckout(c) \/ CheckoutBooked(c) \/ CheckoutRefused(c)
  BY <1>1, <1>5 DEF handleCheckout, ServeCheckout, CheckoutBooked, CheckoutRefused
<1>6. ASSUME NEW j \in Calls, NEW success \in BOOLEAN, handleSimulatePayment(j, success) PROVE Goal
  <2>1. call'[k] = call[k]
    BY <1>0, <1>6 DEF handleSimulatePayment
  <2> QED BY <1>1, <2>1
<1>7. ASSUME NEW j \in Calls, ServeCall(j) PROVE Goal
  <2>1. CASE j # k
    <3>1. call'[k] = call[k]
      BY <1>0, <1>7, <2>1 DEF ServeCall, Replies
    <3> QED BY <1>1, <3>1
  <2>2. CASE j = k
    <3>1. call[k].of \in Orders
      BY <1>0, <1>7, <2>2 DEF ServeCall
    <3>2. PICK c \in Orders : c = call[k].of
      BY <3>1
    <3>3. call'[k].of = c /\ call[k].success
      <4>1. CallOver.pc # "ok"
        BY DEF CallOver
      <4>2. PICK answer \in {"ok", "error"} : call' = [call EXCEPT ![k].pc = answer]
        BY <1>0, <1>7, <2>2, <4>1 DEF ServeCall, Replies
      <4>3. call \in [Calls -> CallRecords]
        BY <1>0
      <4>4. call'[k].of = call[k].of
        BY <4>2, <4>3
      <4>5. call[k].success
        BY <4>2, <4>3
      <4> QED BY <3>2, <4>4, <4>5
    <3>4. CASE order[c].status = "PENDING" /\ SetStatus(c, IF call[k].success THEN "PAID" ELSE "CANCELLED")
      <4>1. order' = [order EXCEPT ![c].status = "PAID"]
        BY <3>3, <3>4 DEF SetStatus
      <4> QED BY <1>0, <3>2, <3>3, <4>1
    <3>5. CASE /\ Replies(k, IF order[c].status = "PAID" \/ ~call[k].success THEN {"ok"} ELSE {})
               /\ UNCHANGED order
      <4>1. order[c].status = "PAID"
        BY <1>0, <3>3, <3>5 DEF Replies, CallOver
      <4> QED BY <3>2, <3>3, <3>5, <4>1
    <3> QED BY <1>7, <2>2, <3>2, <3>4, <3>5 DEF ServeCall
  <2> QED BY <2>1, <2>2
<1>8. ASSUME NEW j \in Calls, CallAnswered(j) \/ CallFailed(j) PROVE Goal
  <2>1. call'[k] = call[k]
    BY <1>0, <1>8 DEF CallAnswered, CallFailed, CallOver
  <2> QED BY <1>1, <2>1
<1> QED BY <1>2, <1>3, <1>4, <1>5, <1>6, <1>7, <1>8 DEF Next

(* Only the answer to a callback leads to the page of success.             *)
LEMMA GoesToSuccess ==
  ASSUME [Next]_vars, page' = "success"
  PROVE  \/ page = "success" /\ at' = at
         \/ \E k \in Calls : CallAnswered(k)
<1> DEFINE Goal == \/ page = "success" /\ at' = at
                   \/ \E k \in Calls : CallAnswered(k)
<1>1. CASE Visit \/ Reload \/ SendToLogin \/ Bounce
  BY <1>1 DEF Visit, Reload, SendToLogin, Bounce, Mount
<1>2. CASE \/ Load \/ LateLoad \/ CountdownEnds \/ ShowBooking
           \/ (\E s \in Seats : handleSeatClick(s)) \/ UNCHANGED vars
  BY <1>2 DEF Load, LateLoad, CountdownEnds, ShowBooking, handleSeatClick, place, vars
<1>3. ASSUME NEW h \in Holds,
             handleHoldSeats(h) \/ ServeHold(h) \/ HoldGranted(h) \/ HoldRefused(h)
      PROVE  Goal
  BY <1>3 DEF handleHoldSeats, ServeHold, HoldGranted, HoldRefused, Stay, Mount, place
<1>4. ASSUME NEW c \in Orders,
             handleCheckout(c) \/ ServeCheckout(c) \/ CheckoutBooked(c) \/ CheckoutRefused(c)
      PROVE  Goal
  BY <1>4 DEF handleCheckout, ServeCheckout, CheckoutBooked, CheckoutRefused, Stay, Mount, place
<1>5. ASSUME NEW k \in Calls,
             \/ \E success \in BOOLEAN : handleSimulatePayment(k, success)
             \/ ServeCall(k) \/ CallFailed(k)
      PROVE  Goal
  BY <1>5 DEF handleSimulatePayment, ServeCall, CallFailed, Stay, place
<1> QED BY <1>1, <1>2, <1>3, <1>4, <1>5 DEF Next

LEMMA SuccessStep == PaidInv /\ [Next]_vars => PaidInv'
<1> SUFFICES ASSUME PaidInv, [Next]_vars PROVE PaidInv'
  OBVIOUS
<1>0. PaidInv /\ PlaceTypes /\ RequestTypes
  BY TypesOf DEF PaidInv
<1>1. TypeOK' /\ RequestsKnown'
  BY TypeStep DEF PaidInv
<1>2. \A k \in Calls : call'[k].pc = "ok" /\ call'[k].success => order'[call'[k].of].status = "PAID"
  BY AnswersArePaid
<1>3. ASSUME page' = "success" PROVE order'[at'].status = "PAID"
  <2>1. ASSUME page = "success", at' = at PROVE order'[at'].status = "PAID"
    <3>1. at \in Orders /\ order[at].status = "PAID"
      BY <1>0, <2>1 DEF PaidInv, PlaceTypes, SuccessIsPaid
    <3> QED BY <1>0, <2>1, <3>1, PaidIsFinal DEF PaidInv
  <2>2. ASSUME NEW k \in Calls, CallAnswered(k) PROVE order'[at'].status = "PAID"
    <3>1. call[k].success /\ at' = call[k].of /\ order' = order
      BY <1>3, <2>2 DEF CallAnswered, Mount
    <3> QED BY <1>0, <2>2, <3>1 DEF CallAnswered, PaidInv, SuccessIsPaid
  <2> QED BY <1>3, <2>1, <2>2, GoesToSuccess
<1> QED BY <1>1, <1>2, <1>3 DEF PaidInv, SuccessIsPaid

(* What the page of success confirms is paid, however late and to which    *)
(* page the answers of the callbacks come.                                 *)
THEOREM ConfirmationsAreTrue == Spec => []ConfirmedIsPaid
<1>1. Init => PaidInv
  <2>1. Init => SuccessIsPaid
    BY DEF Init, SuccessIsPaid
  <2> QED BY <2>1, TypeInit DEF PaidInv
<1>2. PaidInv => ConfirmedIsPaid
  BY DEF PaidInv, SuccessIsPaid, ConfirmedIsPaid
<1> QED BY <1>1, <1>2, SuccessStep, PTL DEF Spec
-----------------------------------------------------------------------------
(* What is checked out was held *)

(* A hold that is over keeps its seats; one that is under way was, or was  *)
(* sent for what is selected.                                              *)
LEMMA HoldsGoOn ==
  ASSUME RequestTypes, [Next]_vars, NEW h \in Holds
  PROVE  /\ hold[h].pc = "done" => hold'[h] = hold[h]
         /\ hold'[h].pc \in {"sent", "granted", "refused"} =>
              \/ h \in Asking /\ hold'[h].seats = hold[h].seats
              \/ hold'[h].seats = selected /\ UNCHANGED <<selected, edited>>
<1> DEFINE Goal == /\ hold[h].pc = "done" => hold'[h] = hold[h]
                   /\ hold'[h].pc \in {"sent", "granted", "refused"} =>
                        \/ h \in Asking /\ hold'[h].seats = hold[h].seats
                        \/ hold'[h].seats = selected /\ UNCHANGED <<selected, edited>>
<1>0. hold \in [Holds -> HoldRecords]
  BY DEF RequestTypes
<1>1. ASSUME hold'[h] = hold[h] PROVE Goal
  BY <1>1 DEF Asking
<1>2. CASE \/ Visit \/ Load \/ LateLoad \/ CountdownEnds \/ SendToLogin \/ Bounce \/ ShowBooking
           \/ (\E s \in Seats : handleSeatClick(s)) \/ UNCHANGED vars
  BY <1>1, <1>2 DEF Visit, Load, LateLoad, CountdownEnds, SendToLogin, Bounce, ShowBooking,
                    handleSeatClick, vars
<1>3. CASE Reload
  BY <1>0, <1>1, <1>3 DEF Reload, HoldOver, Awaited
<1>4. ASSUME NEW g \in Holds,
             handleHoldSeats(g) \/ ServeHold(g) \/ HoldGranted(g) \/ HoldRefused(g)
      PROVE  Goal
  <2>1. ASSUME g # h PROVE Goal
    <3>1. hold'[h] = hold[h]
      BY <1>0, <1>4, <2>1 DEF handleHoldSeats, ServeHold, HoldGranted, HoldRefused
    <3> QED BY <1>1, <3>1
  <2>2. ASSUME g = h, handleHoldSeats(h) PROVE Goal
    BY <1>0, <2>2 DEF handleHoldSeats, Unused, store
  <2>3. ASSUME g = h, ServeHold(h) PROVE Goal
    BY <1>0, <2>3 DEF ServeHold, Asking, HoldRecords
  <2>4. ASSUME g = h, HoldGranted(h) \/ HoldRefused(h) PROVE Goal
    BY <1>0, <2>4 DEF HoldGranted, HoldRefused, HoldOver, HoldRecords
  <2> QED BY <1>4, <2>1, <2>2, <2>3, <2>4
<1>5. CASE \E c \in Orders :
             handleCheckout(c) \/ ServeCheckout(c) \/ CheckoutBooked(c) \/ CheckoutRefused(c)
  BY <1>1, <1>5 DEF handleCheckout, ServeCheckout, CheckoutBooked, CheckoutRefused
<1>6. CASE \E k \in Calls :
             \/ \E success \in BOOLEAN : handleSimulatePayment(k, success)
             \/ ServeCall(k) \/ CallAnswered(k) \/ CallFailed(k)
  BY <1>1, <1>6 DEF handleSimulatePayment, ServeCall, CallAnswered, CallFailed
<1> QED BY <1>2, <1>3, <1>4, <1>5, <1>6 DEF Next

(* A checkout that names a hold did so, or is sent for what is in the      *)
(* store, which is not empty.                                              *)
LEMMA OrdersGoOn ==
  ASSUME RequestTypes, [Next]_vars, NEW c \in Orders, order'[c].res \in Holds
  PROVE  \/ order'[c].res = order[c].res /\ order'[c].seats = order[c].seats
         \/ /\ order'[c].res = reservation /\ order'[c].seats = selected /\ selected # {}
            /\ UNCHANGED <<hold, edited>>
<1> DEFINE Goal == \/ order'[c].res = order[c].res /\ order'[c].seats = order[c].seats
                   \/ /\ order'[c].res = reservation /\ order'[c].seats = selected /\ selected # {}
                      /\ UNCHANGED <<hold, edited>>
<1>0. order \in [Orders -> OrderRecords]
  BY DEF RequestTypes
<1>1. ASSUME order'[c] = order[c] PROVE Goal
  BY <1>1
<1>2. CASE \/ Visit \/ Load \/ LateLoad \/ CountdownEnds \/ SendToLogin \/ Bounce \/ ShowBooking
           \/ (\E s \in Seats : handleSeatClick(s)) \/ UNCHANGED vars
  BY <1>1, <1>2 DEF Visit, Load, LateLoad, CountdownEnds, SendToLogin, Bounce, ShowBooking,
                    handleSeatClick, vars
<1>3. CASE Reload
  <2>1. order'[c] = order[c]
    BY <1>0, <1>3, SentinelsAssumption DEF Reload, OrderOver
  <2> QED BY <1>1, <2>1
<1>4. CASE \E h \in Holds : handleHoldSeats(h) \/ ServeHold(h) \/ HoldGranted(h) \/ HoldRefused(h)
  BY <1>1, <1>4 DEF handleHoldSeats, ServeHold, HoldGranted, HoldRefused
<1>5. ASSUME NEW d \in Orders,
             handleCheckout(d) \/ ServeCheckout(d) \/ CheckoutBooked(d) \/ CheckoutRefused(d)
      PROVE  Goal
  <2>1. ASSUME d # c PROVE Goal
    <3>1. order'[c] = order[c]
      BY <1>0, <1>5, <2>1 DEF handleCheckout, ServeCheckout, CheckoutBooked, CheckoutRefused
    <3> QED BY <1>1, <3>1
  <2>2. ASSUME d = c, handleCheckout(c) PROVE Goal
    BY <1>0, <2>2 DEF handleCheckout, MayCheckOut
  <2>3. ASSUME d = c, ServeCheckout(c) PROVE Goal
    BY <1>0, <2>3, SentinelsAssumption DEF ServeCheckout, OrderOver
  <2>4. ASSUME d = c, CheckoutBooked(c) \/ CheckoutRefused(c) PROVE Goal
    BY <1>0, <2>4 DEF CheckoutBooked, CheckoutRefused, OrderRecords
  <2> QED BY <1>5, <2>1, <2>2, <2>3, <2>4
<1>6. CASE \E k \in Calls :
             \/ \E success \in BOOLEAN : handleSimulatePayment(k, success)
             \/ CallAnswered(k) \/ CallFailed(k)
  BY <1>1, <1>6 DEF handleSimulatePayment, CallAnswered, CallFailed
<1>7. ASSUME NEW k \in Calls, ServeCall(k) PROVE Goal
  <2>1. order' = order \/ \E d, status : order' = [order EXCEPT ![d].status = status]
    BY <1>7 DEF ServeCall, SetStatus
  <2>2. ASSUME NEW d, NEW status, order' = [order EXCEPT ![d].status = status] PROVE Goal
    BY <1>0, <2>2 DEF OrderRecords
  <2> QED BY <1>1, <2>1, <2>2
<1> QED BY <1>2, <1>3, <1>4, <1>5, <1>6, <1>7 DEF Next

(* A page that has no map gets one from Load alone, which empties the      *)
(* store.                                                                  *)
LEMMA LoadingEnds == ASSUME [Next]_vars, loading PROVE loading' \/ reservation' = NoHold
<1> DEFINE Goal == loading' \/ reservation' = NoHold
<1>1. CASE Visit \/ Reload \/ SendToLogin \/ Bounce
  BY <1>1 DEF Visit, Reload, SendToLogin, Bounce, Mount
<1>2. CASE \/ Load \/ LateLoad \/ CountdownEnds \/ ShowBooking
           \/ (\E s \in Seats : handleSeatClick(s)) \/ UNCHANGED vars
  BY <1>2 DEF Load, LateLoad, SetShowtime, CountdownEnds, ShowBooking, handleSeatClick, loads, vars
<1>3. ASSUME NEW h \in Holds,
             handleHoldSeats(h) \/ ServeHold(h) \/ HoldGranted(h) \/ HoldRefused(h)
      PROVE  Goal
  BY <1>3 DEF handleHoldSeats, ServeHold, HoldGranted, HoldRefused, Stay, Mount, loads
<1>4. ASSUME NEW c \in Orders,
             handleCheckout(c) \/ ServeCheckout(c) \/ CheckoutBooked(c) \/ CheckoutRefused(c)
      PROVE  Goal
  BY <1>4 DEF handleCheckout, ServeCheckout, CheckoutBooked, CheckoutRefused, Stay, Mount, loads
<1>5. ASSUME NEW k \in Calls,
             \/ \E success \in BOOLEAN : handleSimulatePayment(k, success)
             \/ ServeCall(k) \/ CallAnswered(k) \/ CallFailed(k)
      PROVE  Goal
  BY <1>5 DEF handleSimulatePayment, ServeCall, CallAnswered, CallFailed, Stay, Mount, loads
<1> QED BY <1>1, <1>2, <1>3, <1>4, <1>5 DEF Next

MatchInv == TypeOK /\ RequestsKnown /\ StoreFollowsHold /\ CheckoutMatchesHold

LEMMA MatchStep == MatchInv /\ [Next]_vars => MatchInv'
<1> SUFFICES ASSUME MatchInv, [Next]_vars PROVE MatchInv'
  OBVIOUS
<1>0. StoreFollowsHold /\ CheckoutMatchesHold /\ StoreTypes /\ RequestTypes
  BY TypesOf DEF MatchInv
<1>1. TypeOK' /\ RequestsKnown'
  BY TypeStep DEF MatchInv
<1>writes. \/ UNCHANGED <<selected, reservation, edited>>
           \/ selected' = {} /\ reservation' \in {reservation, NoHold} /\ edited' = edited
           \/ \E s \in Seats : handleSeatClick(s)
           \/ \E h \in Holds : HoldGranted(h)
  BY StoreWrites
<1>click. (\E s \in Seats : handleSeatClick(s)) =>
            reservation \notin Holds /\ reservation' = reservation /\ edited' = edited \cup Asking
  BY <1>0 DEF handleSeatClick, StoreFollowsHold
<1>grant. ASSUME NEW h \in Holds, HoldGranted(h)
          PROVE  /\ h \in Asking /\ reservation' = h /\ UNCHANGED <<selected, edited>>
                 /\ hold'[h].pc = "done" /\ hold'[h].seats = hold[h].seats
                 /\ loading'
  BY <1>0, <1>grant DEF HoldGranted, setReservation, Mount, Asking, RequestTypes, HoldRecords
<1>edited. edited \subseteq edited'
  <2>1. CASE UNCHANGED <<selected, reservation, edited>>
    BY <2>1
  <2> QED BY <1>writes, <1>click, <1>grant, <2>1
<1>2. ASSUME NEW h \in Holds, h \notin edited', hold'[h].pc \in {"sent", "granted", "refused"}
      PROVE  selected' \in {{}, hold'[h].seats}
  <2>1. CASE hold'[h].seats = selected /\ UNCHANGED <<selected, edited>>
    BY <2>1
  <2>2. CASE h \in Asking /\ hold'[h].seats = hold[h].seats
    <3>1. selected \in {{}, hold[h].seats}
      BY <1>0, <1>2, <1>edited, <2>2 DEF StoreFollowsHold, Kept
    <3>2. ~(\E s \in Seats : handleSeatClick(s))
      BY <1>2, <1>click, <2>2
    <3>3. selected' \in {selected, {}}
      BY <1>writes, <1>grant, <3>2
    <3> QED BY <2>2, <3>1, <3>3
  <2> QED BY <1>0, <1>2, <2>1, <2>2, HoldsGoOn
<1>3. ASSUME reservation' \in Holds
      PROVE  /\ hold'[reservation'].pc = "done" /\ loading'
             /\ reservation' \notin edited' => selected' \in {{}, hold'[reservation'].seats}
  <2>1. ASSUME NEW h \in Holds, HoldGranted(h)
        PROVE  /\ hold'[reservation'].pc = "done" /\ loading'
               /\ reservation' \notin edited' => selected' \in {{}, hold'[reservation'].seats}
    <3>1. h \notin edited => selected \in {{}, hold[h].seats}
      BY <1>0, <1>grant, <2>1 DEF StoreFollowsHold, Kept
    <3> QED BY <1>grant, <2>1, <3>1
  <2>2. ASSUME reservation' = reservation, selected' \in {selected, {}}
        PROVE  /\ hold'[reservation'].pc = "done" /\ loading'
               /\ reservation' \notin edited' => selected' \in {{}, hold'[reservation'].seats}
    <3>1. hold[reservation].pc = "done" /\ loading
      BY <1>0, <1>3, <2>2 DEF StoreFollowsHold
    <3>2. hold'[reservation] = hold[reservation]
      BY <1>0, <1>3, <2>2, <3>1, HoldsGoOn
    <3>3. reservation \notin edited => selected \in {{}, hold[reservation].seats}
      BY <1>0, <1>3, <2>2 DEF StoreFollowsHold, Kept
    <3>4. loading'
      BY <1>3, <3>1, LoadingEnds, SentinelsAssumption
    <3> QED BY <1>edited, <2>2, <3>1, <3>2, <3>3, <3>4
  <2>3. ~(\E s \in Seats : handleSeatClick(s))
    BY <1>3, <1>click
  <2> QED BY <1>3, <1>writes, <2>1, <2>2, <2>3, SentinelsAssumption
<1>4. ASSUME NEW c \in Orders, order'[c].res \in Holds
      PROVE  /\ hold'[order'[c].res].pc = "done"
             /\ order'[c].res \notin edited' => order'[c].seats = hold'[order'[c].res].seats
  <2>1. PICK h \in Holds : h = order'[c].res
    BY <1>4
  <2>2. CASE order'[c].res = order[c].res /\ order'[c].seats = order[c].seats
    <3>1. hold[h].pc = "done" /\ (h \notin edited => order[c].seats = hold[h].seats)
      BY <1>0, <2>1, <2>2 DEF StoreFollowsHold, CheckoutMatchesHold
    <3>2. hold'[h] = hold[h]
      BY <1>0, <3>1, HoldsGoOn
    <3> QED BY <1>edited, <2>1, <2>2, <3>1, <3>2
  <2>3. CASE /\ order'[c].res = reservation /\ order'[c].seats = selected /\ selected # {}
             /\ UNCHANGED <<hold, edited>>
    <3>1. hold[h].pc = "done" /\ (h \notin edited => selected \in {{}, hold[h].seats})
      BY <1>0, <2>1, <2>3 DEF StoreFollowsHold, Kept
    <3> QED BY <2>1, <2>3, <3>1
  <2> QED BY <1>0, <1>4, <2>2, <2>3, OrdersGoOn
<1>5. StoreFollowsHold'
  BY <1>2, <1>3, <1>4 DEF StoreFollowsHold, Asking, Kept
<1>6. CheckoutMatchesHold'
  BY <1>4 DEF CheckoutMatchesHold
<1> QED BY <1>1, <1>5, <1>6 DEF MatchInv

LEMMA MatchAlways == Spec => []MatchInv
<1>1. Init => MatchInv
  <2>1. Init => StoreFollowsHold /\ CheckoutMatchesHold
    BY SentinelsAssumption DEF Init, StoreFollowsHold, CheckoutMatchesHold, Asking, Kept
  <2> QED BY <2>1, TypeInit DEF MatchInv
<1> QED BY <1>1, MatchStep, PTL DEF Spec

(* Every variable of the browser keeps its type.                           *)
THEOREM SessionTypeCorrect == Spec => []TypeOK
<1>1. MatchInv => TypeOK
  BY DEF MatchInv
<1> QED BY <1>1, MatchAlways, PTL

(* A checkout asks for the seats of the hold that it names, unless the     *)
(* customer clicked on the map while that hold was under way.              *)
THEOREM CheckoutIsWhatWasHeld == Spec => []CheckoutMatchesHold
<1>1. MatchInv => CheckoutMatchesHold
  BY DEF MatchInv
<1> QED BY <1>1, MatchAlways, PTL
-----------------------------------------------------------------------------
(* Prices *)

(* Every row that a showtime's creation makes carries a factor of its own  *)
(* and is of a known type; a factor that says no more than its type does   *)
(* is read back as the same number.                                        *)
LEMMA RowsAreSettled ==
  ASSUME NEW cell \in Cells
  PROVE  /\ RowOfCell(cell) \in Rows
         /\ RowOfCell(cell).factor # 0
         /\ Factor(RowOfCell(cell)) = RowOfCell(cell).factor
<1> DEFINE row == RowOfCell(cell)
<1>1. cell.factor \in Nat /\ cell.type \in Types \cup {"OTHER"}
  BY DEF Cells
<1>2. row.type = (IF cell.type \in Types THEN cell.type ELSE "STANDARD")
       /\ row.factor = Factor(cell) /\ row.type \in Types
  BY <1>1 DEF RowOfCell, Types
<1>3. Factor(cell) \in Nat /\ Factor(cell) # 0
  BY <1>1 DEF Factor, OwnFactor, TypeFactor, Types
<1>4. row \in Rows
  BY <1>2, <1>3 DEF RowOfCell, Rows
<1>5. Factor(row) = row.factor
  <2>1. CASE Factor(cell) # 100
    BY <2>1, <1>2, <1>3 DEF Factor, OwnFactor
  <2>2. CASE Factor(cell) = 100
    <3>1. TypeFactor(cell.type) = 100
      BY <2>2, <1>1 DEF Factor, OwnFactor
    <3>2. TypeFactor(row.type) = 100
      BY <3>1, <1>1, <1>2 DEF TypeFactor, Types
    <3>3. QED BY <3>2, <2>2, <1>2 DEF Factor, OwnFactor
  <2>3. QED BY <2>1, <2>2
<1>6. QED BY <1>2, <1>3, <1>4, <1>5

(* The seat page and the checkout agree on the price of every seat that    *)
(* ShowtimeService.create made, for every base price.                      *)
THEOREM PricesAgree ==
  \A base \in Nat, cell \in Cells : ShownIsCharged(base, cell)
<1> SUFFICES ASSUME NEW base \in Nat, NEW cell \in Cells, base # 0
             PROVE  ClickPrice(base, RowOfCell(cell)) = ChargedPrice(base, RowOfCell(cell))
  BY DEF ShownIsCharged
<1>1. MapPrice(base, RowOfCell(cell)) = Price(base, RowOfCell(cell).factor)
  BY RowsAreSettled DEF MapPrice
<1>2. ClickPrice(base, RowOfCell(cell)) = Price(base, RowOfCell(cell).factor)
  BY <1>1, RowsAreSettled DEF ClickPrice
<1>3. QED BY <1>2, RowsAreSettled DEF ChargedPrice

(* Of the seats that the seeds made, only those whose type has a surcharge *)
(* that their layout does not name are shown at another price than the one *)
(* that is charged, for every base price.                                  *)
THEOREM SeededPricesAgree ==
  \A base \in Nat, cell \in [type : Types, factor : Nat] : SeededIsCharged(base, cell)
<1> SUFFICES ASSUME NEW base \in Nat, NEW cell \in [type : Types, factor : Nat], base # 0,
                    OwnFactor(cell) \/ TypeFactor(cell.type) = 100
             PROVE  ClickPrice(base, SeededRow(cell)) = ChargedPrice(base, SeededRow(cell))
  BY DEF SeededIsCharged
<1> DEFINE row == SeededRow(cell)
<1>1. /\ row.type = cell.type /\ row.factor = (IF cell.factor = 0 THEN 100 ELSE cell.factor)
      /\ row.factor # 0
  BY DEF SeededRow
<1>2. Factor(row) = row.factor
  BY <1>1 DEF Factor, OwnFactor
<1>3. MapPrice(base, row) = Price(base, row.factor)
  BY <1>2 DEF MapPrice
<1>4. ClickPrice(base, row) = Price(base, row.factor)
  BY <1>3, <1>2 DEF ClickPrice
<1>5. QED BY <1>4, <1>1 DEF ChargedPrice
=============================================================================
