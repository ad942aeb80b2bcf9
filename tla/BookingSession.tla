---------------------------- MODULE BookingSession ----------------------------
(***************************************************************************)
(* One customer's browser: the persisted booking store, the seat page with *)
(* its map, countdown and hold button, the checkout page, the payment      *)
(* sandbox and the page of success; for the showtime that links without a  *)
(* showtimeId lead to as well.  Answers come late, in any order, also to   *)
(* pages that have been left: their code still writes the store and still  *)
(* navigates.                                                              *)
(*                                                                         *)
(* The server handles a request in one step here.  Whose the locks are and *)
(* which seats are sold is BookingFlow's subject: here a request may always *)
(* find its seats taken, its hold expired or its seats sold meanwhile.     *)
(***************************************************************************)
EXTENDS Integers

CONSTANTS
  Seats,
  MaxHolds, MaxOrders, MaxCalls,   \* bounds on requests
  MaxLoads,                        \* bound on the seat maps awaited at once
  NoHold, NoOrder

ASSUME CountsAssumption == {MaxHolds, MaxOrders, MaxCalls, MaxLoads} \subseteq Nat

Holds == 1..MaxHolds
Orders == 1..MaxOrders
Calls == 1..MaxCalls

ASSUME SentinelsAssumption == NoHold \notin Holds /\ NoOrder \notin Orders

VARIABLES
  page,          \* where the browser is
  at,            \* the order in the address of the sandbox or of the page of success
  busy,          \* isProcessing: the request that the page awaits, 0 for none
  loading,       \* the seat page has no map yet
  own, old,      \* maps awaited by the seat page that is open, by ones that were left
  selected, reservation,   \* the store
  hold,          \* hold[h]: a request for locks
  order,         \* order[c]: a checkout request and its booking
  call,          \* call[k]: a callback that the sandbox sends
  verdict,       \* what the page of success says
  edited         \* history: holds during which the selection was touched

loads == <<loading, own, old>>
store == <<selected, reservation>>
place == <<page, at, busy, verdict>>
vars == <<place, loads, store, hold, order, call, edited>>

Pages == {"seats", "login", "checkout", "gateway", "success"}

HoldRecords == [pc : {"idle", "sent", "granted", "refused", "done"},
                seats : SUBSET Seats]
OrderRecords == [pc : {"idle", "sent", "booked", "expired", "refused", "known", "done"},
                 res : Holds \cup {NoHold}, seats : SUBSET Seats,
                 status : {"NONE", "PENDING", "PAID", "CANCELLED"}]
CallRecords == [pc : {"idle", "sent", "unheard", "ok", "error", "done"},
                of : Orders \cup {NoOrder}, success : BOOLEAN]

Init ==
  /\ page = "seats" /\ at = NoOrder /\ busy = 0 /\ verdict = "none"
  /\ loading = TRUE
  /\ own = 1 /\ old = 0
  /\ selected = {} /\ reservation = NoHold
  /\ hold = [h \in Holds |-> [pc |-> "idle", seats |-> {}]]
  /\ order = [c \in Orders |-> [pc |-> "idle", res |-> NoHold, seats |-> {},
                                status |-> "NONE"]]
  /\ call = [k \in Calls |-> [pc |-> "idle", of |-> NoOrder, success |-> FALSE]]
  /\ edited = {}
-----------------------------------------------------------------------------
(* Navigation *)

MountBug(p, c) ==
  /\ page' = p /\ at' = c /\ busy' = busy /\ verdict' = "none"
  /\ own + old < MaxLoads \/ p # "seats"
  /\ own' = IF p = "seats" THEN 1 ELSE 0
  /\ old' = own + old
  /\ loading' = TRUE

(* A page is mounted anew; the seat page asks for its map. *)
Mount(p, c) ==
  /\ page' = p /\ at' = c /\ busy' = 0 /\ verdict' = "none"
  /\ own + old < MaxLoads \/ p # "seats"
  /\ own' = IF p = "seats" THEN 1 ELSE 0
  /\ old' = own + old
  /\ loading' = TRUE

Stay == UNCHANGED <<place, loads>>

(* Links, the address bar and the history of the browser *)
Visit ==
  /\ \/ Mount("seats", NoOrder)
     \/ page # "checkout" /\ Mount("checkout", NoOrder)
     \/ \E c \in Orders : /\ order[c].pc = "known" /\ Mount("gateway", c)
  /\ UNCHANGED <<store, hold, order, call, edited>>

HoldOver == [pc |-> "done", seats |-> {}]
OrderOver(pc, status) == [pc |-> pc, res |-> NoHold, seats |-> {}, status |-> status]
CallOver == [pc |-> "done", of |-> NoOrder, success |-> FALSE]
Awaited == {"sent", "granted", "booked", "expired", "refused"}

(* Reloading the tab keeps the store, and nobody awaits the answers any    *)
(* more: what a hold or a checkout still does is unknown to the browser,   *)
(* what a callback does may show on the page of success.                   *)
Reload ==
  /\ Mount(page, at)
  /\ hold' = [h \in Holds |-> IF hold[h].pc \in Awaited THEN HoldOver ELSE hold[h]]
  /\ order' = [c \in Orders |-> IF order[c].pc \in Awaited
                                 THEN OrderOver("done", order[c].status) ELSE order[c]]
  /\ call' = [k \in Calls |->
                 CASE call[k].pc = "sent" -> [call[k] EXCEPT !.pc = "unheard"]
                   [] call[k].pc \in {"ok", "error"} -> CallOver
                   [] OTHER -> call[k]]
  /\ UNCHANGED <<store, edited>>
-----------------------------------------------------------------------------
(* The seat page *)

SetShowtimeBug == selected' = {} /\ UNCHANGED reservation

SetShowtime == selected' = {} /\ reservation' = NoHold

(* A seat that is selected is taken out, another one is put in. *)
toggleSeat(s) ==
  selected' = IF s \in selected THEN selected \ {s} ELSE selected \cup {s}

setReservation(h) == reservation' = h /\ UNCHANGED selected

resetBooking == selected' = {} /\ reservation' = NoHold

(* A map, or the built-in one after a failure, arrives at the page that    *)
(* asked for it.                                                           *)
Load ==
  /\ own > 0 /\ own' = own - 1
  /\ SetShowtime /\ loading' = FALSE
  /\ UNCHANGED <<place, old, hold, order, call, edited>>

(* One that a page awaited which was left still resets the store. *)
LateLoad ==
  /\ old > 0 /\ old' = old - 1
  /\ SetShowtime
  /\ UNCHANGED <<place, loading, own, hold, order, call, edited>>

Asking == {h \in Holds : hold[h].pc \in {"sent", "granted", "refused"}}

(* What the map shows of a seat may be long out of date (SeatBoard), so   *)
(* that any seat may be one that it lets the customer choose.              *)
handleSeatClick(s) ==
  /\ page = "seats" /\ ~loading
  /\ toggleSeat(s)
  /\ edited' = edited \cup Asking
  /\ UNCHANGED <<place, loads, reservation, hold, order, call>>

(* Ten minutes after the first selection it is dropped, not its hold. *)
CountdownEnds ==
  /\ page = "seats" /\ selected # {}
  /\ own + old < MaxLoads
  /\ selected' = {} /\ own' = own + 1
  /\ UNCHANGED <<place, loading, old, reservation, hold, order, call, edited>>

Unused(f, x) == f[x].pc = "idle" /\ \A y \in DOMAIN f : y < x => f[y].pc # "idle"

(* The button is there once there is a map; only an empty selection        *)
(* disables it, not a hold that is under way.                              *)
MayHold == page = "seats" /\ ~loading /\ selected # {}

handleHoldSeats(h) ==
  /\ MayHold
  /\ Unused(hold, h)
  /\ hold' = [hold EXCEPT ![h] = [pc |-> "sent", seats |-> selected]]
  /\ Stay /\ UNCHANGED <<store, order, call, edited>>

(* Paying needs something to pay for, and is disabled while it is awaited. *)
MayCheckOut == page = "checkout" /\ selected # {} /\ busy = 0

(* Holding and paying need a login; nothing else changes. *)
SendToLogin ==
  /\ MayHold \/ MayCheckOut
  /\ Mount("login", NoOrder)
  /\ UNCHANGED <<store, hold, order, call, edited>>

(* holdSeats; an answer that is lost is a refusal to the page. *)
ServeHold(h) ==
  /\ hold[h].pc = "sent"
  /\ \E answer \in {"granted", "refused"} : hold' = [hold EXCEPT ![h].pc = answer]
  /\ Stay /\ UNCHANGED <<store, order, call, edited>>

HoldGranted(h) ==
  /\ hold[h].pc = "granted"
  /\ setReservation(h)
  /\ hold' = [hold EXCEPT ![h].pc = "done"]
  /\ Mount("checkout", NoOrder)
  /\ UNCHANGED <<order, call, edited>>

(* The page, left or not, asks for its map again. *)
HoldRefused(h) ==
  /\ hold[h].pc = "refused"
  /\ own + old < MaxLoads
  /\ hold' = [hold EXCEPT ![h] = HoldOver]
  /\ IF page = "seats" THEN own' = own + 1 /\ UNCHANGED old ELSE old' = old + 1 /\ UNCHANGED own
  /\ UNCHANGED <<place, loading, store, order, call, edited>>
-----------------------------------------------------------------------------
(* The checkout page *)

(* The effect of the page: nothing selected, nothing to do here. *)
Bounce ==
  /\ page = "checkout" /\ selected = {}
  /\ Mount("seats", NoOrder)
  /\ UNCHANGED <<store, hold, order, call, edited>>

handleCheckout(c) ==
  /\ MayCheckOut
  /\ Unused(order, c)
  /\ order' = [order EXCEPT ![c] =
                 [pc |-> "sent", res |-> reservation, seats |-> selected, status |-> "NONE"]]
  /\ busy' = c
  /\ UNCHANGED <<page, at, verdict, loads, store, hold, call, edited>>

(* A checkout books, or finds the hold expired, or fails otherwise, which   *)
(* it may also be taken to have done when its answer is lost.              *)
ServeCheckout(c) ==
  LET o == order[c] IN
  /\ o.pc = "sent"
  /\ \E answer \in {"booked", "expired", "refused"} :
       \E status \in {"PENDING", "NONE"} :
         /\ answer = "booked" => status = "PENDING"
         /\ answer = "expired" => status = "NONE" /\ o.res # NoHold
         /\ order' = [order EXCEPT ![c] = OrderOver(answer, status)]
  /\ Stay /\ UNCHANGED <<store, hold, call, edited>>

(* resetBooking empties the selection on which the effect of a checkout    *)
(* page that is still open reacts: its navigation and the one to the       *)
(* sandbox meet, and one of them is the last.                              *)
CheckoutBooked(c) ==
  /\ order[c].pc = "booked"
  /\ order' = [order EXCEPT ![c].pc = "known"]
  /\ resetBooking
  /\ Mount("gateway", c) \/ (page = "checkout" /\ Mount("seats", NoOrder))
  /\ UNCHANGED <<hold, call, edited>>

(* The error filter wraps code and message into `error`; the page looks    *)
(* for them one level above, and for `expired` in Axios' own message.      *)
Seen(answer) == [code |-> "undefined", saysExpired |-> FALSE]
SeemsExpired(answer) ==
  Seen(answer).code = "SEAT_LOCK_EXPIRED_OR_NOT_OWNED" \/ Seen(answer).saysExpired

CheckoutRefused(c) ==
  /\ order[c].pc \in {"expired", "refused"}
  /\ order' = [order EXCEPT ![c].pc = "done"]
  /\ IF SeemsExpired(order[c].pc) THEN Mount("seats", NoOrder)
     ELSE /\ busy' = IF page = "checkout" /\ busy = c THEN 0 ELSE busy
          /\ UNCHANGED <<page, at, verdict, loads>>
  /\ UNCHANGED <<store, hold, call, edited>>
-----------------------------------------------------------------------------
(* The sandbox and the page of success *)

(* Both buttons of the sandbox are disabled while an answer is awaited. *)
MayPay == page = "gateway" /\ busy = 0

handleSimulatePayment(k, success) ==
  /\ MayPay
  /\ Unused(call, k)
  /\ call' = [call EXCEPT ![k] = [pc |-> "sent", of |-> at, success |-> success]]
  /\ busy' = k
  /\ UNCHANGED <<page, at, verdict, loads, store, hold, order, edited>>

SetStatus(c, status) == order' = [order EXCEPT ![c].status = status]

Replies(k, answers) ==
  IF call[k].pc = "sent"
  THEN \E answer \in answers \cup {"error"} : call' = [call EXCEPT ![k].pc = answer]
  ELSE call' = [call EXCEPT ![k] = CallOver]

(* The callback: SUCCESS turns a pending order PAID unless one of its      *)
(* seats is sold already; CANCELLED cancels a pending order and answers    *)
(* any other without an error.                                             *)
ServeCall(k) ==
  LET c == call[k].of IN
  /\ call[k].pc \in {"sent", "unheard"}
  /\ \/ /\ order[c].status = "PENDING"
        /\ SetStatus(c, IF call[k].success THEN "PAID" ELSE "CANCELLED")
        /\ Replies(k, {"ok"})
     \/ /\ order[c].status # "PENDING" \/ call[k].success
        /\ Replies(k, IF order[c].status = "PAID" \/ ~call[k].success THEN {"ok"} ELSE {})
        /\ UNCHANGED order
  /\ Stay /\ UNCHANGED <<store, hold, edited>>

CallAnsweredBug(k) ==
  /\ call[k].pc = "ok"
  /\ call' = [call EXCEPT ![k] = CallOver]
  /\ Mount("success", call[k].of)
  /\ UNCHANGED <<store, hold, order, edited>>

CallAnswered(k) ==
  /\ call[k].pc = "ok"
  /\ call' = [call EXCEPT ![k] = CallOver]
  /\ IF call[k].success THEN Mount("success", call[k].of) ELSE Mount("seats", NoOrder)
  /\ UNCHANGED <<store, hold, order, edited>>

CallFailed(k) ==
  /\ call[k].pc = "error"
  /\ call' = [call EXCEPT ![k] = CallOver]
  /\ busy' = IF page = "gateway" /\ busy = k THEN 0 ELSE busy
  /\ UNCHANGED <<page, at, verdict, loads, store, hold, order, edited>>

(* What the page of success says of a booking; one that it could not read  *)
(* (no status) it takes for paid.                                          *)
Says(status) == IF status \in {"PAID", "NONE"} THEN "confirmed" ELSE "pending"

getBookingById(c) == order[c].status

ShowBooking ==
  /\ page = "success" /\ verdict = "none"
  /\ verdict' \in {Says("NONE"), Says(getBookingById(at))}
  /\ UNCHANGED <<page, at, busy, loads, store, hold, order, call, edited>>

Next ==
  \/ Visit \/ Reload \/ Load \/ LateLoad \/ CountdownEnds \/ SendToLogin \/ Bounce \/ ShowBooking
  \/ \E s \in Seats : handleSeatClick(s)
  \/ \E h \in Holds : handleHoldSeats(h) \/ ServeHold(h) \/ HoldGranted(h) \/ HoldRefused(h)
  \/ \E c \in Orders : handleCheckout(c) \/ ServeCheckout(c) \/ CheckoutBooked(c) \/ CheckoutRefused(c)
  \/ \E k \in Calls :
       \/ \E success \in BOOLEAN : handleSimulatePayment(k, success)
       \/ ServeCall(k) \/ CallAnswered(k) \/ CallFailed(k)

Spec == Init /\ [][Next]_vars
-----------------------------------------------------------------------------
(* Properties *)

(* Types of the pages, of the store and of the requests.                   *)
TypeOK ==
  /\ page \in Pages /\ at \in Orders \cup {NoOrder}
  /\ busy \in {0} \cup IF page = "checkout" THEN Orders ELSE IF page = "gateway" THEN Calls ELSE {}
  /\ (at # NoOrder) = (page \in {"gateway", "success"})
  /\ verdict \in {"none", "confirmed", "pending"}
  /\ loading \in BOOLEAN
  /\ own \in Nat /\ old \in Nat
  /\ selected \subseteq Seats /\ reservation \in Holds \cup {NoHold}
  /\ hold \in [Holds -> HoldRecords]
  /\ order \in [Orders -> OrderRecords]
  /\ call \in [Calls -> CallRecords]
  /\ edited \subseteq Holds

(* What the page of success confirms is paid: although it takes a booking  *)
(* that it cannot read for paid, answers come late and to other pages, and *)
(* one order may have several callbacks.                                   *)
ConfirmedIsPaid ==
  page = "success" /\ verdict = "confirmed" => order[at].status = "PAID"

(* A checkout asks for the seats of the reservation it names, whatever     *)
(* maps, countdowns and other holds wrote to the store since, unless the   *)
(* customer touched the selection while the hold was under way: nothing    *)
(* disables the map in the meantime.                                       *)
CheckoutMatchesHold ==
  \A c \in Orders :
    order[c].res \in Holds \ edited => order[c].seats = hold[order[c].res].seats

(* A customer whose hold has expired is sent back to the seats: "The       *)
(* frontend detects the expired code and prompts the user to reselect".    *)
ExpiredIsPrompted ==
  [][\A c \in Orders :
       CheckoutRefused(c) /\ order[c].pc = "expired" /\ page = "checkout" /\ busy = c
         => page' = "seats"]_vars
=============================================================================
