---------------------------- MODULE BookingFlow ----------------------------
(***************************************************************************)
(* Selling the seats of one showtime: BookingService (hold, release,       *)
(* checkout) and PaymentService (success and cancel callbacks) over the    *)
(* Redis seat locks and the PostgreSQL tables showtime_seats, bookings and *)
(* tickets.  A request is a process of the backend; it stops at every      *)
(* await, so between any two of its steps other requests run.  One step is *)
(* one Redis command or one database statement or transaction together     *)
(* with the synchronous code up to the next await.  A payment transaction  *)
(* is one step: it only makes conditional updates, which the row locks of  *)
(* READ COMMITTED serialise.  The checkout transaction reads plainly, so   *)
(* its reads and its commit are separate steps.                            *)
(*                                                                         *)
(* Broadcasts are added by SeatBoard.  The tickets of a booking are        *)
(* created with it and carry its seats: booking[b].seats stands for both.  *)
(*                                                                         *)
(* A definition named ...Bug is not part of the model: it is a plausible   *)
(* slip in the definition that follows it, which mutation runs put in its  *)
(* place to show that a property notices.                                  *)
(***************************************************************************)
EXTENDS SeatLocks, Integers, FiniteSets

CONSTANTS
  Bookings,     \* checkout requests; each creates at most one booking
  Callbacks,    \* deliveries of payment callbacks, duplicates included
  NoBooking,    \* target of a callback not delivered yet
  MaxFaults     \* how many crashes, Redis and database failures may happen

ASSUME NoBookingAssumption == NoBooking \notin Bookings
ASSUME MaxFaultsAssumption == MaxFaults \in Nat

VARIABLES
  started,   \* the showtime's startTime has passed
  seat,      \* seat[s]: showtime_seats.status; HOLDING and RESERVED are never written
  booking,   \* booking[b]: the row of bookings with the seats of its tickets
  hold,      \* hold[r]: the holdSeats request that minted token r
  check,     \* check[b]: the checkout request that creates booking b
  cb,        \* cb[k]: the k-th delivery of a payment callback
  faults     \* failures so far

vars == <<lock, gone, started, seat, booking, hold, check, cb, faults>>

SeatSets == (SUBSET Seats) \ {{}}

HoldBusy  == {"validating", "acquiring", "rollback"}
HoldDone  == {"rejected", "conflict", "held", "error", "lost"}
CheckBusy == {"verifying", "starting", "reading", "creating"}
CheckDone == {"rejected", "created", "error", "lost"}
CbBusy    == {"reading", "committing", "cleaning"}
CbDone    == {"paid", "cancelled", "alreadyPaid", "refused", "conflict",
              "error", "lost"}

BookingRow == [status : {"NONE", "PENDING_PAYMENT", "PAID", "CANCELLED"},
               seats  : SUBSET Seats]
HoldRequests == [pc   : {"idle"} \cup HoldBusy \cup HoldDone,
                 want : SUBSET Seats,      \* seatIds of the request
                 got  : SUBSET Seats]      \* lockedSeats
CheckoutRequests == [pc   : {"idle"} \cup CheckBusy \cup CheckDone,
                     res  : Reservations \cup {NoRes},
                     want : SUBSET Seats,
                     todo : SUBSET Seats]  \* seats whose holder is still to be read
CallbackRequests == [pc     : {"idle"} \cup CbBusy \cup CbDone,
                     kind   : {"pay", "cancel"},
                     target : Bookings \cup {NoBooking},
                     todo   : SUBSET Seats]  \* tickets still to be cleaned up

Init ==
  /\ LockInit
  /\ started = FALSE
  /\ seat \in [Seats -> {"AVAILABLE", "BLOCKED"}]
  /\ booking = [b \in Bookings |-> [status |-> "NONE", seats |-> {}]]
  /\ hold = [r \in Reservations |-> [pc |-> "idle", want |-> {}, got |-> {}]]
  /\ check = [b \in Bookings |->
                [pc |-> "idle", res |-> NoRes, want |-> {}, todo |-> {}]]
  /\ cb = [k \in Callbacks |->
             [pc |-> "idle", kind |-> "pay", target |-> NoBooking, todo |-> {}]]
  /\ faults = 0

-----------------------------------------------------------------------------
(* holdSeats *)

HoldSet(r, pc, got) ==
  hold' = [hold EXCEPT ![r] = [pc |-> pc, want |-> hold[r].want, got |-> got]]
HoldPc(r, pc) == HoldSet(r, pc, hold[r].got)

(* A token that clients can know: it is in the answer of holdSeats, and    *)
(* the seat map shows it as soon as one lock carries it.  (A request that  *)
(* died before it had a lock counts too; its token opens nothing.)         *)
Minted(r) == hold[r].pc \notin {"idle", "validating", "rejected"}

(* The request arrives and its showtime is read. *)
HoldRequest(r, want) ==
  /\ hold[r].pc = "idle"
  /\ hold' = [hold EXCEPT ![r] =
                [pc   |-> IF started THEN "rejected" ELSE "validating",
                 want |-> want,
                 got  |-> {}]]
  /\ UNCHANGED <<lock, gone, started, seat, booking, check, cb, faults>>

(* No SOLD or BLOCKED seat may be held or checked out. *)
Sellable(S) == \A s \in S : seat[s] \notin {"SOLD", "BLOCKED"}

HoldReadSeats(r) ==
  /\ hold[r].pc = "validating"
  /\ HoldPc(r, IF Sellable(hold[r].want) THEN "acquiring" ELSE "rejected")
  /\ UNCHANGED <<lock, gone, started, seat, booking, check, cb, faults>>

HoldLosesBug(r) == HoldPc(r, "conflict")

(* A seat is taken: roll back what was won, in any order. *)
HoldLoses(r) ==
  HoldPc(r, IF hold[r].got = {} THEN "conflict" ELSE "rollback")

HoldAcquire(r, s) ==
  /\ hold[r].pc = "acquiring"
  /\ s \in hold[r].want \ hold[r].got
  /\ \/ /\ Acquire(s, r)
        /\ LET got == hold[r].got \cup {s}
           IN HoldSet(r, IF hold[r].want = got THEN "held" ELSE "acquiring", got)
     \/ /\ Occupied(s)
        /\ HoldLoses(r)
  /\ UNCHANGED <<started, seat, booking, check, cb, faults>>

(* One round of the rollback loop; its result is not looked at. *)
HoldRollback(r, s) ==
  /\ hold[r].pc = "rollback"
  /\ s \in hold[r].got
  /\ Release(s, r)
  /\ HoldSet(r, IF hold[r].got = {s} THEN "conflict" ELSE "rollback", hold[r].got \ {s})
  /\ UNCHANGED <<started, seat, booking, check, cb, faults>>

(* releaseSeats: one round of its loop.  Rounds are independent, so a      *)
(* request is any sequence of them, cut short by an error or a crash; a    *)
(* round that does not own the lock changes nothing.                       *)
ReleaseSeat(r, s) ==
  /\ Minted(r)
  /\ Release(s, r)
  /\ UNCHANGED <<started, seat, booking, hold, check, cb, faults>>

-----------------------------------------------------------------------------
(* checkout *)

CheckSet(b, pc, todo) ==
  check' = [check EXCEPT ![b] = [pc   |-> pc,            res  |-> check[b].res,
                                 want |-> check[b].want, todo |-> todo]]
CheckPc(b, pc) == CheckSet(b, pc, check[b].todo)

CheckoutRequest(b, r, want) ==
  /\ check[b].pc = "idle"
  /\ Minted(r)
  /\ check' = [check EXCEPT ![b] =
                 [pc |-> "verifying", res |-> r, want |-> want, todo |-> want]]
  /\ UNCHANGED <<lock, gone, started, seat, booking, hold, cb, faults>>

OwnedByBug(s, r) == lock[s] # NoRes

(* The holder check of one seat: the lock is there and carries the token. *)
OwnedBy(s, r) == HeldBy(s, r)
CheckoutVerify(b, s) ==
  /\ check[b].pc = "verifying"
  /\ s \in check[b].todo
  /\ \/ /\ OwnedBy(s, check[b].res)
        /\ CheckSet(b, IF check[b].todo = {s} THEN "starting" ELSE "verifying",
                    check[b].todo \ {s})
     \/ /\ ~OwnedBy(s, check[b].res)
        /\ CheckPc(b, "rejected")
  /\ UNCHANGED <<lock, gone, started, seat, booking, hold, cb, faults>>

(* The transaction reads the showtime, *)
CheckoutReadShowtime(b) ==
  /\ check[b].pc = "starting"
  /\ CheckPc(b, IF started THEN "rejected" ELSE "reading")
  /\ UNCHANGED <<lock, gone, started, seat, booking, hold, cb, faults>>

(* then the seats, *)
CheckoutReadSeats(b) ==
  /\ check[b].pc = "reading"
  /\ CheckPc(b, IF Sellable(check[b].want) THEN "creating" ELSE "rejected")
  /\ UNCHANGED <<lock, gone, started, seat, booking, hold, cb, faults>>

(* and creates the booking and one UNUSED ticket per seat. *)
CreateBooking(b) ==
  booking' = [booking EXCEPT
    ![b] = [status |-> "PENDING_PAYMENT", seats |-> check[b].want]]

CheckoutCommit(b) ==
  /\ check[b].pc = "creating"
  /\ CreateBooking(b)
  /\ CheckPc(b, "created")
  /\ UNCHANGED <<lock, gone, started, seat, hold, cb, faults>>

-----------------------------------------------------------------------------
(* processSuccessfulPayment and processFailedPayment *)

CbSet(k, pc, todo) ==
  cb' = [cb EXCEPT ![k] = [pc     |-> pc,           kind |-> cb[k].kind,
                           target |-> cb[k].target, todo |-> todo]]
CbPc(k, pc) == CbSet(k, pc, cb[k].todo)

StatusOf(k) == booking[cb[k].target].status
SeatsOf(k) == booking[cb[k].target].seats

(* The provider (or the customer's browser) calls with the signed URL.     *)
CallbackArrives(k, kind, b) ==
  /\ cb[k].pc = "idle"
  /\ booking[b].status # "NONE"
  /\ cb' = [cb EXCEPT ![k] =
              [pc |-> "reading", kind |-> kind, target |-> b, todo |-> {}]]
  /\ UNCHANGED <<lock, gone, started, seat, booking, hold, check, faults>>

(* The status is looked at before amount and signature, which may be       *)
(* wrong.                                                                  *)
PayRead(k) ==
  /\ cb[k].pc = "reading" /\ cb[k].kind = "pay"
  /\ \/ StatusOf(k) = "PAID" /\ CbPc(k, "paid")
     \/ StatusOf(k) # "PAID" /\ CbPc(k, "refused")
     \/ StatusOf(k) = "PENDING_PAYMENT" /\ CbPc(k, "committing")
  /\ UNCHANGED <<lock, gone, started, seat, booking, hold, check, faults>>

CancelRead(k) ==
  /\ cb[k].pc = "reading" /\ cb[k].kind = "cancel"
  /\ \/ StatusOf(k) = "PAID" /\ CbPc(k, "alreadyPaid")
     \/ StatusOf(k) # "PAID" /\ CbPc(k, "refused")
     \/ StatusOf(k) # "PAID" /\ CbPc(k, "committing")
  /\ UNCHANGED <<lock, gone, started, seat, booking, hold, check, faults>>

FinalizableBug(S) == \A s \in S : seat[s] # "BLOCKED"

(* The seats that the finalising update may turn SOLD; all or none. *)
Finalizable(S) == \A s \in S : seat[s] = "AVAILABLE"

DecideBooking(b, status) == booking' = [booking EXCEPT ![b].status = status]

SellSeatsBug(S) == seat' = [s \in Seats |-> IF s \in S THEN "RESERVED" ELSE seat[s]]

SellSeats(S) == seat' = [s \in Seats |-> IF s \in S THEN "SOLD" ELSE seat[s]]

(* Start the post-commit loop over the tickets. *)
CleanUp(k) == CbSet(k, "cleaning", SeatsOf(k))

PayWinsBug(k) ==
  \/ /\ Finalizable(SeatsOf(k))
     /\ DecideBooking(cb[k].target, "PAID")
     /\ SellSeats(SeatsOf(k))
     /\ CleanUp(k)
  \/ /\ ~Finalizable(SeatsOf(k))
     /\ seat' = [s \in Seats |-> IF s \in SeatsOf(k) THEN "AVAILABLE" ELSE seat[s]]
     /\ CbPc(k, "conflict")
     /\ UNCHANGED booking

(* The conditional update PENDING_PAYMENT -> PAID finds the row: the seats *)
(* must follow, or everything rolls back.                                  *)
PayWins(k) ==
  \/ /\ Finalizable(SeatsOf(k))
     /\ DecideBooking(cb[k].target, "PAID")
     /\ SellSeats(SeatsOf(k))
     /\ CleanUp(k)
  \/ /\ ~Finalizable(SeatsOf(k))
     /\ CbPc(k, "conflict")
     /\ UNCHANGED <<booking, seat>>

PayLosesBug(k) == CleanUp(k) /\ UNCHANGED <<booking, seat>>

(* It finds no row: somebody else decided the booking meanwhile. *)
PayLoses(k) ==
  /\ \/ StatusOf(k) = "PAID" /\ CleanUp(k)
     \/ StatusOf(k) # "PAID" /\ CbPc(k, "conflict")
  /\ UNCHANGED <<booking, seat>>

PayCommit(k) ==
  /\ cb[k].pc = "committing" /\ cb[k].kind = "pay"
  /\ \/ StatusOf(k) = "PENDING_PAYMENT" /\ PayWins(k)
     \/ StatusOf(k) # "PENDING_PAYMENT" /\ PayLoses(k)
  /\ UNCHANGED <<lock, gone, started, hold, check, faults>>

CancellableBug(k) == TRUE

(* The cancelling update has the same condition; the answer is the same    *)
(* when it finds no row.                                                   *)
Cancellable(k) == StatusOf(k) = "PENDING_PAYMENT"

CancelCommit(k) ==
  /\ cb[k].pc = "committing" /\ cb[k].kind = "cancel"
  /\ \/ /\ Cancellable(k)
        /\ DecideBooking(cb[k].target, "CANCELLED")
        /\ CleanUp(k)
     \/ /\ ~Cancellable(k)
        /\ CbPc(k, "cancelled")
        /\ UNCHANGED booking
  /\ UNCHANGED <<lock, gone, started, seat, hold, check, faults>>

Answer(k) == IF cb[k].kind = "pay" THEN "paid" ELSE "cancelled"

(* One round of the post-commit loop. *)
CallbackCleanup(k, s) ==
  /\ cb[k].pc = "cleaning"
  /\ s \in cb[k].todo
  /\ ForceRelease(s)
  /\ CbSet(k, IF cb[k].todo = {s} THEN Answer(k) ELSE "cleaning", cb[k].todo \ {s})
  /\ UNCHANGED <<started, seat, booking, hold, check, faults>>

-----------------------------------------------------------------------------
(* Failures.  A failed command or transaction had no effect, or it took    *)
(* effect and only its reply was lost.                                     *)

Fault ==
  /\ faults < MaxFaults
  /\ faults' = faults + 1

(* The loop has no handler: the exception leaves holdSeats at once.  The   *)
(* client library sends a command again when the connection broke, so a    *)
(* SET NX can also be refused because of its own first copy.               *)
HoldFault(r) ==
  /\ Fault
  /\ hold[r].pc \in HoldBusy
  /\ \/ HoldPc(r, "error") /\ UNCHANGED <<lock, gone>>
     \/ /\ hold[r].pc = "acquiring"
        /\ \E s \in hold[r].want \ hold[r].got :
             /\ Acquire(s, r)
             /\ HoldPc(r, "error") \/ HoldLoses(r)
     \/ /\ hold[r].pc = "rollback"
        /\ \E s \in hold[r].got : Release(s, r)
        /\ HoldPc(r, "error")
  /\ UNCHANGED <<started, seat, booking, check, cb>>

CheckoutFault(b) ==
  /\ Fault
  /\ check[b].pc \in CheckBusy
  /\ CheckPc(b, "error")
  /\ \/ UNCHANGED booking
     \/ check[b].pc = "creating" /\ CreateBooking(b)
  /\ UNCHANGED <<lock, gone, started, seat, hold, cb>>

(* Before the commit the exception reaches the caller, also when the       *)
(* commit itself took effect.                                              *)
CommitFault(k) ==
  /\ Fault
  /\ cb[k].pc \in {"reading", "committing"}
  /\ CbPc(k, "error")
  /\ \/ UNCHANGED <<booking, seat>>
     \/ /\ cb[k].pc = "committing" /\ cb[k].kind = "pay"
        /\ StatusOf(k) = "PENDING_PAYMENT" /\ Finalizable(SeatsOf(k))
        /\ DecideBooking(cb[k].target, "PAID")
        /\ SellSeats(SeatsOf(k))
     \/ /\ cb[k].pc = "committing" /\ cb[k].kind = "cancel"
        /\ Cancellable(k)
        /\ DecideBooking(cb[k].target, "CANCELLED")
        /\ UNCHANGED seat
  /\ UNCHANGED <<lock, gone, started, hold, check>>

(* After the commit it ends the loop, is logged, and the answer stands. *)
CleanupFault(k) ==
  /\ Fault
  /\ cb[k].pc = "cleaning"
  /\ CbPc(k, Answer(k))
  /\ \/ UNCHANGED <<lock, gone>>
     \/ \E s \in cb[k].todo : ForceRelease(s)
  /\ UNCHANGED <<started, seat, booking, hold, check>>

(* The backend dies: Redis and PostgreSQL keep what they have, the         *)
(* requests in flight are gone and nothing resumes them.                   *)
Crash ==
  /\ Fault
  /\ hold'  = [r \in Reservations |->
                 IF hold[r].pc \in HoldBusy
                   THEN [hold[r] EXCEPT !.pc = "lost"] ELSE hold[r]]
  /\ check' = [b \in Bookings |->
                 IF check[b].pc \in CheckBusy
                   THEN [check[b] EXCEPT !.pc = "lost"] ELSE check[b]]
  /\ cb'    = [k \in Callbacks |->
                 IF cb[k].pc \in CbBusy
                   THEN [cb[k] EXCEPT !.pc = "lost"] ELSE cb[k]]
  /\ UNCHANGED <<lock, gone, started, seat, booking>>

-----------------------------------------------------------------------------
(* Time *)

LockExpires(s) ==
  /\ RunOut(s)
  /\ UNCHANGED <<started, seat, booking, hold, check, cb, faults>>

ShowtimeStarts ==
  /\ ~started
  /\ started' = TRUE
  /\ UNCHANGED <<lock, gone, seat, booking, hold, check, cb, faults>>

-----------------------------------------------------------------------------
(* What the server does with a request once it has arrived. *)

HoldStep(r) ==
  \/ HoldReadSeats(r)
  \/ \E s \in Seats : HoldAcquire(r, s) \/ HoldRollback(r, s)

CheckoutStep(b) ==
  \/ \E s \in Seats : CheckoutVerify(b, s)
  \/ CheckoutReadShowtime(b)
  \/ CheckoutReadSeats(b)
  \/ CheckoutCommit(b)

CallbackStep(k) ==
  \/ PayRead(k) \/ PayCommit(k)
  \/ CancelRead(k) \/ CancelCommit(k)
  \/ \E s \in Seats : CallbackCleanup(k, s)

(* What clients and the payment provider send, whenever they like. *)
Arrivals ==
  \/ \E r \in Reservations, want \in SeatSets : HoldRequest(r, want)
  \/ \E r \in Reservations, s \in Seats : ReleaseSeat(r, s)
  \/ \E b \in Bookings, r \in Reservations, want \in SeatSets :
       CheckoutRequest(b, r, want)
  \/ \E k \in Callbacks, kind \in {"pay", "cancel"}, b \in Bookings :
       CallbackArrives(k, kind, b)

Failures ==
  \/ \E r \in Reservations : HoldFault(r)
  \/ \E b \in Bookings : CheckoutFault(b)
  \/ \E k \in Callbacks : CommitFault(k) \/ CleanupFault(k)
  \/ Crash

Next ==
  \/ Arrivals
  \/ \E r \in Reservations : HoldStep(r)
  \/ \E b \in Bookings : CheckoutStep(b)
  \/ \E k \in Callbacks : CallbackStep(k)
  \/ Failures
  \/ \E s \in Seats : LockExpires(s)
  \/ ShowtimeStarts

(* The event loop gets to every request it has accepted.  Nobody has to    *)
(* send anything, and no lock has to run out.                              *)
Fairness ==
  /\ \A r \in Reservations : WF_vars(HoldStep(r))
  /\ \A b \in Bookings : WF_vars(CheckoutStep(b))
  /\ \A k \in Callbacks : WF_vars(CallbackStep(k))

Spec == Init /\ [][Next]_vars
LiveSpec == Spec /\ Fairness

-----------------------------------------------------------------------------
(* Every variable holds a value of its kind. *)
TypeOK ==
  /\ LockTypeOK
  /\ started \in BOOLEAN
  /\ seat \in [Seats -> {"AVAILABLE", "SOLD", "BLOCKED"}]
  /\ booking \in [Bookings -> BookingRow]
  /\ hold \in [Reservations -> HoldRequests]
  /\ check \in [Bookings -> CheckoutRequests]
  /\ cb \in [Callbacks -> CallbackRequests]
  /\ faults \in 0..MaxFaults

(* No seat is sold twice, although neither checkout nor payment holds a    *)
(* lock while it works and two bookings may name the same seat: the        *)
(* conditional seat update of processSuccessfulPayment is the last word.   *)
NoDoubleSale ==
  \A a, b \in Bookings :
    /\ a # b
    /\ booking[a].status = "PAID"
    /\ booking[b].status = "PAID"
    => booking[a].seats \cap booking[b].seats = {}

(* bookings and showtime_seats never disagree: a seat is SOLD exactly when *)
(* a PAID booking has a ticket for it, through every failed, repeated or   *)
(* racing callback.                                                        *)
SoldIffPaid ==
  \A s \in Seats :
    seat[s] = "SOLD" <=>
      \E b \in Bookings : booking[b].status = "PAID" /\ s \in booking[b].seats

(* A booking is only for seats that the hold behind its token asked for:   *)
(* checkout's holder check, one seat at a time, cannot be satisfied by     *)
(* somebody else's lock.                                                   *)
BookedSeatsWereHeld ==
  \A b \in Bookings :
    booking[b].status # "NONE" =>
      booking[b].seats \subseteq hold[check[b].res].want

(* As long as nothing failed, a hold that was refused leaves no lock       *)
(* behind, however its rollback interleaves with other requests and with   *)
(* locks running out (holdSeats, mechanism 5).                             *)
RefusedHoldHoldsNothing ==
  faults = 0 =>
    \A r \in Reservations, s \in Seats :
      hold[r].pc \in {"rejected", "conflict"} => lock[s] # r

(* What the provider was told about a payment, and the loop that releases  *)
(* locks and announces the outcome, agree with the booking for ever.       *)
PaidAnswersStayTrue ==
  \A k \in Callbacks :
    LET status == booking[cb[k].target].status IN
    /\ cb[k].kind = "pay" /\ cb[k].pc \in {"cleaning", "paid"} => status = "PAID"
    /\ cb[k].kind = "cancel" /\ cb[k].pc = "cleaning" => status = "CANCELLED"
    /\ cb[k].pc = "alreadyPaid" => status = "PAID"
    /\ cb[k].pc = "cancelled" => status \in {"PAID", "CANCELLED"}

(* A payment refused with a conflict is refused for good: no later or      *)
(* repeated callback turns the same booking PAID, so the customer can be   *)
(* refunded without risk.                                                  *)
ConflictIsFinal ==
  \A k \in Callbacks :
    cb[k].pc = "conflict" => booking[cb[k].target].status # "PAID"

(* A hold keeps every lock that it won until the TTL runs out, somebody    *)
(* with its token gives it back, or a booking of that seat is decided (the *)
(* loop behind the payment removes locks whoever owns them): no release,   *)
(* rollback or acquisition of another hold takes it away, however late it  *)
(* comes (compare-and-delete, SET NX).                                     *)
LocksLostOnlyByRight ==
  \A r \in Reservations : \A s \in hold[r].got :
    \/ lock[s] = r
    \/ s \in gone[r]
    \/ \E b \in Bookings :
         booking[b].status \in {"PAID", "CANCELLED"} /\ s \in booking[b].seats

(* The locks, requests and callbacks implement a plain sale of seats.      *)
Sale == INSTANCE SeatSale WITH
  Orders <- Bookings,
  free   <- {s \in Seats : seat[s] = "AVAILABLE"},
  order  <- booking

RefinesSeatSale == Sale!SaleSpec

(* Every request that was accepted is answered: no rollback, verification  *)
(* or cleanup waits for something that may never come.                     *)
EveryRequestAnswered ==
  /\ \A r \in Reservations : hold[r].pc \in HoldBusy ~> hold[r].pc \in HoldDone
  /\ \A b \in Bookings : check[b].pc \in CheckBusy ~> check[b].pc \in CheckDone
  /\ \A k \in Callbacks : cb[k].pc \in CbBusy ~> cb[k].pc \in CbDone

-----------------------------------------------------------------------------
(* Statements of the documentation that the code does not keep. *)

LosesLock(r, s) == lock[s] = r /\ lock'[s] # r

(* Only the owner's release, the TTL or the sale of the seat removes a     *)
(* lock; in particular a slow client never removes a lock that another     *)
(* reservation acquired after a timeout (DECISIONS.md, decision 3; comment *)
(* of forceReleaseSeatLock).                                               *)
NoForeignRelease ==
  [][\A r \in Reservations, s \in Seats :
       LosesLock(r, s) =>
         \/ s \in gone'[r]
         \/ seat[s] = "SOLD"
         \/ \E b \in Bookings : check[b].res = r /\ booking[b].status = "CANCELLED"]_vars
=============================================================================
