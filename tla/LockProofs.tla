----------------------------- MODULE LockProofs -----------------------------
(***************************************************************************)
(* What the seat locks of BookingFlow guarantee, for any number of seats,  *)
(* reservations, bookings, callbacks and failures: who may remove a lock,  *)
(* what a checkout may rely on, and what a refused hold leaves behind.     *)
(***************************************************************************)
EXTENDS BookingFlowProofs

-----------------------------------------------------------------------------
(* Who touches what *)

(* Only the holdSeats requests write hold and take locks; every other step *)
(* can at most remove locks.                                               *)
LEMMA HoldActs ==
  ASSUME TypeInv, [Next]_vars
  PROVE  \/ \E r \in Reservations, want \in SeatSets : HoldRequest(r, want)
         \/ \E r \in Reservations : HoldStep(r) \/ HoldFault(r)
         \/ Crash
         \/ /\ UNCHANGED hold
            /\ \A s \in Seats : lock'[s] \in {lock[s], NoRes}
<1> DEFINE OnlyRemoves == /\ UNCHANGED hold
                          /\ \A s \in Seats : lock'[s] \in {lock[s], NoRes}
<1>0. lock \in [Seats -> Reservations \cup {NoRes}]
  BY DEF TypeInv, TypeOK, LockTypeOK
<1>1. ASSUME NEW r \in Reservations, NEW s \in Seats, ReleaseSeat(r, s)
      PROVE  OnlyRemoves
  BY <1>0, <1>1 DEF ReleaseSeat, Release, Delete
<1>2. ASSUME NEW b \in Bookings, NEW r \in Reservations, NEW want \in SeatSets,
             CheckoutRequest(b, r, want)
      PROVE  OnlyRemoves
  BY <1>2 DEF CheckoutRequest
<1>3. ASSUME NEW k \in Callbacks, NEW kind \in {"pay", "cancel"}, NEW b \in Bookings,
             CallbackArrives(k, kind, b)
      PROVE  OnlyRemoves
  BY <1>3 DEF CallbackArrives
<1>4. ASSUME NEW b \in Bookings, CheckoutStep(b) \/ CheckoutFault(b)
      PROVE  OnlyRemoves
  BY <1>4 DEF CheckoutStep, CheckoutVerify, CheckoutReadShowtime, CheckoutReadSeats,
              CheckoutCommit, CheckoutFault
<1>5. ASSUME NEW k \in Callbacks, CallbackStep(k) \/ CommitFault(k) \/ CleanupFault(k)
      PROVE  OnlyRemoves
  <2>1. CASE PayRead(k) \/ CancelRead(k) \/ PayCommit(k) \/ CancelCommit(k) \/ CommitFault(k)
    BY <2>1 DEF PayRead, CancelRead, PayCommit, CancelCommit, CommitFault
  <2>2. CASE CleanupFault(k) \/ \E s \in Seats : CallbackCleanup(k, s)
    BY <1>0, <2>2 DEF CleanupFault, CallbackCleanup, ForceRelease, Delete
  <2> QED BY <1>5, <2>1, <2>2 DEF CallbackStep
<1>6. ASSUME NEW s \in Seats, LockExpires(s) PROVE OnlyRemoves
  BY <1>0, <1>6 DEF LockExpires, RunOut, Delete
<1>7. CASE ShowtimeStarts \/ UNCHANGED vars
  BY <1>7 DEF ShowtimeStarts, vars
<1> QED BY <1>1, <1>2, <1>3, <1>4, <1>5, <1>6, <1>7 DEF Next, Arrivals, Failures

(* A token that was minted stays minted, for the seats it was asked for.   *)
LEMMA HoldFrozen ==
  ASSUME TypeInv, [Next]_vars, NEW r \in Reservations, Minted(r)
  PROVE  Minted(r)' /\ hold'[r].want = hold[r].want
<1>0. hold \in [Reservations -> HoldRequests]
  BY DEF TypeInv, TypeOK
<1>1. ASSUME NEW q \in Reservations, NEW want \in SeatSets, HoldRequest(q, want)
      PROVE  hold'[r] = hold[r]
  BY <1>0, <1>1 DEF HoldRequest, Minted
<1>2. ASSUME NEW q \in Reservations, HoldStep(q) \/ HoldFault(q)
      PROVE  Minted(r)' /\ hold'[r].want = hold[r].want
  BY <1>0, <1>2 DEF HoldStep, HoldReadSeats, HoldAcquire, HoldRollback, HoldFault, HoldLoses,
                    HoldPc, HoldSet, Minted, HoldRequests, HoldBusy
<1>3. CASE Crash
  BY <1>0, <1>3 DEF Crash, Minted, HoldRequests, HoldBusy
<1> QED BY <1>1, <1>2, <1>3, HoldActs DEF Minted

-----------------------------------------------------------------------------
(* Who owns a lock *)

(* A lock belongs to a hold that asked for its seat; as long as nothing    *)
(* failed, a hold that is still working or was refused has recorded every  *)
(* lock it has, so that its rollback finds them all.                       *)
OwnersAsked ==
  \A r \in Reservations, s \in Seats :
    lock[s] = r => Minted(r) /\ s \in hold[r].want

Recorded(r, s) == hold[r].pc \in {"acquiring", "rollback"} /\ s \in hold[r].got

OwnersRecorded ==
  faults = 0 =>
    \A r \in Reservations, s \in Seats :
      lock[s] = r /\ hold[r].pc \in {"acquiring", "rollback", "conflict"} => Recorded(r, s)

OwnerInv == TypeInv /\ OwnersAsked /\ OwnersRecorded

LEMMA OwnerStep == OwnerInv /\ [Next]_vars => OwnerInv'
<1> SUFFICES ASSUME OwnerInv, [Next]_vars PROVE OwnerInv'
    OBVIOUS
<1> DEFINE Goal == OwnersAsked' /\ OwnersRecorded'
<1>0. /\ TypeInv /\ TypeInv'
      /\ lock \in [Seats -> Reservations \cup {NoRes}]
      /\ hold \in [Reservations -> HoldRequests]
      /\ faults \in Nat
      /\ OwnersAsked /\ OwnersRecorded
  BY TypeStep, MaxFaultsAssumption DEF OwnerInv, TypeInv, TypeOK, LockTypeOK
<1>whole. Goal => OwnerInv'
  BY <1>0 DEF OwnerInv
<1>faults. faults' = faults \/ faults' = faults + 1
  BY DEF Next, Arrivals, Failures, HoldRequest, ReleaseSeat, CheckoutRequest, CallbackArrives,
     HoldStep, HoldReadSeats, HoldAcquire, HoldRollback, HoldFault, CheckoutStep, CheckoutVerify,
     CheckoutReadShowtime, CheckoutReadSeats, CheckoutCommit, CheckoutFault, CallbackStep,
     PayRead, PayCommit, CancelRead, CancelCommit, CallbackCleanup, CommitFault, CleanupFault,
     Crash, LockExpires, ShowtimeStarts, Fault, vars
<1>1. ASSUME NEW r \in Reservations, NEW want \in SeatSets, HoldRequest(r, want)
      PROVE  Goal
  <2>1. \A s \in Seats : lock[s] # r
    BY <1>0, <1>1 DEF HoldRequest, OwnersAsked, Minted
  <2>2. lock' = lock /\ faults' = faults /\ \A q \in Reservations : q # r => hold'[q] = hold[q]
    BY <1>0, <1>1 DEF HoldRequest
  <2> QED BY <1>0, <2>1, <2>2 DEF OwnersAsked, OwnersRecorded, Minted, Recorded
<1>2. ASSUME NEW r \in Reservations, HoldReadSeats(r)
      PROVE  Goal
  <2>1. \A s \in Seats : lock[s] # r
    BY <1>0, <1>2 DEF HoldReadSeats, OwnersAsked, Minted
  <2>2. lock' = lock /\ faults' = faults /\ \A q \in Reservations : q # r => hold'[q] = hold[q]
    BY <1>0, <1>2 DEF HoldReadSeats, HoldPc, HoldSet
  <2> QED BY <1>0, <2>1, <2>2 DEF OwnersAsked, OwnersRecorded, Minted, Recorded
<1>3. ASSUME NEW r \in Reservations, NEW t \in Seats, HoldAcquire(r, t)
      PROVE  Goal
  <2>1. /\ hold[r].pc = "acquiring" /\ t \in hold[r].want /\ faults' = faults
        /\ \A q \in Reservations : q # r => hold'[q] = hold[q]
        /\ hold'[r].want = hold[r].want
    BY <1>0, <1>3 DEF HoldAcquire, HoldLoses, HoldPc, HoldSet
  <2>2. CASE Acquire(t, r)
    <3>1. \A s \in Seats : lock'[s] = IF s = t THEN r ELSE lock[s]
      BY <1>0, <2>2 DEF Acquire
    <3>2. /\ hold'[r].got = hold[r].got \cup {t}
          /\ hold'[r].pc \in {"held", "acquiring"}
      BY <1>0, <1>3, <2>2 DEF HoldAcquire, HoldSet, Acquire, Occupied
    <3>3. OwnersAsked'
      BY <1>0, <2>1, <3>1, <3>2 DEF OwnersAsked, Minted
    <3>4. OwnersRecorded'
      BY <1>0, <2>1, <3>1, <3>2 DEF OwnersRecorded, Recorded
    <3> QED BY <3>3, <3>4
  <2>3. CASE Occupied(t)
    <3>1. lock' = lock
      BY <2>3 DEF Occupied
    <3>2. /\ hold'[r].got = hold[r].got
          /\ \/ hold[r].got = {} /\ hold'[r].pc = "conflict"
             \/ hold'[r].pc = "rollback"
      BY <1>0, <1>3, <2>3 DEF HoldAcquire, HoldLoses, HoldPc, HoldSet, Acquire, Occupied
    <3>3. OwnersAsked'
      BY <1>0, <2>1, <3>1, <3>2 DEF OwnersAsked, Minted
    <3>4. OwnersRecorded'
      BY <1>0, <2>1, <3>1, <3>2 DEF OwnersRecorded, Recorded
    <3> QED BY <3>3, <3>4
  <2> QED BY <1>3, <2>2, <2>3 DEF HoldAcquire
<1>4. ASSUME NEW r \in Reservations, NEW t \in Seats, HoldRollback(r, t)
      PROVE  Goal
  <2>1. /\ hold[r].pc = "rollback" /\ faults' = faults
        /\ \A q \in Reservations : q # r => hold'[q] = hold[q]
        /\ hold'[r].want = hold[r].want
        /\ hold'[r].got = hold[r].got \ {t}
        /\ \/ hold[r].got = {t} /\ hold'[r].pc = "conflict"
           \/ hold'[r].pc = "rollback"
    BY <1>0, <1>4 DEF HoldRollback, HoldSet
  <2>2. /\ \A s \in Seats : lock'[s] \in {lock[s], NoRes}
        /\ lock'[t] # r
    BY <1>0, <1>4, NoResAssumption DEF HoldRollback, Release, Delete
  <2>3. OwnersAsked'
    BY <1>0, <2>1, <2>2, NoResAssumption DEF OwnersAsked, Minted
  <2>4. OwnersRecorded'
    BY <1>0, <2>1, <2>2, NoResAssumption DEF OwnersRecorded, Recorded
  <2> QED BY <2>3, <2>4
<1>5. ASSUME NEW r \in Reservations, HoldFault(r)
      PROVE  Goal
  <2>1. OwnersRecorded'
    BY <1>0, <1>5 DEF HoldFault, Fault, OwnersRecorded
  <2>2. ASSUME NEW q \in Reservations, NEW s \in Seats, lock'[s] = q
        PROVE  Minted(q)' /\ s \in hold'[q].want
    <3>1. CASE lock[s] = q
      BY <1>0, <3>1, HoldFrozen DEF OwnersAsked
    <3>2. CASE lock[s] # q
      <4>1. hold[r].pc = "acquiring" /\ s \in hold[r].want /\ q = r
        BY <1>0, <1>5, <2>2, <3>2, NoResAssumption DEF HoldFault, Acquire, Release, Delete, HoldRequests
      <4>2. Minted(r)
        BY <4>1 DEF Minted
      <4> QED BY <1>0, <4>1, <4>2, HoldFrozen
    <3> QED BY <3>1, <3>2
  <2> QED BY <2>1, <2>2 DEF OwnersAsked
<1>6. CASE Crash
  <2>1. OwnersRecorded'
    BY <1>0, <1>6 DEF Crash, Fault, OwnersRecorded
  <2>2. OwnersAsked'
    BY <1>0, <1>6, HoldFrozen DEF Crash, OwnersAsked
  <2> QED BY <1>whole, <2>1, <2>2
<1>7. CASE UNCHANGED hold /\ \A s \in Seats : lock'[s] \in {lock[s], NoRes}
  <2>1. \A r \in Reservations, s \in Seats : lock'[s] = r => lock[s] = r
    BY <1>7, NoResAssumption
  <2>2. OwnersAsked'
    BY <1>0, <1>7, <2>1 DEF OwnersAsked, Minted
  <2>3. OwnersRecorded'
    BY <1>0, <1>7, <1>faults, <2>1 DEF OwnersRecorded, Recorded
  <2> QED BY <1>whole, <2>2, <2>3
<1> QED BY <1>whole, <1>1, <1>2, <1>3, <1>4, <1>5, <1>6, <1>7, <1>0, HoldActs DEF HoldStep

LEMMA OwnerAlways == Spec => []OwnerInv
<1>1. Init => OwnerInv
  BY TypeInit, NoResAssumption DEF Init, LockInit, OwnerInv, OwnersAsked, OwnersRecorded
<1> QED BY <1>1, OwnerStep, PTL DEF Spec

(* As long as nothing failed, a hold that was refused holds no seat,       *)
(* however its rollback races other requests and locks that run out.       *)
THEOREM RefusalReleasesEverything == Spec => []RefusedHoldHoldsNothing
<1>1. OwnerInv => RefusedHoldHoldsNothing
  BY DEF OwnerInv, OwnersAsked, OwnersRecorded, Recorded, Minted, RefusedHoldHoldsNothing
<1> QED BY <1>1, OwnerAlways, PTL

-----------------------------------------------------------------------------
(* What a checkout relies on *)

(* A checkout works for a token that was minted, and has found its owner's *)
(* lock on every seat that it crossed off; so has the booking it left.     *)
Covered(b) ==
  LET asked == hold[check[b].res].want IN
  /\ check[b].pc # "idle" => check[b].res \in Reservations /\ Minted(check[b].res)
  /\ check[b].pc = "verifying" => check[b].want \ check[b].todo \subseteq asked
  /\ check[b].pc \in {"starting", "reading", "creating"} => check[b].want \subseteq asked
  /\ booking[b].status # "NONE" =>
       check[b].pc # "idle" /\ booking[b].seats \subseteq asked

CoverInv == SaleInv /\ OwnerInv /\ \A b \in Bookings : Covered(b)

(* A step leaves a checkout request alone, with the seats of its booking,  *)
(* unless it is a step of that request.                                    *)
LEMMA CheckLocal ==
  ASSUME SaleInv, [Next]_vars, NEW b \in Bookings
  PROVE  \/ /\ \/ check'[b] = check[b]
               \/ /\ check[b].pc # "idle" /\ check'[b].pc \in {"lost", "error"}
                  /\ check'[b].res = check[b].res
            /\ booking'[b].seats = booking[b].seats
            /\ booking'[b].status # "NONE" => booking[b].status # "NONE"
         \/ \E r \in Reservations, want \in SeatSets : CheckoutRequest(b, r, want)
         \/ CheckoutStep(b) \/ CheckoutFault(b)
<1> DEFINE Same == /\ booking'[b].seats = booking[b].seats
                   /\ booking'[b].status # "NONE" => booking[b].status # "NONE"
           Goal == \/ /\ \/ check'[b] = check[b]
                         \/ /\ check[b].pc # "idle" /\ check'[b].pc \in {"lost", "error"}
                            /\ check'[b].res = check[b].res
                      /\ Same
                   \/ \E r \in Reservations, want \in SeatSets : CheckoutRequest(b, r, want)
                   \/ CheckoutStep(b) \/ CheckoutFault(b)
<1>0. /\ TypeInv
      /\ booking \in [Bookings -> BookingRow]
      /\ check \in [Bookings -> CheckoutRequests]
  BY DEF SaleInv, TypeInv, TypeOK
<1>1. ASSUME NEW c \in Bookings, NEW r \in Reservations, NEW want \in SeatSets,
             CheckoutRequest(c, r, want)
      PROVE  Goal
  <2>1. CASE c = b
    BY <1>1, <2>1
  <2>2. CASE c # b
    BY <1>0, <1>1, <2>2 DEF CheckoutRequest
  <2> QED BY <2>1, <2>2
<1>2. ASSUME NEW c \in Bookings, CheckoutStep(c) \/ CheckoutFault(c)
      PROVE  Goal
  <2>1. CASE c = b
    BY <1>2, <2>1
  <2>2. CASE c # b
    BY <1>0, <1>2, <2>2
       DEF CheckoutStep, CheckoutVerify, CheckoutReadShowtime, CheckoutReadSeats, CheckoutCommit,
           CheckoutFault, CheckPc, CheckSet, CreateBooking
  <2> QED BY <2>1, <2>2
<1>3. ASSUME NEW k \in Callbacks, CallbackStep(k) \/ CommitFault(k) \/ CleanupFault(k)
      PROVE  Goal
  <2>1. check' = check
    BY <1>3 DEF CallbackStep, PayRead, PayCommit, CancelRead, CancelCommit, CallbackCleanup,
                CommitFault, CleanupFault
  <2>2. ASSUME NEW c \in Bookings, Sells(c) \/ Cancels(c) PROVE Same
    BY <1>0, <2>2 DEF Sells, Cancels, DecideBooking, BookingRow
  <2>3. ASSUME NEW c \in Bookings, Creates(c) PROVE FALSE
    BY <2>1, <2>3 DEF Creates, CheckDone
  <2>4. Same
    BY <1>0, <2>2, <2>3, RowSteps
  <2> QED BY <2>1, <2>4
<1>4. CASE Crash
  BY <1>0, <1>4 DEF Crash, CheckBusy, CheckoutRequests
<1>5. ASSUME NEW r \in Reservations, HoldStep(r) \/ HoldFault(r)
      PROVE  Goal
  BY <1>5 DEF HoldStep, HoldReadSeats, HoldAcquire, HoldRollback, HoldFault
<1>6. CASE ShowtimeStarts \/ UNCHANGED vars \/ \E s \in Seats : LockExpires(s)
  BY <1>6 DEF ShowtimeStarts, vars, LockExpires
<1>7. CASE Arrivals
  BY <1>7, <1>1 DEF Arrivals, HoldRequest, ReleaseSeat, CallbackArrives
<1> QED BY <1>1, <1>2, <1>3, <1>4, <1>5, <1>6, <1>7 DEF Next, Failures

LEMMA CoverStep == CoverInv /\ [Next]_vars => CoverInv'
<1> SUFFICES ASSUME CoverInv, [Next]_vars PROVE CoverInv'
    OBVIOUS
<1>0. /\ SaleInv /\ SaleInv' /\ OwnerInv /\ OwnerInv' /\ TypeInv /\ OwnersAsked
      /\ booking \in [Bookings -> BookingRow]
      /\ check \in [Bookings -> CheckoutRequests]
  BY SaleStep, OwnerStep DEF CoverInv, SaleInv, TypeInv, TypeOK, OwnerInv
<1>1. ASSUME NEW b \in Bookings PROVE Covered(b)'
  <2>0. Covered(b)
    BY DEF CoverInv
  <2>1. CASE check[b].pc = "idle"
    <3>1. booking[b].status = "NONE"
      BY <2>0, <2>1 DEF Covered
    <3>2. ASSUME NEW r \in Reservations, NEW want \in SeatSets, CheckoutRequest(b, r, want)
          PROVE  Covered(b)'
      BY <1>0, <3>1, <3>2 DEF CheckoutRequest, Covered, Minted
    <3>3. CASE check'[b] = check[b] /\ (booking'[b].status # "NONE" => booking[b].status # "NONE")
      BY <2>1, <3>1, <3>3 DEF Covered
    <3>4. ~CheckoutStep(b) /\ ~CheckoutFault(b)
      BY <2>1 DEF CheckoutStep, CheckoutVerify, CheckoutReadShowtime, CheckoutReadSeats,
                  CheckoutCommit, CheckoutFault, CheckBusy
    <3> QED BY <1>0, <2>1, <3>2, <3>3, <3>4, CheckLocal
  <2>2. CASE check[b].pc # "idle"
    <3>0. PICK r \in Reservations : r = check[b].res /\ Minted(r)
      BY <2>0, <2>2 DEF Covered
    <3>1. Minted(r)' /\ hold'[r].want = hold[r].want
      BY <1>0, <3>0, HoldFrozen
    <3>2. ASSUME NEW q \in Reservations, NEW want \in SeatSets, CheckoutRequest(b, q, want)
          PROVE  FALSE
      BY <2>2, <3>2 DEF CheckoutRequest
    <3>3. CASE /\ \/ check'[b] = check[b]
                  \/ /\ check'[b].pc \in {"lost", "error"}
                     /\ check'[b].res = check[b].res
               /\ booking'[b].seats = booking[b].seats
               /\ booking'[b].status # "NONE" => booking[b].status # "NONE"
      BY <2>0, <2>2, <3>0, <3>1, <3>3 DEF Covered
    <3>4. ASSUME NEW s \in Seats, CheckoutVerify(b, s)
          PROVE  Covered(b)'
      <4>1. CASE OwnedBy(s, r)
        <5>1. s \in hold[r].want
          BY <1>0, <3>0, <4>1 DEF OwnedBy, HeldBy, OwnersAsked
        <5>2. /\ check[b].want \ check[b].todo \subseteq hold[r].want
              /\ s \in check[b].todo /\ booking' = booking
              /\ check[b].pc = "verifying"
          BY <2>0, <3>0, <3>4 DEF Covered, CheckoutVerify
        <5>3. /\ check'[b].res = r /\ check'[b].want = check[b].want
              /\ check'[b].todo = check[b].todo \ {s}
              /\ check'[b].pc = IF check[b].todo = {s} THEN "starting" ELSE "verifying"
          BY <1>0, <3>0, <3>4, <4>1 DEF CheckoutVerify, CheckSet
        <5>4. check'[b].want \ check'[b].todo \subseteq hold[r].want
          BY <5>1, <5>2, <5>3
        <5>5. check'[b].pc = "starting" => check'[b].want \subseteq hold[r].want
          BY <5>3, <5>4
        <5>6. check'[b].pc \in {"starting", "verifying"}
          BY <5>3
        <5> QED BY <2>0, <3>0, <3>1, <5>2, <5>3, <5>4, <5>5, <5>6 DEF Covered
      <4>2. CASE ~OwnedBy(s, r)
        <5>1. check'[b].pc = "rejected" /\ check'[b].res = r /\ booking' = booking
          BY <1>0, <3>0, <3>4, <4>2 DEF CheckoutVerify, CheckPc, CheckSet
        <5> QED BY <2>0, <2>2, <3>0, <3>1, <5>1 DEF Covered
      <4> QED BY <4>1, <4>2
    <3>5. CASE CheckoutReadShowtime(b) \/ CheckoutReadSeats(b)
      BY <1>0, <2>0, <3>0, <3>1, <3>5
         DEF CheckoutReadShowtime, CheckoutReadSeats, CheckPc, CheckSet, Covered
    <3>6. CASE CheckoutCommit(b) \/ CheckoutFault(b)
      <4>1. /\ check'[b].pc \in {"created", "error"} /\ check'[b].res = r
            /\ \/ booking' = booking
               \/ check[b].pc = "creating" /\ CreateBooking(b)
        BY <1>0, <3>0, <3>6 DEF CheckoutCommit, CheckoutFault, CheckPc, CheckSet
      <4>2. booking'[b] = booking[b] \/ booking'[b].seats \subseteq hold[r].want
        BY <1>0, <2>0, <3>0, <4>1 DEF CreateBooking, Covered
      <4> QED BY <2>0, <2>2, <3>0, <3>1, <4>1, <4>2 DEF Covered
    <3> QED BY <1>0, <3>2, <3>3, <3>4, <3>5, <3>6, CheckLocal DEF CheckoutStep
  <2> QED BY <2>1, <2>2
<1> QED BY <1>0, <1>1 DEF CoverInv

LEMMA CoverAlways == Spec => []CoverInv
<1>1. Init => CoverInv
  <2>1. Init => SaleInv /\ OwnerInv
    BY SaleInit, TypeInit, NoResAssumption
       DEF Init, LockInit, OwnerInv, OwnersAsked, OwnersRecorded
  <2> QED BY <2>1 DEF Init, CoverInv, Covered
<1> QED BY <1>1, CoverStep, PTL DEF Spec

(* A booking is only ever for seats that the hold behind its token asked   *)
(* for, although the holder check reads one lock at a time and any of them *)
(* may change hands before the booking is written.                         *)
THEOREM BookingsFollowHolds == Spec => []BookedSeatsWereHeld
<1>1. CoverInv => BookedSeatsWereHeld
  BY DEF CoverInv, Covered, BookedSeatsWereHeld
<1> QED BY <1>1, CoverAlways, PTL

-----------------------------------------------------------------------------
(* Who removes a lock *)

(* The post-commit loop only visits seats of its booking, whose row no     *)
(* step changes any more.                                                  *)
Cleans(k) == cb[k].pc = "cleaning" => cb[k].todo \subseteq SeatsOf(k)

CleanInv == AnswerInv /\ \A k \in Callbacks : Cleans(k)

LEMMA CleanStep == CleanInv /\ [Next]_vars => CleanInv'
<1> SUFFICES ASSUME CleanInv, [Next]_vars PROVE CleanInv'
    OBVIOUS
<1>0. /\ AnswerInv /\ AnswerInv' /\ SaleInv /\ TypeInv
      /\ booking \in [Bookings -> BookingRow]
      /\ cb \in [Callbacks -> CallbackRequests]
      /\ TargetsKnown
  BY AnswerStep DEF CleanInv, AnswerInv, SaleInv, TypeInv, TypeOK
<1>1. ASSUME NEW k \in Callbacks PROVE Cleans(k)'
  <2>0. Cleans(k) /\ AnswerRight(k)
    BY <1>0 DEF CleanInv, AnswerInv
  <2>1. cb[k].pc = "cleaning" =>
          cb[k].target \in Bookings /\ booking'[cb[k].target] = booking[cb[k].target]
    <3>1. HAVE cb[k].pc = "cleaning"
    <3>2. cb[k].target \in Bookings /\ cb[k].kind \in {"pay", "cancel"}
      BY <1>0, <3>1 DEF TargetsKnown, CallbackRequests
    <3>3. booking[cb[k].target].status \in {"PAID", "CANCELLED"}
      BY <2>0, <3>1, <3>2 DEF AnswerRight, StatusOf
    <3> QED BY <1>0, <3>2, <3>3, DecidedIsFinal
  <2>2. CASE cb'[k] = cb[k]
    BY <2>0, <2>1, <2>2 DEF Cleans, SeatsOf
  <2>3. ASSUME NEW kind \in {"pay", "cancel"}, NEW b \in Bookings,
               CallbackArrives(k, kind, b)
        PROVE  Cleans(k)'
    BY <1>0, <2>3 DEF CallbackArrives, Cleans
  <2>4. CASE PayRead(k) \/ CancelRead(k)
    BY <1>0, <2>4 DEF PayRead, CancelRead, CbPc, CbSet, Cleans
  <2>5. CASE PayCommit(k) \/ CancelCommit(k)
    <3>1. cb[k].target \in Bookings
      BY <1>0, <2>5 DEF PayCommit, CancelCommit, TargetsKnown
    <3>2. booking'[cb[k].target].seats = SeatsOf(k) /\ cb'[k].target = cb[k].target
      BY <1>0, <2>5, <3>1
         DEF PayCommit, PayWins, PayLoses, CancelCommit, DecideBooking, CleanUp, CbPc, CbSet,
             SeatsOf, BookingRow
    <3>3. cb'[k].pc = "cleaning" => cb'[k].todo = SeatsOf(k)
      BY <1>0, <2>5 DEF PayCommit, PayWins, PayLoses, CancelCommit, CleanUp, CbPc, CbSet
    <3> QED BY <3>2, <3>3 DEF Cleans, SeatsOf
  <2>6. ASSUME NEW s \in Seats, CallbackCleanup(k, s)
        PROVE  Cleans(k)'
    BY <1>0, <2>0, <2>6 DEF CallbackCleanup, CbSet, Answer, Cleans, SeatsOf
  <2>7. CASE CommitFault(k) \/ CleanupFault(k)
    BY <1>0, <2>7 DEF CommitFault, CleanupFault, Answer, CbPc, CbSet, Cleans
  <2>8. CASE cb'[k].pc = "lost"
    BY <2>8 DEF Cleans
  <2> QED BY <1>0, <2>2, <2>3, <2>4, <2>5, <2>6, <2>7, <2>8, CallbackLocal DEF CallbackStep
<1> QED BY <1>0, <1>1 DEF CleanInv

LEMMA CleanAlways == Spec => []CleanInv
<1>1. Init => CleanInv
  BY SaleInit DEF Init, AnswerInv, AnswerRight, CleanInv, Cleans
<1> QED BY <1>1, CleanStep, PTL DEF Spec

(* What the seats of a booking that was decided are: removed by the loop   *)
(* behind the payment, whoever locks them.                                 *)
DecidedSeat(s) ==
  \E b \in Bookings :
    booking[b].status \in {"PAID", "CANCELLED"} /\ s \in booking[b].seats

(* Nothing forgets that a lock ran out or was given back, *)
LEMMA GoneGrows ==
  ASSUME TypeInv, [Next]_vars, NEW r \in Reservations
  PROVE  gone[r] \subseteq gone'[r]
<1>0. gone \in [Reservations -> SUBSET Seats]
  BY DEF TypeInv, TypeOK, LockTypeOK
<1>1. ASSUME NEW s, NEW q, Release(s, q) \/ Acquire(s, q) \/ Occupied(s) \/ RunOut(s)
      PROVE  gone[r] \subseteq gone'[r]
  BY <1>0, <1>1 DEF Release, Acquire, Occupied, RunOut, LockEnds
<1>2. CASE Arrivals
  BY <1>1, <1>2 DEF Arrivals, HoldRequest, ReleaseSeat, CheckoutRequest, CallbackArrives
<1>3. ASSUME NEW q \in Reservations, HoldStep(q) \/ HoldFault(q)
      PROVE  gone[r] \subseteq gone'[r]
  BY <1>1, <1>3 DEF HoldStep, HoldReadSeats, HoldAcquire, HoldRollback, HoldFault
<1>4. ASSUME NEW b \in Bookings, CheckoutStep(b) \/ CheckoutFault(b)
      PROVE  gone' = gone
  BY <1>4 DEF CheckoutStep, CheckoutVerify, CheckoutReadShowtime, CheckoutReadSeats,
              CheckoutCommit, CheckoutFault
<1>5. ASSUME NEW k \in Callbacks, CallbackStep(k) \/ CommitFault(k) \/ CleanupFault(k)
      PROVE  gone' = gone
  BY <1>5 DEF CallbackStep, PayRead, PayCommit, CancelRead, CancelCommit, CallbackCleanup,
              CommitFault, CleanupFault, ForceRelease
<1>6. CASE Crash \/ ShowtimeStarts \/ UNCHANGED vars
  BY <1>6 DEF Crash, ShowtimeStarts, vars
<1>7. ASSUME NEW s \in Seats, LockExpires(s) PROVE gone[r] \subseteq gone'[r]
  BY <1>1, <1>7 DEF LockExpires
<1> QED BY <1>2, <1>3, <1>4, <1>5, <1>6, <1>7 DEF Next, Failures

(* nor that the seat was decided. *)
LEMMA DecidedStays ==
  ASSUME SaleInv, [Next]_vars, NEW s \in Seats, DecidedSeat(s)
  PROVE  DecidedSeat(s)'
  BY DecidedIsFinal DEF DecidedSeat

(* A hold records a seat as won in the step that locks it. *)
LEMMA GotStep ==
  ASSUME TypeInv, [Next]_vars, NEW r \in Reservations,
         NEW s \in hold'[r].got, s \notin hold[r].got
  PROVE  lock'[s] = r
<1>0. /\ lock \in [Seats -> Reservations \cup {NoRes}]
      /\ hold \in [Reservations -> HoldRequests]
  BY DEF TypeInv, TypeOK, LockTypeOK
<1>1. ASSUME NEW q \in Reservations, NEW want \in SeatSets, HoldRequest(q, want)
      PROVE  FALSE
  BY <1>0, <1>1 DEF HoldRequest
<1>2. ASSUME NEW q \in Reservations, HoldReadSeats(q) PROVE FALSE
  BY <1>0, <1>2 DEF HoldReadSeats, HoldPc, HoldSet
<1>3. ASSUME NEW q \in Reservations, NEW t \in Seats, HoldAcquire(q, t)
      PROVE  lock'[s] = r
  <2>1. CASE Occupied(t)
    BY <1>0, <1>3, <2>1 DEF HoldAcquire, Acquire, Occupied, HoldLoses, HoldPc, HoldSet
  <2>2. CASE Acquire(t, q)
    <3>1. q = r /\ t = s
      BY <1>0, <1>3, <2>2 DEF HoldAcquire, Acquire, Occupied, HoldSet
    <3> QED BY <1>0, <2>2, <3>1 DEF Acquire
  <2> QED BY <1>3, <2>1, <2>2 DEF HoldAcquire
<1>4. ASSUME NEW q \in Reservations, NEW t \in Seats, HoldRollback(q, t)
      PROVE  FALSE
  BY <1>0, <1>4 DEF HoldRollback, HoldSet
<1>5. ASSUME NEW q \in Reservations, HoldFault(q) PROVE FALSE
  BY <1>0, <1>5 DEF HoldFault, HoldLoses, HoldPc, HoldSet
<1>6. CASE Crash
  BY <1>0, <1>6 DEF Crash, HoldRequests
<1> QED BY <1>1, <1>2, <1>3, <1>4, <1>5, <1>6, HoldActs DEF HoldStep

(* A lock disappears when it runs out, when its own token gives it back,   *)
(* or when its seat is decided.                                            *)
LEMMA LossStep ==
  ASSUME CleanInv, [Next]_vars, NEW r \in Reservations, NEW s \in Seats, LosesLock(r, s)
  PROVE  s \in gone'[r] \/ DecidedSeat(s)
<1>0. /\ lock \in [Seats -> Reservations \cup {NoRes}]
      /\ gone \in [Reservations -> SUBSET Seats]
      /\ lock[s] = r /\ lock'[s] # r /\ r # NoRes
  BY NoResAssumption
     DEF CleanInv, AnswerInv, SaleInv, TypeInv, TypeOK, LockTypeOK, LosesLock
<1>1. ASSUME NEW q \in Reservations, NEW t \in Seats, Release(t, q)
      PROVE  s \in gone'[r]
  BY <1>0, <1>1 DEF Release, Delete, LockEnds
<1>2. ASSUME NEW q \in Reservations, NEW t \in Seats, Acquire(t, q) PROVE FALSE
  BY <1>0, <1>2 DEF Acquire
<1>3. ASSUME NEW q \in Reservations, HoldStep(q)
      PROVE  s \in gone'[r]
  BY <1>0, <1>1, <1>2, <1>3 DEF HoldStep, HoldReadSeats, HoldAcquire, HoldRollback, Occupied
<1>4. ASSUME NEW q \in Reservations, HoldFault(q)
      PROVE  s \in gone'[r]
  <2>1. hold[q].want \subseteq Seats /\ hold[q].got \subseteq Seats
    BY DEF CleanInv, AnswerInv, SaleInv, TypeInv, TypeOK, HoldRequests
  <2> QED BY <1>0, <1>1, <1>2, <1>4, <2>1 DEF HoldFault
<1>5. ASSUME NEW k \in Callbacks, CallbackStep(k) \/ CommitFault(k) \/ CleanupFault(k)
      PROVE  DecidedSeat(s)
  <2>1. CASE PayRead(k) \/ CancelRead(k) \/ PayCommit(k) \/ CancelCommit(k) \/ CommitFault(k)
    BY <1>0, <2>1 DEF PayRead, CancelRead, PayCommit, CancelCommit, CommitFault
  <2>2. CASE CleanupFault(k) \/ \E t \in Seats : CallbackCleanup(k, t)
    <3>1. cb[k].pc = "cleaning" /\ s \in cb[k].todo
      BY <1>0, <2>2 DEF CleanupFault, CallbackCleanup, ForceRelease, Delete
    <3>2. s \in SeatsOf(k) /\ AnswerRight(k)
      BY <3>1 DEF CleanInv, AnswerInv, Cleans
    <3>3. cb[k].target \in Bookings /\ cb[k].kind \in {"pay", "cancel"}
      BY <3>1 DEF CleanInv, AnswerInv, SaleInv, TypeInv, TypeOK, TargetsKnown, CallbackRequests
    <3>4. StatusOf(k) \in {"PAID", "CANCELLED"}
      BY <3>1, <3>2, <3>3 DEF AnswerRight, StatusOf
    <3> QED BY <3>2, <3>3, <3>4 DEF DecidedSeat, SeatsOf, StatusOf
  <2> QED BY <1>5, <2>1, <2>2 DEF CallbackStep
<1>6. ASSUME NEW t \in Seats, LockExpires(t)
      PROVE  s \in gone'[r]
  BY <1>0, <1>6 DEF LockExpires, RunOut, Delete, LockEnds
<1>7. ASSUME NEW b \in Bookings, CheckoutStep(b) \/ CheckoutFault(b)
      PROVE  FALSE
  BY <1>0, <1>7 DEF CheckoutStep, CheckoutVerify, CheckoutReadShowtime, CheckoutReadSeats,
                    CheckoutCommit, CheckoutFault
<1>8. CASE Crash \/ ShowtimeStarts \/ UNCHANGED vars
  BY <1>0, <1>8 DEF Crash, ShowtimeStarts, vars
<1>9. CASE Arrivals
  BY <1>0, <1>1, <1>9 DEF Arrivals, HoldRequest, ReleaseSeat, CheckoutRequest, CallbackArrives
<1> QED BY <1>3, <1>4, <1>5, <1>6, <1>7, <1>8, <1>9 DEF Next, Failures

KeptInv == CleanInv /\ LocksLostOnlyByRight

LEMMA KeptStep == KeptInv /\ [Next]_vars => KeptInv'
<1> SUFFICES ASSUME KeptInv, [Next]_vars PROVE KeptInv'
    OBVIOUS
<1>0. /\ CleanInv /\ CleanInv' /\ SaleInv /\ TypeInv /\ TypeInv'
  BY CleanStep DEF KeptInv, CleanInv, AnswerInv, SaleInv
<1>1. ASSUME NEW r \in Reservations, NEW s \in hold'[r].got
      PROVE  lock'[s] = r \/ s \in gone'[r] \/ DecidedSeat(s)'
  <2>0. s \in Seats
    BY <1>0 DEF TypeInv, TypeOK, HoldRequests
  <2>1. CASE s \notin hold[r].got
    BY <1>0, <2>1, GotStep
  <2>2. CASE s \in hold[r].got
    <3>1. lock[s] = r \/ s \in gone[r] \/ DecidedSeat(s)
      BY <2>2 DEF KeptInv, LocksLostOnlyByRight, DecidedSeat
    <3>2. CASE s \in gone[r]
      BY <1>0, <3>2, GoneGrows
    <3>3. CASE DecidedSeat(s)
      BY <1>0, <2>0, <3>3, DecidedStays
    <3>4. CASE LosesLock(r, s)
      BY <1>0, <2>0, <3>4, LossStep, DecidedStays
    <3> QED BY <3>1, <3>2, <3>3, <3>4 DEF LosesLock
  <2> QED BY <2>1, <2>2
<1>2. LocksLostOnlyByRight'
  BY <1>1 DEF LocksLostOnlyByRight, DecidedSeat
<1> QED BY <1>0, <1>2 DEF KeptInv

(* A hold keeps every lock that it won until the lock runs out, is given   *)
(* back with its own token, or its seat belongs to a decided booking,      *)
(* whose post-commit loop removes it: no other hold's acquisition,         *)
(* rollback or release can take it.                                        *)
THEOREM LocksKept == Spec => []LocksLostOnlyByRight
<1>1. Init => KeptInv
  BY SaleInit
     DEF Init, AnswerInv, AnswerRight, CleanInv, Cleans, KeptInv, LocksLostOnlyByRight
<1>2. KeptInv => LocksLostOnlyByRight
  BY DEF KeptInv
<1> QED BY <1>1, <1>2, KeptStep, PTL DEF Spec
=============================================================================
