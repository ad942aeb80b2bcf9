----------------------------- MODULE SeatBoard -----------------------------
(***************************************************************************)
(* What one customer's screen shows of the seats while BookingFlow runs:   *)
(* the events that the services broadcast through WebsocketGateway, the    *)
(* keyspace notification of Redis that reports an expired lock on a        *)
(* connection of its own, and the seat map that the page loads over HTTP   *)
(* (ShowtimeService.getShowtimeSeats).  An event is sent in the same       *)
(* synchronous stretch as the step that causes it, and a socket keeps the  *)
(* order of its events; the notification and the HTTP answer arrive in no  *)
(* particular order with them.                                             *)
(***************************************************************************)
EXTENDS BookingFlow

VARIABLES
  joined,    \* the page's socket is in the room showtime:{showtimeId}
  view,      \* view[s]: the status the page shows, UNKNOWN before a map arrived
  map,       \* the page's request for the seat map
  notices    \* expired-key notifications on their way to the gateway

screenVars == <<joined, view, map, notices>>
boardVars == <<vars, screenVars>>

Statuses == {"AVAILABLE", "HOLDING", "SOLD", "BLOCKED"}
Blank == [s \in Seats |-> "UNKNOWN"]
NoMap == [pc |-> "idle", snap |-> Blank, todo |-> {}]

BoardInit ==
  /\ Init
  /\ joined = FALSE
  /\ view = Blank
  /\ map = NoMap
  /\ notices = {}

-----------------------------------------------------------------------------
(* broadcastSeatState: who is not in the room gets nothing, and the page   *)
(* ignores seats it has not loaded.                                        *)
Broadcast(S, status) ==
  view' = [s \in Seats |->
             IF joined /\ s \in S /\ view[s] # "UNKNOWN" THEN status ELSE view[s]]

QuietScreen == UNCHANGED <<joined, map, notices>>

(* HOLDING is announced once the whole batch is locked. *)
AnnouncedHoldAcquire(r, s) ==
  /\ HoldAcquire(r, s)
  /\ Broadcast(IF hold'[r].pc = "held" THEN hold[r].want ELSE {}, "HOLDING")
  /\ QuietScreen

(* The rollback announces every seat, released or not. *)
AnnouncedHoldRollback(r, s) ==
  /\ HoldRollback(r, s)
  /\ Broadcast({s}, "AVAILABLE")
  /\ QuietScreen

(* releaseSeats only announces what it knows it released. *)
AnnouncedReleaseSeat(r, s) ==
  /\ ReleaseSeat(r, s)
  /\ Broadcast(IF HeldBy(s, r) THEN {s} ELSE {}, "AVAILABLE")
  /\ QuietScreen

OutcomeBug(k) == "SOLD"

(* What a callback announces for the seats of its booking. *)
Outcome(k) == IF cb[k].kind = "pay" THEN "SOLD" ELSE "AVAILABLE"

SilentCleanupBug(k, s) ==
  CallbackCleanup(k, s) /\ UNCHANGED view /\ QuietScreen

AnnouncedCleanup(k, s) ==
  /\ CallbackCleanup(k, s)
  /\ Broadcast({s}, Outcome(k))
  /\ QuietScreen

(* Redis may publish the expiry; nothing depends on it (the subscription   *)
(* is optional and its errors are swallowed).                              *)
NotifiedExpiry(s) ==
  /\ LockExpires(s)
  /\ notices' \in {notices, notices \cup {s}}
  /\ UNCHANGED <<joined, view, map>>

(* The gateway's callback: broadcast AVAILABLE, without asking anyone. *)
ExpiryBroadcast(s) ==
  /\ s \in notices
  /\ notices' = notices \ {s}
  /\ Broadcast({s}, "AVAILABLE")
  /\ UNCHANGED <<vars, joined, map>>

-----------------------------------------------------------------------------
(* handleConnection and join:showtime, and a lost connection. *)
Join ==
  /\ ~joined
  /\ joined' = TRUE
  /\ UNCHANGED <<vars, view, map, notices>>

Leave ==
  /\ joined
  /\ joined' = FALSE
  /\ UNCHANGED <<vars, view, map, notices>>

(* getShowtimeSeats: one query reads all seats, *)
MapQuery ==
  /\ map.pc = "idle"
  /\ map' = [pc   |-> "asking",
             snap |-> seat,
             todo |-> {s \in Seats : seat[s] = "AVAILABLE"}]
  /\ UNCHANGED <<vars, joined, view, notices>>

ShownBug(s) == IF lock[s] = NoRes THEN map.snap[s] ELSE lock[s]

(* An AVAILABLE seat with a lock is shown as HOLDING, *)
Shown(s) == IF lock[s] = NoRes THEN map.snap[s] ELSE "HOLDING"

(* for which Redis is asked about every AVAILABLE one, in any order, *)
MapAsk(s) ==
  /\ map.pc = "asking"
  /\ s \in map.todo
  /\ map' = [map EXCEPT !.todo = @ \ {s}, !.snap[s] = Shown(s)]
  /\ UNCHANGED <<vars, joined, view, notices>>

(* and the page replaces everything it shows by the answer. *)
MapArrives ==
  /\ map.pc = "asking" /\ map.todo = {}
  /\ view' = map.snap
  /\ map' = NoMap
  /\ UNCHANGED <<vars, joined, notices>>

(* When the request fails the page falls back to its demo map, on which    *)
(* every seat is AVAILABLE.                                                *)
DemoView == [s \in Seats |-> "AVAILABLE"]

MapFault ==
  /\ Fault
  /\ map.pc = "asking"
  /\ view' = DemoView
  /\ map' = NoMap
  /\ UNCHANGED <<lock, gone, started, seat, booking, hold, check, cb, joined, notices>>

(* A crash also cuts the socket, the map request and the subscription. *)
CrashSeen ==
  /\ Crash
  /\ joined' = FALSE
  /\ notices' = {}
  /\ map' = NoMap
  /\ view' = IF map.pc = "asking" THEN DemoView ELSE view

-----------------------------------------------------------------------------
(* Steps of BookingFlow that nobody hears of: also a release whose reply   *)
(* was lost, since the loop ends without announcing it.                    *)
Unheard ==
  /\ \/ \E r \in Reservations, want \in SeatSets : HoldRequest(r, want)
     \/ \E r \in Reservations : HoldReadSeats(r) \/ HoldFault(r)
     \/ \E r \in Reservations, s \in Seats : ReleaseSeat(r, s)
     \/ \E b \in Bookings, r \in Reservations, want \in SeatSets :
          CheckoutRequest(b, r, want)
     \/ \E b \in Bookings : CheckoutStep(b) \/ CheckoutFault(b)
     \/ \E k \in Callbacks, kind \in {"pay", "cancel"}, b \in Bookings :
          CallbackArrives(k, kind, b)
     \/ \E k \in Callbacks :
          \/ PayRead(k) \/ PayCommit(k) \/ CancelRead(k) \/ CancelCommit(k)
          \/ CommitFault(k) \/ CleanupFault(k)
     \/ ShowtimeStarts
  /\ UNCHANGED screenVars

BoardNext ==
  \/ Unheard
  \/ \E r \in Reservations, s \in Seats :
       \/ AnnouncedHoldAcquire(r, s)
       \/ AnnouncedHoldRollback(r, s)
       \/ AnnouncedReleaseSeat(r, s)
  \/ \E k \in Callbacks, s \in Seats : AnnouncedCleanup(k, s)
  \/ \E s \in Seats : NotifiedExpiry(s) \/ ExpiryBroadcast(s) \/ MapAsk(s)
  \/ Join \/ Leave \/ MapQuery \/ MapArrives \/ MapFault \/ CrashSeen

(* The event loop goes on with every payment callback it has accepted. *)
BoardFairness ==
  \A k \in Callbacks : WF_boardVars(\E s \in Seats : AnnouncedCleanup(k, s))

BoardSpec == BoardInit /\ [][BoardNext]_boardVars
BoardLiveSpec == BoardSpec /\ BoardFairness

-----------------------------------------------------------------------------
(* Every variable holds a value of its kind; a seat on a screen has a      *)
(* status and never carries the token of a hold.                           *)
BoardTypeOK ==
  /\ TypeOK
  /\ joined \in BOOLEAN
  /\ view \in [Seats -> Statuses \cup {"UNKNOWN"}]
  /\ map \in [pc : {"idle", "asking"}, snap : [Seats -> Statuses \cup {"UNKNOWN"}],
              todo : SUBSET Seats]
  /\ notices \subseteq Seats

(* A screen shows SOLD only for a seat that is sold: no event, stale map   *)
(* or failure turns a seat grey that can still be bought.                  *)
SoldShownIsSold ==
  \A s \in Seats : view[s] = "SOLD" => seat[s] = "SOLD"

(* The post-commit loop ended before it came to the seat. *)
CutShort(k, s) == cb[k].pc # "cleaning" /\ s \in cb[k].todo

(* A screen in the room that has its map is told of every sale of the seat *)
(* whose post-commit loop runs, whatever else it is told meanwhile, unless *)
(* it leaves the room or the loop is cut short before that seat.           *)
SaleReaches(s) ==
  \A k \in Callbacks :
    (cb[k].pc = "cleaning" /\ cb[k].kind = "pay" /\ s \in cb[k].todo
       /\ joined /\ view[s] # "UNKNOWN")
      ~> (view[s] = "SOLD" \/ ~joined \/ CutShort(k, s))

(* Once a screen shows a seat SOLD it shows it SOLD for good (README.md,   *)
(* "transitions permanently to dark gray").                                *)
SoldStaysShown ==
  [][\A s \in Seats : view[s] = "SOLD" => view'[s] = "SOLD"]_boardVars
=============================================================================
