----------------------------- MODULE BoardProofs -----------------------------
(***************************************************************************)
(* What every screen may show, for any number of seats, customers,         *)
(* payment callbacks and failures, and that the flow behind it is a sale.  *)
(***************************************************************************)
EXTENDS SeatBoard, LockProofs

-----------------------------------------------------------------------------
(* A screen, and a map on its way to it, say SOLD only of seats that are   *)
(* sold: seats never turn AVAILABLE again, and a callback that announces a *)
(* sale does so after it was committed.                                    *)
TrueSales(picture) == \A s \in Seats : picture[s] = "SOLD" => seat[s] = "SOLD"

ScreenInv ==
  /\ CleanInv
  /\ TrueSales(view)
  /\ TrueSales(map.snap)

(* A failure of the map request touches nothing of the booking flow but    *)
(* the count of failures.                                                  *)
LEMMA CountOnly ==
  ASSUME CleanInv, Fault, UNCHANGED <<lock, gone, started, seat, booking, hold, check, cb>>
  PROVE  CleanInv'
<1>1. TypeOK'
  <2>1. faults' \in 0..MaxFaults
    BY MaxFaultsAssumption DEF Fault, CleanInv, AnswerInv, SaleInv, TypeInv, TypeOK
  <2> QED BY <2>1 DEF CleanInv, AnswerInv, SaleInv, TypeInv, TypeOK, LockTypeOK
<1>2. TypeInv'
  BY <1>1 DEF CleanInv, AnswerInv, SaleInv, TypeInv, TargetsKnown
<1>3. SaleInv'
  BY <1>2 DEF CleanInv, AnswerInv, SaleInv, NoRowYet, SeatsWanted, SoldIffPaid, NoDoubleSale
<1>4. \A k \in Callbacks : AnswerRight(k)' /\ Cleans(k)'
  BY DEF CleanInv, AnswerInv, AnswerRight, Cleans, StatusOf, SeatsOf, Finalizable
<1> QED BY <1>3, <1>4 DEF CleanInv, AnswerInv

(* Every step of the board is one of the booking flow, a failed map        *)
(* request, or nothing to the booking flow.                                *)
LEMMA BoardStepsFlow ==
  BoardNext => \/ [Next]_vars
               \/ Fault /\ UNCHANGED <<lock, gone, started, seat, booking, hold, check, cb>>
<1>1. Unheard => Next
  BY DEF Unheard, Next, Arrivals, Failures, HoldStep, CallbackStep
<1>2. ASSUME NEW r \in Reservations, NEW s \in Seats,
             \/ AnnouncedHoldAcquire(r, s) \/ AnnouncedHoldRollback(r, s)
             \/ AnnouncedReleaseSeat(r, s)
      PROVE  Next
  BY <1>2 DEF AnnouncedHoldAcquire, AnnouncedHoldRollback, AnnouncedReleaseSeat, Next, Arrivals,
              HoldStep
<1>3. ASSUME NEW k \in Callbacks, NEW s \in Seats, AnnouncedCleanup(k, s)
      PROVE  Next
  BY <1>3 DEF AnnouncedCleanup, Next, CallbackStep
<1>4. ASSUME NEW s \in Seats, NotifiedExpiry(s) PROVE Next
  BY <1>4 DEF NotifiedExpiry, Next
<1>5. CrashSeen => Next
  BY DEF CrashSeen, Next, Failures
<1>6. ASSUME NEW s \in Seats, ExpiryBroadcast(s) \/ MapAsk(s) PROVE UNCHANGED vars
  BY <1>6 DEF ExpiryBroadcast, MapAsk
<1>7. Join \/ Leave \/ MapQuery \/ MapArrives => UNCHANGED vars
  BY DEF Join, Leave, MapQuery, MapArrives
<1>8. MapFault => Fault /\ UNCHANGED <<lock, gone, started, seat, booking, hold, check, cb>>
  BY DEF MapFault
<1> QED BY <1>1, <1>2, <1>3, <1>4, <1>5, <1>6, <1>7, <1>8 DEF BoardNext

LEMMA BroadcastSpares ==
  ASSUME NEW S, NEW status, TrueSales(view), Broadcast(S, status),
         status = "SOLD" => \A s \in S : seat[s] = "SOLD",
         \A s \in Seats : seat[s] = "SOLD" => seat'[s] = "SOLD"
  PROVE  TrueSales(view)'
  BY DEF TrueSales, Broadcast

LEMMA ScreenStep == ScreenInv /\ [BoardNext]_boardVars => ScreenInv'
<1> SUFFICES ASSUME ScreenInv, [BoardNext]_boardVars PROVE ScreenInv'
    OBVIOUS
<1>0. CleanInv /\ TrueSales(view) /\ TrueSales(map.snap)
  BY DEF ScreenInv
<1>1. CleanInv'
  BY <1>0, BoardStepsFlow, CleanStep, CountOnly DEF boardVars
<1>2. \A s \in Seats : seat[s] = "SOLD" => seat'[s] = "SOLD"
  <2>1. SaleInv /\ TypeInv /\ seat \in [Seats -> {"AVAILABLE", "SOLD", "BLOCKED"}]
    BY <1>0 DEF CleanInv, AnswerInv, SaleInv, TypeInv, TypeOK
  <2>2. [Next]_vars \/ UNCHANGED seat
    BY BoardStepsFlow DEF boardVars, vars
  <2> QED BY <2>1, <2>2, RowSteps DEF Creates, Sells, Cancels, SellSeats
<1>whole. TrueSales(view)' /\ TrueSales(map.snap)' => ScreenInv'
  BY <1>1 DEF ScreenInv
<1>map. UNCHANGED map => TrueSales(map.snap)'
  BY <1>0, <1>2 DEF TrueSales
<1>view. UNCHANGED view => TrueSales(view)'
  BY <1>0, <1>2 DEF TrueSales
<1>blank. TrueSales(NoMap.snap)'
  BY DEF TrueSales, NoMap, Blank
<1>demo. TrueSales(DemoView)'
  BY DEF TrueSales, DemoView
<1>3. CASE Unheard \/ UNCHANGED boardVars \/ Join \/ Leave
           \/ \E s \in Seats : NotifiedExpiry(s)
  BY <1>3, <1>whole, <1>map, <1>view
     DEF Unheard, boardVars, screenVars, Join, Leave, NotifiedExpiry
<1>4. ASSUME NEW r \in Reservations, NEW s \in Seats,
             \/ AnnouncedHoldAcquire(r, s) \/ AnnouncedHoldRollback(r, s)
             \/ AnnouncedReleaseSeat(r, s)
      PROVE  ScreenInv'
  <2>1. UNCHANGED map
    BY <1>4 DEF AnnouncedHoldAcquire, AnnouncedHoldRollback, AnnouncedReleaseSeat, QuietScreen
  <2>2. \A t \in Seats : view'[t] \in {view[t], "HOLDING", "AVAILABLE"}
    BY <1>4 DEF AnnouncedHoldAcquire, AnnouncedHoldRollback, AnnouncedReleaseSeat, Broadcast
  <2>3. TrueSales(view)'
    BY <1>0, <1>2, <2>2 DEF TrueSales
  <2> QED BY <1>whole, <1>map, <2>1, <2>3
<1>5. ASSUME NEW k \in Callbacks, NEW s \in Seats, AnnouncedCleanup(k, s)
      PROVE  ScreenInv'
  <2>1. UNCHANGED map /\ Broadcast({s}, Outcome(k)) /\ CallbackCleanup(k, s)
    BY <1>5 DEF AnnouncedCleanup, QuietScreen
  <2>2. Outcome(k) = "SOLD" => seat[s] = "SOLD"
    <3>1. HAVE Outcome(k) = "SOLD"
    <3>2. cb[k].kind = "pay" /\ cb[k].pc = "cleaning" /\ s \in cb[k].todo
      BY <2>1, <3>1 DEF Outcome, CallbackCleanup
    <3>3. cb[k].target \in Bookings /\ s \in SeatsOf(k) /\ StatusOf(k) = "PAID"
      BY <1>0, <3>2 DEF CleanInv, Cleans, AnswerInv, AnswerRight, SaleInv, TypeInv, TargetsKnown
    <3> QED BY <1>0, <3>3 DEF CleanInv, AnswerInv, SaleInv, SoldIffPaid, StatusOf, SeatsOf
  <2>3. TrueSales(view)'
    BY <1>0, <1>2, <2>1, <2>2, BroadcastSpares
  <2> QED BY <1>whole, <1>map, <2>1, <2>3
<1>6. ASSUME NEW s \in Seats, ExpiryBroadcast(s)
      PROVE  ScreenInv'
  <2>1. UNCHANGED map /\ Broadcast({s}, "AVAILABLE")
    BY <1>6 DEF ExpiryBroadcast
  <2>2. TrueSales(view)'
    BY <1>0, <1>2, <2>1, BroadcastSpares
  <2> QED BY <1>whole, <1>map, <2>1, <2>2
<1>7. CASE MapQuery
  <2>1. map'.snap = seat /\ UNCHANGED <<seat, view>>
    BY <1>7 DEF MapQuery, vars
  <2>2. TrueSales(map.snap)'
    BY <2>1 DEF TrueSales
  <2> QED BY <1>whole, <1>view, <2>1, <2>2
<1>8. ASSUME NEW t \in Seats, MapAsk(t)
      PROVE  ScreenInv'
  <2>1. UNCHANGED <<seat, view>>
    BY <1>8 DEF MapAsk, vars
  <2>2. \A s \in Seats : map'.snap[s] \in {map.snap[s], "HOLDING"}
    BY <1>8 DEF MapAsk, Shown
  <2>3. TrueSales(map.snap)'
    BY <1>0, <2>1, <2>2 DEF TrueSales
  <2> QED BY <1>whole, <1>view, <2>1, <2>3
<1>9. CASE MapArrives
  <2>1. view' = map.snap /\ map' = NoMap /\ UNCHANGED seat
    BY <1>9 DEF MapArrives, vars
  <2>2. TrueSales(view)'
    BY <1>0, <2>1 DEF TrueSales
  <2> QED BY <1>whole, <1>blank, <2>1, <2>2
<1>10. CASE MapFault \/ CrashSeen
  <2>1. map' = NoMap /\ view' \in {view, DemoView}
    BY <1>10 DEF MapFault, CrashSeen
  <2>2. TrueSales(view)'
    BY <1>0, <1>2, <2>1 DEF TrueSales, DemoView
  <2> QED BY <1>whole, <1>blank, <2>1, <2>2
<1> QED BY <1>3, <1>4, <1>5, <1>6, <1>7, <1>8, <1>9, <1>10 DEF BoardNext

-----------------------------------------------------------------------------
(* Types *)

Shows == Statuses \cup {"UNKNOWN"}
Pictures == [Seats -> Shows]
Maps == [pc : {"idle", "asking"}, snap : Pictures, todo : SUBSET Seats]

ScreenTypes ==
  /\ joined \in BOOLEAN
  /\ view \in Pictures
  /\ map \in Maps
  /\ notices \subseteq Seats

LEMMA PicturesOf ==
  /\ Blank \in Pictures /\ DemoView \in Pictures /\ NoMap \in Maps
  /\ [Seats -> {"AVAILABLE", "SOLD", "BLOCKED"}] \subseteq Pictures
BY DEF Pictures, Shows, Statuses, Blank, DemoView, NoMap, Maps

LEMMA BroadcastTypes ==
  ASSUME view \in Pictures, NEW S, NEW status \in Statuses, Broadcast(S, status)
  PROVE  view' \in Pictures
BY DEF Pictures, Shows, Broadcast

LEMMA ScreenTypeStep ==
  ASSUME CleanInv, ScreenTypes, [BoardNext]_boardVars
  PROVE  ScreenTypes'
<1>0. /\ joined \in BOOLEAN /\ view \in Pictures /\ map \in Maps /\ notices \subseteq Seats
      /\ map.pc \in {"idle", "asking"} /\ map.snap \in Pictures /\ map.todo \subseteq Seats
  BY DEF ScreenTypes, Maps
<1>1. \A S, status : status \in Statuses /\ Broadcast(S, status) => view' \in Pictures
  BY <1>0, BroadcastTypes
<1>2. {"AVAILABLE", "HOLDING", "SOLD"} \subseteq Statuses
  BY DEF Statuses
<1>3. CASE Unheard \/ UNCHANGED boardVars \/ Join \/ Leave
  BY <1>0, <1>3 DEF Unheard, boardVars, screenVars, Join, Leave, ScreenTypes
<1>4. ASSUME NEW r \in Reservations, NEW s \in Seats,
             \/ AnnouncedHoldAcquire(r, s) \/ AnnouncedHoldRollback(r, s)
             \/ AnnouncedReleaseSeat(r, s)
      PROVE  ScreenTypes'
  <2>1. QuietScreen /\ \E S, status : status \in Statuses /\ Broadcast(S, status)
    BY <1>2, <1>4 DEF AnnouncedHoldAcquire, AnnouncedHoldRollback, AnnouncedReleaseSeat
  <2> QED BY <1>0, <1>1, <2>1 DEF QuietScreen, ScreenTypes
<1>5. ASSUME NEW k \in Callbacks, NEW s \in Seats, AnnouncedCleanup(k, s)
      PROVE  ScreenTypes'
  <2>1. QuietScreen /\ Broadcast({s}, Outcome(k)) /\ Outcome(k) \in Statuses
    BY <1>2, <1>5 DEF AnnouncedCleanup, Outcome
  <2> QED BY <1>0, <1>1, <2>1 DEF QuietScreen, ScreenTypes
<1>6. ASSUME NEW s \in Seats, NotifiedExpiry(s) PROVE ScreenTypes'
  BY <1>0, <1>6 DEF NotifiedExpiry, ScreenTypes
<1>7. ASSUME NEW s \in Seats, ExpiryBroadcast(s) PROVE ScreenTypes'
  <2>1. Broadcast({s}, "AVAILABLE") /\ notices' = notices \ {s} /\ UNCHANGED <<joined, map>>
    BY <1>7 DEF ExpiryBroadcast
  <2> QED BY <1>0, <1>1, <1>2, <2>1 DEF ScreenTypes
<1>8. CASE MapQuery
  <2>1. seat \in Pictures
    BY PicturesOf DEF CleanInv, AnswerInv, SaleInv, TypeInv, TypeOK
  <2>2. map' \in Maps
    BY <1>8, <2>1 DEF MapQuery, Maps
  <2> QED BY <1>0, <1>8, <2>2 DEF MapQuery, ScreenTypes
<1>9. ASSUME NEW s \in Seats, MapAsk(s) PROVE ScreenTypes'
  <2>1. PICK x \in Shows : x = Shown(s)
    BY <1>0 DEF Shown, Pictures, Shows, Statuses
  <2>2. /\ map' = [map EXCEPT !.todo = @ \ {s}, !.snap[s] = x]
        /\ UNCHANGED <<joined, view, notices>>
    BY <1>9, <2>1 DEF MapAsk
  <2>3. map' \in Maps
    BY <1>0, <2>2 DEF Maps, Pictures
  <2> QED BY <1>0, <2>2, <2>3 DEF ScreenTypes
<1>10. CASE MapArrives \/ MapFault \/ CrashSeen
  BY <1>0, <1>10, PicturesOf DEF MapArrives, MapFault, CrashSeen, ScreenTypes
<1> QED BY <1>3, <1>4, <1>5, <1>6, <1>7, <1>8, <1>9, <1>10 DEF BoardNext

LEMMA BoardAlways == BoardSpec => [](ScreenInv /\ ScreenTypes)
<1>1. BoardInit => ScreenInv
  <2>1. Init => CleanInv
    BY SaleInit DEF Init, AnswerInv, AnswerRight, CleanInv, Cleans
  <2> QED BY <2>1 DEF BoardInit, ScreenInv, TrueSales, NoMap, Blank
<1>2. BoardInit => ScreenTypes
  BY PicturesOf DEF BoardInit, ScreenTypes
<1>3. ScreenInv => CleanInv
  BY DEF ScreenInv
<1> QED BY <1>1, <1>2, <1>3, ScreenStep, ScreenTypeStep, PTL DEF BoardSpec

(* Every screen shows each seat with one of its statuses and never with    *)
(* the token of the hold that locks it, and the booking flow under it is   *)
(* well typed although a failed map counts as a failure too.               *)
THEOREM BoardTypeCorrect == BoardSpec => []BoardTypeOK
<1>1. ScreenInv /\ ScreenTypes => BoardTypeOK
  BY DEF ScreenInv, ScreenTypes, BoardTypeOK, Maps, Pictures, Shows, CleanInv, AnswerInv, SaleInv,
     TypeInv
<1> QED BY <1>1, BoardAlways, PTL

(* No screen ever shows SOLD for a seat that is not sold, whatever events, *)
(* stale maps and failures reach it.                                       *)
THEOREM GreySeatsAreSold == BoardSpec => []SoldShownIsSold
<1>1. ScreenInv => SoldShownIsSold
  BY DEF ScreenInv, TrueSales, SoldShownIsSold
<1> QED BY <1>1, BoardAlways, PTL

(* The flow that screens watch, with the failures that only they cause,    *)
(* still is a plain sale of seats.                                         *)
THEOREM WatchedFlowImplementsSale == BoardSpec => RefinesSeatSale
<1>1. BoardInit => Sale!SaleInit
  BY DEF BoardInit, Init, Sale!SaleInit
<1>2. ScreenInv /\ [BoardNext]_boardVars => [Sale!SaleNext]_(Sale!saleVars)
  <2> SUFFICES ASSUME ScreenInv, [BoardNext]_boardVars PROVE [Sale!SaleNext]_(Sale!saleVars)
    OBVIOUS
  <2>1. SaleInv
    BY DEF ScreenInv, CleanInv, AnswerInv
  <2>2. [Next]_vars \/ UNCHANGED <<seat, booking>>
    BY BoardStepsFlow DEF boardVars, vars
  <2>3. CASE [Next]_vars
    BY <2>1, <2>3, SaleStepRefined
  <2>4. CASE UNCHANGED <<seat, booking>>
    BY <2>4 DEF Sale!saleVars
  <2> QED BY <2>2, <2>3, <2>4
<1> QED BY <1>1, <1>2, BoardAlways, PTL DEF BoardSpec, RefinesSeatSale, Sale!SaleSpec
=============================================================================
