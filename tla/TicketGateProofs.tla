-------------------------- MODULE TicketGateProofs --------------------------
(***************************************************************************)
(* What TicketGate and the scanner page over it guarantee for any number   *)
(* of seats, bookings, scans and failures, from the promises of SeatSale   *)
(* alone.                                                                  *)
(***************************************************************************)
EXTENDS ScanPage, TLAPS

-----------------------------------------------------------------------------
(* The sale *)

OrderRow == [status : {"NONE", "PENDING_PAYMENT", "PAID", "CANCELLED"},
             seats  : SUBSET Seats]

SaleTypes == free \subseteq Seats /\ order \in [Orders -> OrderRow]

(* Seats of a paid order are not free and belong to no other paid order. *)
SoldOnce ==
  \A a \in Orders :
    order[a].status = "PAID" =>
      /\ order[a].seats \cap free = {}
      /\ \A b \in Orders : b # a /\ order[b].status = "PAID" =>
           order[a].seats \cap order[b].seats = {}

SalePart == SaleTypes /\ SoldOnce

LEMMA SaleTypesStep == SaleTypes /\ [SaleNext]_saleVars => SaleTypes'
<1> SUFFICES ASSUME SaleTypes, [SaleNext]_saleVars PROVE SaleTypes'
    OBVIOUS
<1>1. ASSUME NEW o \in Orders, NEW S \in (SUBSET Seats) \ {{}}, Open(o, S)
      PROVE  SaleTypes'
  BY <1>1 DEF SaleTypes, Open, OrderRow
<1>2. ASSUME NEW o \in Orders, Sell(o)
      PROVE  SaleTypes'
  BY <1>2 DEF SaleTypes, Sell, OrderRow
<1>3. ASSUME NEW o \in Orders, Cancel(o)
      PROVE  SaleTypes'
  BY <1>3 DEF SaleTypes, Cancel, OrderRow
<1>4. CASE UNCHANGED saleVars
  BY <1>4 DEF SaleTypes, saleVars
<1> QED BY <1>1, <1>2, <1>3, <1>4 DEF SaleNext

LEMMA SalePartStep == SalePart /\ [SaleNext]_saleVars => SalePart'
<1> SUFFICES ASSUME SalePart, [SaleNext]_saleVars PROVE SalePart'
    OBVIOUS
<1>0. SaleTypes /\ SaleTypes' /\ SoldOnce
  BY SaleTypesStep DEF SalePart
<1>1. ASSUME NEW o \in Orders, NEW S \in (SUBSET Seats) \ {{}}, Open(o, S)
      PROVE  SoldOnce'
  <2>1. /\ free' = free
        /\ order'[o].status = "PENDING_PAYMENT"
        /\ \A a \in Orders : a # o => order'[a] = order[a]
    BY <1>0, <1>1 DEF Open, SaleTypes
  <2> QED BY <1>0, <2>1 DEF SoldOnce
<1>2. ASSUME NEW o \in Orders, Sell(o)
      PROVE  SoldOnce'
  <2>1. /\ free' = free \ order[o].seats
        /\ order[o].seats \subseteq free
        /\ order'[o].seats = order[o].seats
        /\ \A a \in Orders : a # o => order'[a] = order[a]
    BY <1>0, <1>2 DEF Sell, SaleTypes, OrderRow
  <2>2. ASSUME NEW a \in Orders, order'[a].status = "PAID"
        PROVE  /\ order'[a].seats \cap free' = {}
               /\ \A b \in Orders : b # a /\ order'[b].status = "PAID" =>
                    order'[a].seats \cap order'[b].seats = {}
    <3>1. CASE a = o
      BY <1>0, <2>1, <2>2, <3>1 DEF SoldOnce
    <3>2. CASE a # o
      BY <1>0, <2>1, <2>2, <3>2 DEF SoldOnce
    <3> QED BY <3>1, <3>2
  <2> QED BY <2>2 DEF SoldOnce
<1>3. ASSUME NEW o \in Orders, Cancel(o)
      PROVE  SoldOnce'
  <2>1. /\ free' = free
        /\ order'[o].status = "CANCELLED"
        /\ \A a \in Orders : a # o => order'[a] = order[a]
    BY <1>0, <1>3 DEF Cancel, SaleTypes, OrderRow
  <2> QED BY <1>0, <2>1 DEF SoldOnce
<1>4. CASE UNCHANGED saleVars
  BY <1>0, <1>4 DEF SalePart, SoldOnce, saleVars
<1> QED BY <1>0, <1>1, <1>2, <1>3, <1>4 DEF SaleNext, SalePart

(* Issued tickets stay issued and paid orders stay paid. *)
LEMMA SaleOnlyGrows ==
  ASSUME SaleTypes, [SaleNext]_saleVars, NEW t \in Pairs
  PROVE  /\ Issued(t) => Issued(t)'
         /\ Admissible(t) => Admissible(t)'
<1>0. t[1] \in Orders
  BY DEF Pairs
<1>1. ASSUME NEW o \in Orders, NEW S \in (SUBSET Seats) \ {{}}, Open(o, S)
      PROVE  order[t[1]].status # "NONE" => order'[t[1]] = order[t[1]]
  BY <1>0, <1>1 DEF Open, SaleTypes
<1>2. ASSUME NEW o \in Orders, Sell(o) \/ Cancel(o)
      PROVE  /\ order'[t[1]].seats = order[t[1]].seats
             /\ order[t[1]].status # "NONE" => order'[t[1]].status # "NONE"
             /\ order[t[1]].status = "PAID" => order'[t[1]].status = "PAID"
  BY <1>0, <1>2 DEF Sell, Cancel, SaleTypes, OrderRow
<1>3. CASE UNCHANGED saleVars
  BY <1>3 DEF saleVars, Issued, Admissible
<1> QED BY <1>1, <1>2, <1>3 DEF SaleNext, Issued, Admissible

-----------------------------------------------------------------------------
(* The gate *)

GateTypes ==
  /\ ended \in BOOLEAN
  /\ used \subseteq Pairs
  /\ scan \in [Scans -> [pc     : {"idle"} \cup ScanBusy \cup ScanDone,
                         ticket : Pairs \cup {NoTicket}]]
  /\ faults \in 0..MaxFaults

(* What each state of a scan knows: its ticket is issued from the start,   *)
(* paid once the transaction has read it, and used once it is admitted.    *)
ScanKnows(k) ==
  /\ scan[k].pc # "idle" => scan[k].ticket \in Pairs /\ Issued(scan[k].ticket)
  /\ scan[k].pc \in {"claiming", "admitted"} => Admissible(scan[k].ticket)
  /\ scan[k].pc = "admitted" => scan[k].ticket \in used

OneAdmissionPerTicket ==
  \A j, k \in Scans :
    j # k /\ scan[j].pc = "admitted" /\ scan[k].pc = "admitted"
      => scan[j].ticket # scan[k].ticket

GateInv ==
  /\ SalePart
  /\ GateTypes
  /\ \A k \in Scans : ScanKnows(k)
  /\ OneAdmissionPerTicket

LEMMA GateInit == Init => GateInv
<1> SUFFICES ASSUME Init PROVE GateInv
    OBVIOUS
<1>1. SalePart
  BY DEF Init, SaleInit, SalePart, SaleTypes, SoldOnce, OrderRow
<1>2. GateTypes
  <2>1. 0 \in 0..MaxFaults
    BY MaxFaultsAssumption
  <2>2. [pc |-> "idle", ticket |-> NoTicket]
          \in [pc : {"idle"} \cup ScanBusy \cup ScanDone, ticket : Pairs \cup {NoTicket}]
    OBVIOUS
  <2> QED BY <2>1, <2>2 DEF Init, GateTypes
<1>3. (\A k \in Scans : ScanKnows(k)) /\ OneAdmissionPerTicket
  BY DEF Init, ScanKnows, OneAdmissionPerTicket
<1> QED BY <1>1, <1>2, <1>3 DEF GateInv

LEMMA GateStep == GateInv /\ [Next]_vars => GateInv'
<1> SUFFICES ASSUME GateInv, [Next]_vars PROVE GateInv'
    OBVIOUS
<1>0. SalePart /\ SaleTypes /\ GateTypes /\ OneAdmissionPerTicket
      /\ \A k \in Scans : ScanKnows(k)
  BY DEF GateInv, SalePart
<1>1. ASSUME NEW k \in Scans, NEW t \in Pairs, ScanArrives(k, t)
      PROVE  GateInv'
  <2>1. SalePart'
    BY <1>0, <1>1 DEF ScanArrives, saleVars, SalePart, SaleTypes, SoldOnce
  <2>2. GateTypes'
    BY <1>0, <1>1 DEF ScanArrives, Verdict, GateTypes, ScanBusy, ScanDone
  <2>3. /\ scan'[k].pc \in {"invalid", "expired", "reading"} /\ scan'[k].ticket = t
        /\ \A j \in Scans : j # k => scan'[j] = scan[j]
        /\ UNCHANGED <<order, used>>
    BY <1>0, <1>1 DEF ScanArrives, Verdict, GateTypes, saleVars
  <2>4. ASSUME NEW j \in Scans PROVE ScanKnows(j)'
    <3>1. CASE j = k
      BY <1>1, <2>3, <3>1 DEF ScanKnows, Issued, ScanArrives, Verdict
    <3>2. CASE j # k
      BY <1>0, <2>3, <3>2 DEF ScanKnows, Issued, Admissible
    <3> QED BY <3>1, <3>2
  <2>5. OneAdmissionPerTicket'
    BY <1>0, <2>3 DEF OneAdmissionPerTicket
  <2> QED BY <2>1, <2>2, <2>4, <2>5 DEF GateInv
<1>2. ASSUME NEW k \in Scans, ScanRead(k) \/ ScanClaim(k) \/ ScanFault(k)
      PROVE  GateInv'
  <2>1. SalePart' /\ UNCHANGED order
    BY <1>0, <1>2
       DEF ScanRead, ScanClaim, ScanFault, saleVars, SalePart, SaleTypes, SoldOnce
  <2>2. scan[k].pc \in {"reading", "claiming"} /\ scan[k].ticket \in Pairs
    BY <1>0, <1>2 DEF ScanRead, ScanClaim, ScanFault, ScanBusy, ScanKnows
  <2>3. GateTypes'
    BY <1>0, <1>2, <2>2, MaxFaultsAssumption
       DEF ScanRead, ScanClaim, ScanFault, ScanPc, CheckIn, GateTypes, ScanBusy, ScanDone
  <2>4. /\ scan'[k].ticket = scan[k].ticket
        /\ \A j \in Scans : j # k => scan'[j] = scan[j]
        /\ used \subseteq used'
    BY <1>0, <1>2 DEF ScanRead, ScanClaim, ScanFault, ScanPc, CheckIn, GateTypes
  <2>5. /\ scan'[k].pc \in {"claiming", "unpaid", "admitted", "alreadyUsed", "error"}
        /\ scan'[k].pc \in {"claiming", "admitted"} => Admissible(scan[k].ticket)
        /\ scan'[k].pc = "admitted" =>
             scan[k].ticket \notin used /\ scan[k].ticket \in used'
    BY <1>0, <1>2
       DEF ScanRead, ScanClaim, ScanFault, ScanPc, CheckIn, Unused, GateTypes, ScanKnows
  <2>6. ASSUME NEW j \in Scans PROVE ScanKnows(j)'
    <3>1. CASE j = k
      BY <1>0, <2>1, <2>2, <2>4, <2>5, <3>1 DEF ScanKnows, Issued, Admissible
    <3>2. CASE j # k
      BY <1>0, <2>1, <2>4, <3>2 DEF ScanKnows, Issued, Admissible
    <3> QED BY <3>1, <3>2
  <2>7. OneAdmissionPerTicket'
    BY <1>0, <2>4, <2>5 DEF OneAdmissionPerTicket, ScanKnows
  <2> QED BY <2>1, <2>3, <2>6, <2>7 DEF GateInv
<1>3. CASE ShowtimeEnds \/ UNCHANGED vars
  BY <1>0, <1>3
     DEF ShowtimeEnds, vars, saleVars, gateVars, GateInv, GateTypes, ScanKnows, Issued, Admissible,
         OneAdmissionPerTicket, SalePart, SaleTypes, SoldOnce
<1>4. CASE SaleStep
  <2>1. SalePart'
    BY <1>0, <1>4, SalePartStep DEF SaleStep
  <2>2. UNCHANGED <<ended, used, scan, faults>>
    BY <1>4 DEF SaleStep, gateVars
  <2>3. GateTypes' /\ OneAdmissionPerTicket'
    BY <1>0, <2>2 DEF GateTypes, OneAdmissionPerTicket
  <2>4. ASSUME NEW k \in Scans PROVE ScanKnows(k)'
    <3>1. CASE scan[k].pc = "idle"
      BY <2>2, <3>1 DEF ScanKnows
    <3>2. CASE scan[k].pc # "idle"
      <4>1. scan[k].ticket \in Pairs
        BY <1>0, <3>2 DEF ScanKnows
      <4>2. /\ Issued(scan[k].ticket) => order'[scan[k].ticket[1]].status # "NONE"
                                  /\ scan[k].ticket[2] \in order'[scan[k].ticket[1]].seats
            /\ Admissible(scan[k].ticket) => order'[scan[k].ticket[1]].status = "PAID"
        BY <1>0, <1>4, <4>1, SaleOnlyGrows DEF SaleStep, Issued, Admissible
      <4> QED BY <1>0, <2>2, <3>2, <4>1, <4>2 DEF ScanKnows, Issued, Admissible
    <3> QED BY <3>1, <3>2
  <2> QED BY <2>1, <2>3, <2>4 DEF GateInv
<1> QED BY <1>1, <1>2, <1>3, <1>4 DEF Next

LEMMA GateAlways == Spec => []GateInv
BY GateInit, GateStep, PTL DEF Spec

-----------------------------------------------------------------------------
(* Every reachable state of the turnstile and the sale is well typed. *)
THEOREM GateTypeCorrect == Spec => []TypeOK
<1>1. GateInv => TypeOK
  BY DEF GateInv, SalePart, SaleTypes, GateTypes, TypeOK, OrderRow
<1> QED BY <1>1, GateAlways, PTL

(* Two scans that admit name different seats: different tickets of one     *)
(* order have different seats, and paid orders share none.                 *)
THEOREM NobodySharesASeat == Spec => []OneAdmissionPerSeat
<1>1. GateInv => OneAdmissionPerSeat
  <2> SUFFICES ASSUME GateInv, NEW j \in Scans, NEW k \in Scans, j # k,
                      scan[j].pc = "admitted", scan[k].pc = "admitted",
                      scan[j].ticket[2] = scan[k].ticket[2]
               PROVE  FALSE
    BY DEF OneAdmissionPerSeat
  <2>1. scan[j].ticket \in Pairs /\ scan[k].ticket \in Pairs
        /\ scan[j].ticket # scan[k].ticket
    BY DEF GateInv, ScanKnows, OneAdmissionPerTicket
  <2>2. scan[j].ticket[1] # scan[k].ticket[1]
    BY <2>1 DEF Pairs
  <2>3. /\ scan[j].ticket[1] \in Orders /\ scan[k].ticket[1] \in Orders
        /\ order[scan[j].ticket[1]].status = "PAID"
        /\ order[scan[k].ticket[1]].status = "PAID"
        /\ scan[j].ticket[2] \in order[scan[j].ticket[1]].seats
        /\ scan[k].ticket[2] \in order[scan[k].ticket[1]].seats
    BY <2>1 DEF GateInv, ScanKnows, Issued, Admissible, Pairs
  <2> QED BY <2>2, <2>3 DEF GateInv, SalePart, SoldOnce
<1> QED BY <1>1, GateAlways, PTL

(* Whoever was admitted holds an issued ticket of a paid booking. *)
THEOREM OnlyPaidAdmitted == Spec => []AdmittedHasPaid
<1>1. GateInv => AdmittedHasPaid
  BY DEF GateInv, ScanKnows, Admissible, AdmittedHasPaid
<1> QED BY <1>1, GateAlways, PTL

-----------------------------------------------------------------------------
(* Whoever checked a ticket in is still there to be named: a call that     *)
(* ended stays as it ended.                                                *)
UsedHasACause ==
  \A t \in used : \E j \in Scans :
    scan[j].ticket = t /\ scan[j].pc \in {"admitted", "error"}

CauseInv == GateInv /\ UsedHasACause /\ RefusalHasACause

LEMMA CauseStep == CauseInv /\ [Next]_vars => CauseInv'
<1> SUFFICES ASSUME CauseInv, [Next]_vars PROVE CauseInv'
    OBVIOUS
<1>0. GateInv /\ GateInv' /\ UsedHasACause /\ RefusalHasACause
      /\ scan \in [Scans -> [pc     : {"idle"} \cup ScanBusy \cup ScanDone,
                             ticket : Pairs \cup {NoTicket}]]
  BY GateStep DEF CauseInv, GateInv, GateTypes
<1>whole. UsedHasACause' /\ RefusalHasACause' => CauseInv'
  BY <1>0 DEF CauseInv
<1>1. ASSUME NEW k \in Scans, NEW t \in Pairs, ScanArrives(k, t)
      PROVE  CauseInv'
  <2>1. /\ scan[k].pc = "idle" /\ used' = used
        /\ scan'[k].pc \in {"invalid", "expired", "reading"}
        /\ \A j \in Scans : j # k => scan'[j] = scan[j]
    BY <1>0, <1>1 DEF ScanArrives, Verdict
  <2>2. \A j \in Scans : scan[j].pc \in {"admitted", "error"} => scan'[j] = scan[j]
    BY <2>1
  <2>3. UsedHasACause'
    BY <1>0, <2>1, <2>2 DEF UsedHasACause
  <2>4. RefusalHasACause'
    BY <1>0, <2>1, <2>2 DEF RefusalHasACause
  <2> QED BY <1>whole, <2>3, <2>4
<1>2. ASSUME NEW k \in Scans, ScanRead(k) \/ ScanClaim(k) \/ ScanFault(k)
      PROVE  CauseInv'
  <2>1. /\ scan[k].pc \in {"reading", "claiming"}
        /\ scan'[k].ticket = scan[k].ticket
        /\ \A j \in Scans : j # k => scan'[j] = scan[j]
    BY <1>0, <1>2 DEF ScanRead, ScanClaim, ScanFault, ScanPc, ScanBusy
  <2>2. \A j \in Scans : scan[j].pc \in {"admitted", "error"} => j # k /\ scan'[j] = scan[j]
    BY <2>1
  <2>3. \/ used' = used
        \/ /\ used' = used \cup {scan[k].ticket}
           /\ scan'[k].pc \in {"admitted", "error"}
    BY <1>0, <1>2 DEF ScanRead, ScanClaim, ScanFault, ScanPc, CheckIn
  <2>4. UsedHasACause'
    BY <1>0, <2>1, <2>2, <2>3 DEF UsedHasACause
  <2>5. scan'[k].pc = "alreadyUsed" => scan[k].ticket \in used
    BY <1>0, <1>2 DEF ScanRead, ScanClaim, ScanFault, ScanPc, Unused
  <2>6. ASSUME NEW i \in Scans, scan'[i].pc = "alreadyUsed"
        PROVE  \E j \in Scans : /\ j # i /\ scan'[j].ticket = scan'[i].ticket
                                /\ scan'[j].pc \in {"admitted", "error"}
    <3>1. CASE i = k
      <4>1. PICK j \in Scans : /\ scan[j].ticket = scan[k].ticket
                               /\ scan[j].pc \in {"admitted", "error"}
        BY <1>0, <2>5, <2>6, <3>1 DEF UsedHasACause
      <4> QED BY <2>1, <2>2, <3>1, <4>1
    <3>2. CASE i # k
      <4>1. PICK j \in Scans : /\ j # i /\ scan[j].ticket = scan[i].ticket
                               /\ scan[j].pc \in {"admitted", "error"}
        BY <1>0, <2>1, <2>6, <3>2 DEF RefusalHasACause
      <4> QED BY <2>1, <2>2, <3>2, <4>1
    <3> QED BY <3>1, <3>2
  <2>7. RefusalHasACause'
    BY <2>6 DEF RefusalHasACause
  <2> QED BY <1>whole, <2>4, <2>7
<1>3. CASE ShowtimeEnds \/ SaleStep \/ UNCHANGED vars
  <2>1. UNCHANGED <<used, scan>>
    BY <1>3 DEF ShowtimeEnds, SaleStep, vars, gateVars
  <2>2. UsedHasACause' /\ RefusalHasACause'
    BY <1>0, <2>1 DEF UsedHasACause, RefusalHasACause
  <2> QED BY <1>whole, <2>2
<1> QED BY <1>1, <1>2, <1>3 DEF Next

(* A call that is told "already checked in" can name another call that     *)
(* checked its ticket in, or that failed on it.                            *)
THEOREM NobodyTurnedAwayForNothing == Spec => []RefusalHasACause
<1>1. Init => CauseInv
  <2>1. Init => UsedHasACause /\ RefusalHasACause
    BY DEF Init, UsedHasACause, RefusalHasACause
  <2> QED BY <2>1, GateInit DEF CauseInv
<1>2. CauseInv => RefusalHasACause
  BY DEF CauseInv
<1> QED BY <1>1, <1>2, CauseStep, PTL DEF Spec
-----------------------------------------------------------------------------
(* The scanner page: it shows the right colour for the right ticket. *)

(* The page awaits at most one call, and that call is for the token it     *)
(* shows.                                                                  *)
OneAtATime ==
  /\ awaited # {} => verifying
  /\ \A j, k \in awaited : j = k
  /\ \A k \in awaited : token = scan[k].ticket

(* What is shown was answered by a call that the page no longer awaits.    *)
ShownWasAnswered ==
  verdict # NoVerdict =>
    /\ token = verdict.ticket
    /\ verdict.status = "VALID" =>
         \E k \in Scans \ awaited : scan[k].pc = "admitted" /\ scan[k].ticket = verdict.ticket

PageTypes ==
  /\ awaited \subseteq Scans
  /\ verifying \in BOOLEAN
  /\ \A k \in awaited : scan[k].pc # "idle"

PageInv == GateInv /\ PageTypes /\ OneAtATime /\ ShownWasAnswered

(* Calls only go forward: an arrived call keeps its ticket, an admitted    *)
(* one stays admitted.                                                     *)
LEMMA ScansGoOn ==
  ASSUME GateTypes, [Next]_vars, NEW k \in Scans, scan[k].pc # "idle"
  PROVE  /\ scan'[k].pc # "idle" /\ scan'[k].ticket = scan[k].ticket
         /\ scan[k].pc = "admitted" => scan'[k].pc = "admitted"
<1> DEFINE Goal == /\ scan'[k].pc # "idle" /\ scan'[k].ticket = scan[k].ticket
                   /\ scan[k].pc = "admitted" => scan'[k].pc = "admitted"
<1>0. scan \in [Scans -> [pc     : {"idle"} \cup ScanBusy \cup ScanDone,
                          ticket : Pairs \cup {NoTicket}]]
  BY DEF GateTypes
<1>1. ASSUME NEW j \in Scans, NEW t \in Pairs, ScanArrives(j, t) PROVE Goal
  BY <1>0, <1>1 DEF ScanArrives
<1>2. ASSUME NEW j \in Scans, ScanRead(j) \/ ScanClaim(j) \/ ScanFault(j) PROVE Goal
  BY <1>0, <1>2 DEF ScanRead, ScanClaim, ScanFault, ScanPc, ScanBusy
<1>3. CASE ShowtimeEnds \/ SaleStep \/ UNCHANGED vars
  BY <1>3 DEF ShowtimeEnds, SaleStep, vars, gateVars
<1> QED BY <1>1, <1>2, <1>3 DEF Next

LEMMA PageStep == PageInv /\ [ScreenNext]_screenVars => PageInv'
<1> SUFFICES ASSUME PageInv, [ScreenNext]_screenVars PROVE PageInv'
    OBVIOUS
<1>0. GateInv /\ PageTypes /\ OneAtATime /\ ShownWasAnswered /\ GateTypes
  BY DEF PageInv, GateInv
<1>1. [Next]_vars
  BY DEF ScreenNext, onScanSuccess, handleManualSubmit, verifyTicket, VerdictArrives,
         handleReset, Reopen, Turnstiles, Next, screenVars
<1>2. GateInv'
  BY <1>0, <1>1, GateStep
<1>whole. PageTypes' /\ OneAtATime' /\ ShownWasAnswered' => PageInv'
  BY <1>2 DEF PageInv
<1>goOn. \A k \in Scans : scan[k].pc # "idle" =>
           /\ scan'[k].pc # "idle" /\ scan'[k].ticket = scan[k].ticket
           /\ scan[k].pc = "admitted" => scan'[k].pc = "admitted"
  BY <1>0, <1>1, ScansGoOn
<1>3. ASSUME NEW k \in Scans, NEW t \in Pairs, verifyTicket(k, t), ~verifying
      PROVE  PageInv'
  <2>1. /\ scan[k].pc = "idle" /\ scan'[k].ticket = t /\ scan'[k].pc # "idle"
        /\ token' = t /\ verifying' = TRUE /\ verdict' = NoVerdict
        /\ awaited' = awaited \cup {k}
    BY <1>0, <1>3 DEF verifyTicket, ScanArrives, Verdict, GateTypes
  <2>2. PageTypes'
    BY <1>0, <1>3, <1>goOn, <2>1 DEF PageTypes
  <2>3. awaited = {}
    BY <1>0, <1>3 DEF PageTypes, OneAtATime
  <2>4. OneAtATime'
    BY <2>1, <2>3 DEF OneAtATime
  <2>5. ShownWasAnswered'
    BY <2>1 DEF ShownWasAnswered, NoVerdict
  <2> QED BY <1>whole, <2>2, <2>4, <2>5
<1>4. CASE handleReset \/ Reopen
  <2>1. /\ verdict' = NoVerdict /\ awaited' = {} /\ verifying' \in BOOLEAN
    BY <1>0, <1>4 DEF handleReset, Reopen, PageTypes, OneAtATime
  <2>2. PageTypes' /\ OneAtATime' /\ ShownWasAnswered'
    BY <1>0, <2>1 DEF PageTypes, OneAtATime, ShownWasAnswered, NoVerdict
  <2> QED BY <1>whole, <2>2
<1>5. ASSUME NEW k \in Scans, VerdictArrives(k)
      PROVE  PageInv'
  <2>1. PICK status \in {"INVALID"} \cup (IF scan[k].pc = "admitted" THEN {"VALID"} ELSE {}) :
          verdict' = [status |-> status, ticket |-> scan[k].ticket]
    BY <1>5 DEF VerdictArrives
  <2>2. /\ k \in awaited /\ awaited' = awaited \ {k} /\ verifying' = FALSE
        /\ UNCHANGED <<scan, token>>
    BY <1>5 DEF VerdictArrives, vars, gateVars
  <2>3. PageTypes'
    BY <1>0, <2>2 DEF PageTypes
  <2>4. OneAtATime'
    BY <1>0, <2>2 DEF OneAtATime
  <2>5. verdict'.status = "VALID" =>
          scan[k].pc = "admitted" /\ scan[k].ticket = verdict'.ticket
    BY <2>1
  <2>6. token = verdict'.ticket
    BY <1>0, <2>1, <2>2 DEF OneAtATime
  <2>7. ShownWasAnswered'
    BY <2>2, <2>5, <2>6 DEF ShownWasAnswered
  <2> QED BY <1>whole, <2>3, <2>4, <2>7
<1>6. CASE Turnstiles \/ UNCHANGED screenVars
  <2>1. UNCHANGED <<token, verifying, verdict, awaited>>
    BY <1>6 DEF Turnstiles, pageVars, screenVars
  <2>2. PageTypes'
    BY <1>0, <1>goOn, <2>1 DEF PageTypes
  <2>3. OneAtATime'
    <3>1. \A k \in awaited : scan'[k].ticket = scan[k].ticket
      BY <1>0, <1>goOn DEF PageTypes
    <3> QED BY <1>0, <2>1, <3>1 DEF OneAtATime
  <2>4. ShownWasAnswered'
    <3>1. \A k \in Scans \ awaited : scan[k].pc = "admitted" =>
            scan'[k].pc = "admitted" /\ scan'[k].ticket = scan[k].ticket
      BY <1>goOn
    <3> QED BY <1>0, <2>1, <3>1 DEF ShownWasAnswered, NoVerdict
  <2> QED BY <1>whole, <2>2, <2>3, <2>4
<1> QED BY <1>3, <1>4, <1>5, <1>6 DEF ScreenNext, onScanSuccess, CameraReady, handleManualSubmit

(* The colour is always that of the token shown, and the page is green     *)
(* only for a ticket that this very call, and no other one, checked in.    *)
THEOREM ColourIsRight == ScreenSpec => []VerdictFitsToken
<1>1. ScreenInit => PageInv
  <2>1. ScreenInit => PageTypes /\ OneAtATime /\ ShownWasAnswered
    BY DEF ScreenInit, PageTypes, OneAtATime, ShownWasAnswered
  <2> QED BY <2>1, GateInit DEF ScreenInit, PageInv
<1>2. PageInv => VerdictFitsToken
  BY DEF PageInv, GateInv, OneAdmissionPerTicket, ShownWasAnswered, VerdictFitsToken
<1> QED BY <1>1, <1>2, PageStep, PTL DEF ScreenSpec
=============================================================================
