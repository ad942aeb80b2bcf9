------------------------------- MODULE ScanPage -------------------------------
(***************************************************************************)
(* The scanner page of an usher over the turnstile service: the camera     *)
(* reads tokens, or the usher types one, verify-qr is called, and the page *)
(* turns green or red.  The camera's callback is registered once, when the *)
(* page opens, so it cannot see the page's state; two refs tell it what is *)
(* shown and whether a token is being verified.  The buttons are disabled  *)
(* or not there meanwhile.  Other scanners call verify-qr as well          *)
(* (TicketGate).  A state change and the render that shows it are one      *)
(* step.                                                                   *)
(***************************************************************************)
EXTENDS TicketGate

VARIABLES
  token,      \* scanResult: the token that the page shows, or NoTicket
  verifying,  \* isVerifying
  verdict,    \* ticketDetails: a status, with the ticket that was verified
  awaited     \* calls whose answers this page awaits

pageVars == <<token, verifying, verdict, awaited>>
screenVars == <<vars, pageVars>>

NoVerdict == [status |-> "NONE", ticket |-> NoTicket]

ScreenInit ==
  /\ Init
  /\ token = NoTicket /\ verifying = FALSE
  /\ verdict = NoVerdict /\ awaited = {}

(* The call is sent, and what was shown before disappears. *)
verifyTicket(k, t) ==
  /\ ScanArrives(k, t)
  /\ token' = t /\ verifying' = TRUE
  /\ verdict' = NoVerdict
  /\ awaited' = awaited \cup {k}

CameraReadyBug(t) == t # NoTicket

(* The camera reports what it sees many times a second. *)
CameraReady(t) == t # token /\ ~verifying

onScanSuccess(k, t) == CameraReady(t) /\ verifyTicket(k, t)

(* The form's button is disabled while a token is verified. *)
handleManualSubmit(k, t) == ~verifying /\ verifyTicket(k, t)

(* The button is part of a verdict that is shown. *)
handleReset ==
  /\ verdict # NoVerdict /\ ~verifying
  /\ token' = NoTicket /\ verdict' = NoVerdict
  /\ UNCHANGED <<vars, verifying, awaited>>

(* An answer; one that is lost looks like a refusal. *)
VerdictArrives(k) ==
  /\ k \in awaited /\ scan[k].pc \in ScanDone
  /\ \E status \in {"INVALID"} \cup (IF scan[k].pc = "admitted" THEN {"VALID"} ELSE {}) :
       verdict' = [status |-> status, ticket |-> scan[k].ticket]
  /\ verifying' = FALSE
  /\ awaited' = awaited \ {k}
  /\ UNCHANGED <<vars, token>>

(* The usher leaves the page and comes back; what the old page awaited is  *)
(* shown nowhere.                                                          *)
Reopen ==
  /\ token' = NoTicket /\ verifying' = FALSE
  /\ verdict' = NoVerdict /\ awaited' = {}
  /\ UNCHANGED vars

Turnstiles ==
  /\ \/ \E k \in Scans :
          \/ \E t \in Pairs : ScanArrives(k, t)
          \/ ScanRead(k) \/ ScanClaim(k) \/ ScanFault(k)
     \/ ShowtimeEnds \/ SaleStep
  /\ UNCHANGED pageVars

ScreenNext ==
  \/ \E k \in Scans :
       \/ \E t \in Pairs : onScanSuccess(k, t) \/ handleManualSubmit(k, t)
       \/ VerdictArrives(k)
  \/ handleReset \/ Reopen
  \/ Turnstiles

ScreenSpec == ScreenInit /\ [][ScreenNext]_screenVars
-----------------------------------------------------------------------------
(* The colour of the screen is that of the token on it: no answer of an    *)
(* earlier scan paints the ticket now in front of the camera.  Green also  *)
(* means that this call, and no other one, checked the ticket in.          *)
VerdictFitsToken ==
  verdict # NoVerdict =>
    /\ token = verdict.ticket
    /\ verdict.status = "VALID" =>
         \E k \in Scans \ awaited :
           /\ scan[k].pc = "admitted" /\ scan[k].ticket = verdict.ticket
           /\ \A j \in Scans \ {k} : scan[j].ticket = verdict.ticket => scan[j].pc # "admitted"
=============================================================================
