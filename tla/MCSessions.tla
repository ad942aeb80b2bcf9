----------------------------- MODULE MCSessions -----------------------------
(* Instances of Sessions for TLC. *)
EXTENDS Sessions

CONSTANTS e1, b1, b2

(* Bound: the second browser only logs in, and stays logged in.  This      *)
(* forbids some of its Sends and its Logout, never a step of a call.       *)
SecondLogsIn ==
  /\ \A c \in Calls :
       req'[c] # req[c] /\ req'[c] # NoRequest /\ req'[c].by = b2 =>
         /\ req'[c].kind = "login" /\ req'[c].good
         /\ store[b2] = LoggedOut /\ ~Busy(b2)
  /\ store[b2] # LoggedOut => store'[b2] = store[b2]

MCSpec == Init /\ [][Next /\ SecondLogsIn]_vars /\ Fairness
=============================================================================
