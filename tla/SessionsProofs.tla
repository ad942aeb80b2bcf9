--------------------------- MODULE SessionsProofs ---------------------------
(***************************************************************************)
(* What the accounts and the rotating refresh tokens of Sessions guarantee *)
(* for any number of users, browsers and calls, whatever is lost.          *)
(***************************************************************************)
EXTENDS Sessions, TLAPS

-----------------------------------------------------------------------------
(* Types *)

CallTypes ==
  /\ pc \in [Calls -> {"idle", "done"} \cup InFlight]
  /\ req \in [Calls -> Requests \cup {NoRequest}]
  /\ token \in [Calls -> Tokens \cup {NoToken, MadeUp}]
  /\ row \in [Calls -> RowIds \cup {NoRow}]
  /\ again \in [Calls -> BOOLEAN]

(* The states of a call in which it carries a signed token. *)
Signed == {"saving", "ok", "acting", "deleting", "rotating", "refreshed"}

(* What a call under way knows: who asked for it, the token it was given   *)
(* or has redeemed, the row it found.                                      *)
CallKnows(c) ==
  /\ pc[c] \in InFlight => req[c] \in Requests
  /\ pc[c] \in Signed => token[c] \in Tokens
  /\ pc[c] = "deleting" => row[c] \in RowIds

CallPart == CallTypes /\ \A c \in Calls : CallKnows(c)

RowPart ==
  /\ now \in Nat
  /\ account \in [Ids -> Accounts]
  /\ rows \in [RowIds -> Rows \cup {NoRow}]
  /\ NoSessionOfRemoved

ScreenPart == store \in [Browsers -> Stores]

HistoryPart ==
  /\ redeemers \in [RowIds -> SUBSET Calls]
  /\ calm \in [Browsers -> BOOLEAN]

(* That tokens name a role rests on NoSessionOfRemoved: a rotation copies  *)
(* the role of the row's user, who must still be there.                    *)
SessionInv == CallPart /\ RowPart /\ ScreenPart /\ HistoryPart

-----------------------------------------------------------------------------
(* Moving a call *)

LEMMA StepKeeps ==
  ASSUME CallPart, NEW c \in Calls, pc[c] \in InFlight,
         NEW to \in InFlight, NEW t \in Tokens \cup {NoToken, MadeUp},
         Step(c, to, t), UNCHANGED <<req, again>>,
         to \in Signed => t \in Tokens,
         \/ to # "deleting" /\ UNCHANGED row
         \/ \E r \in RowIds : row' = [row EXCEPT ![c] = r]
  PROVE  CallPart'
<1>1. CallTypes'
  BY DEF CallPart, CallTypes, Step
<1>2. ASSUME NEW d \in Calls PROVE CallKnows(d)'
  BY <1>1 DEF CallPart, CallTypes, CallKnows, Step
<1> QED BY <1>1, <1>2 DEF CallPart

LEMMA SettleKeeps ==
  ASSUME CallPart, NEW c \in Calls, Settle(c)
  PROVE  CallPart'
<1>1. CallTypes'
  BY DEF CallPart, CallTypes, Settle
<1>2. ASSUME NEW d \in Calls PROVE CallKnows(d)'
  BY <1>1 DEF CallPart, CallTypes, CallKnows, Settle, InFlight, Serving, Answered, Refreshing,
     NoRefresh, Signed
<1> QED BY <1>1, <1>2 DEF CallPart

LEMMA MintSigned ==
  ASSUME RowPart, NEW i \in Ids, Live(i)
  PROVE  Mint(i) \in Tokens
  BY DEF RowPart, Live, Mint, Tokens, Accounts

(* A new row has its user, so it can be added. *)
LEMMA SaveRowKeeps ==
  ASSUME RowPart, NEW r \in RowIds, NEW t \in Tokens, Storable(t), SaveRow(r, t),
         UNCHANGED <<now, account>>
  PROVE  RowPart'
<1>1. now + RefreshLife \in Nat
  BY LivesAssumption DEF RowPart
<1>2. rows' \in [RowIds -> Rows \cup {NoRow}]
  BY <1>1 DEF RowPart, SaveRow, Rows
<1>3. NoSessionOfRemoved'
  BY DEF RowPart, NoSessionOfRemoved, SaveRow, Storable, Live
<1> QED BY <1>2, <1>3 DEF RowPart

LEMMA SessionInit == Init => SessionInv
<1> SUFFICES ASSUME Init PROVE SessionInv
    OBVIOUS
<1>1. CallPart
  BY DEF Init, CallPart, CallTypes, CallKnows, InFlight, Serving, Answered, Refreshing,
     NoRefresh, Signed
<1>2. RowPart
  BY DEF Init, RowPart, NoSessionOfRemoved
<1>3. ScreenPart
  BY DEF Init, ScreenPart, LoggedOut, Stores, Roles
<1>4. HistoryPart
  BY DEF Init, HistoryPart
<1> QED BY <1>1, <1>2, <1>3, <1>4 DEF SessionInv

LEMMA SessionStep == SessionInv /\ [Next]_vars => SessionInv'
<1> SUFFICES ASSUME SessionInv, [Next]_vars PROVE SessionInv'
    OBVIOUS
<1>0. CallPart /\ RowPart /\ ScreenPart /\ HistoryPart /\ CallTypes
      /\ \A c \in Calls : CallKnows(c)
  BY DEF SessionInv, CallPart
<1>whole. CallPart' /\ RowPart' /\ ScreenPart' /\ HistoryPart' => SessionInv'
  BY DEF SessionInv
<1>rows. UNCHANGED <<now, account, rows>> => RowPart'
  BY <1>0 DEF RowPart, NoSessionOfRemoved, Live
<1>screen. UNCHANGED store => ScreenPart'
  BY <1>0 DEF ScreenPart
<1>history. UNCHANGED history => HistoryPart'
  BY <1>0 DEF HistoryPart, history
<1>token. \A c \in Calls : token[c] \in Tokens \cup {NoToken, MadeUp}
  BY <1>0 DEF CallTypes
<1>pcs. /\ "sent" \in InFlight /\ "creating" \in InFlight /\ "saving" \in InFlight
        /\ "acting" \in InFlight /\ "ok" \in InFlight /\ "unauthorized" \in InFlight
        /\ "refused" \in InFlight /\ "refreshing" \in InFlight /\ "deleting" \in InFlight
        /\ "rotating" \in InFlight /\ "refreshed" \in InFlight /\ "absent" \in InFlight
        /\ "expired" \in InFlight /\ "clash" \in InFlight /\ "broken" \in InFlight
  BY DEF InFlight, Serving, Answered, Refreshing, NoRefresh
<1>1. ASSUME NEW c \in Calls, Login(c) \/ Register(c)
      PROVE  SessionInv'
  <2>1. \/ \E to \in {"unauthorized", "refused", "creating"} : Step(c, to, token[c])
        \/ \E t \in Tokens : Step(c, "saving", t)
    BY <1>0, <1>1, MintSigned DEF Login, Register
  <2>2. pc[c] \in InFlight /\ UNCHANGED <<req, row, again>>
    BY <1>1, <1>pcs DEF Login, Register, Asked
  <2>3. CallPart'
    BY <1>0, <1>token, <1>pcs, <2>1, <2>2, StepKeeps DEF Signed
  <2> QED BY <1>1, <1>whole, <1>rows, <1>screen, <1>history, <2>3 DEF Login, Register
<1>2. ASSUME NEW c \in Calls, NEW i \in Ids, CreateUser(c, i)
      PROVE  SessionInv'
  <2>0. pc[c] \in InFlight /\ req[c] \in Requests /\ UNCHANGED <<req, row, again>>
    BY <1>0, <1>2, <1>pcs DEF CreateUser, CallKnows
  <2>1. [user |-> i, role |-> "CUSTOMER", iat |-> now] \in Tokens
    BY <1>0 DEF RowPart, Tokens, Roles
  <2>2. \/ Step(c, "refused", token[c])
        \/ Step(c, "saving", [user |-> i, role |-> "CUSTOMER", iat |-> now])
    BY <1>2 DEF CreateUser
  <2>3. CallPart'
    BY <1>0, <1>token, <1>pcs, <2>0, <2>1, <2>2, StepKeeps DEF Signed
  <2>4. RowPart'
    <3>1. CASE UNCHANGED account
      BY <1>2, <1>rows, <3>1 DEF CreateUser
    <3>2. CASE account' = [account EXCEPT ![i] = [role |-> "CUSTOMER", email |-> req[c].email]]
      <4>1. account' \in [Ids -> Accounts]
        BY <1>0, <2>0, <3>2 DEF RowPart, Accounts, Roles, Requests
      <4>2. \A j \in Ids : Live(j) => Live(j)'
        BY <1>0, <3>2 DEF RowPart, Live, Roles
      <4>3. \A r \in RowIds : rows[r] # NoRow => rows[r].token.user \in Ids
        BY <1>0 DEF RowPart, Rows, Tokens
      <4> QED BY <1>0, <1>2, <4>1, <4>2, <4>3 DEF RowPart, NoSessionOfRemoved, CreateUser
    <3> QED BY <1>2, <3>1, <3>2 DEF CreateUser
  <2> QED BY <1>2, <1>whole, <1>screen, <1>history, <2>3, <2>4 DEF CreateUser
<1>3. ASSUME NEW c \in Calls, Save(c)
      PROVE  SessionInv'
  <2>0. pc[c] \in InFlight /\ token[c] \in Tokens /\ UNCHANGED <<req, row, again>>
    BY <1>0, <1>3, <1>pcs DEF Save, CallKnows, Signed
  <2>1. Step(c, "ok", token[c]) \/ Step(c, "refused", token[c])
    BY <1>3 DEF Save
  <2>2. CallPart'
    BY <1>0, <1>pcs, <2>0, <2>1, StepKeeps DEF Signed
  <2>3. RowPart'
    <3>1. <<c, "login">> \in RowIds
      BY DEF RowIds
    <3>2. UNCHANGED <<now, account>>
      BY <1>3 DEF Save
    <3>3. UNCHANGED rows \/ (Storable(token[c]) /\ SaveRow(<<c, "login">>, token[c]))
      BY <1>3 DEF Save
    <3> QED BY <1>0, <1>rows, <2>0, <3>1, <3>2, <3>3, SaveRowKeeps
  <2> QED BY <1>3, <1>whole, <1>screen, <1>history, <2>2, <2>3 DEF Save
<1>4. ASSUME NEW c \in Calls, Authorize(c)
      PROVE  SessionInv'
  <2>1. \/ Step(c, "unauthorized", token[c]) \/ Step(c, "refused", token[c])
        \/ (Step(c, "ok", token[c]) \/ Step(c, "acting", token[c])) /\ token[c] \in Tokens
    BY <1>4 DEF Authorize, Accepted
  <2>2. pc[c] \in InFlight /\ UNCHANGED <<req, row, again>>
    BY <1>4, <1>pcs DEF Authorize, Asked
  <2>3. CallPart'
    BY <1>0, <1>token, <1>pcs, <2>1, <2>2, StepKeeps DEF Signed
  <2> QED BY <1>4, <1>whole, <1>rows, <1>screen, <1>history, <2>3 DEF Authorize
<1>5. ASSUME NEW c \in Calls, NEW i \in Ids, NEW role \in Roles, UpdateRole(c, i, role)
      PROVE  SessionInv'
  <2>0. pc[c] \in InFlight /\ token[c] \in Tokens /\ UNCHANGED <<req, row, again>>
    BY <1>0, <1>5, <1>pcs DEF UpdateRole, CallKnows, Signed
  <2>1. Step(c, "ok", token[c]) \/ Step(c, "refused", token[c])
    BY <1>5 DEF UpdateRole
  <2>2. CallPart'
    BY <1>0, <1>pcs, <2>0, <2>1, StepKeeps DEF Signed
  <2>3. RowPart'
    <3>1. CASE UNCHANGED account
      BY <1>5, <1>rows, <3>1 DEF UpdateRole
    <3>2. CASE account' = [account EXCEPT ![i] = [role |-> role, email |-> account[i].email]]
      <4>1. account' \in [Ids -> Accounts]
        BY <1>0, <3>2 DEF RowPart, Accounts
      <4>2. \A j \in Ids : Live(j) => Live(j)'
        BY <1>0, <3>2 DEF RowPart, Live
      <4>3. \A r \in RowIds : rows[r] # NoRow => rows[r].token.user \in Ids
        BY <1>0 DEF RowPart, Rows, Tokens
      <4> QED BY <1>0, <1>5, <4>1, <4>2, <4>3 DEF RowPart, NoSessionOfRemoved, UpdateRole
    <3> QED BY <1>5, <3>1, <3>2 DEF UpdateRole
  <2> QED BY <1>5, <1>whole, <1>screen, <1>history, <2>2, <2>3 DEF UpdateRole
<1>6. ASSUME NEW c \in Calls, NEW i \in Ids, RemoveUser(c, i)
      PROVE  SessionInv'
  <2>0. pc[c] \in InFlight /\ token[c] \in Tokens /\ UNCHANGED <<req, row, again>>
    BY <1>0, <1>6, <1>pcs DEF RemoveUser, CallKnows, Signed
  <2>1. Step(c, "ok", token[c]) \/ Step(c, "refused", token[c])
    BY <1>6 DEF RemoveUser
  <2>2. CallPart'
    BY <1>0, <1>pcs, <2>0, <2>1, StepKeeps DEF Signed
  <2>3. RowPart'
    <3>1. CASE ~Live(i)
      BY <1>6, <1>rows, <3>1 DEF RemoveUser
    <3>2. CASE Live(i)
      <4>1. /\ account' = [account EXCEPT ![i] = [role |-> "GONE", email |-> account[i].email]]
            /\ rows' = [r \in RowIds |->
                          IF rows[r] # NoRow /\ rows[r].token.user = i THEN NoRow ELSE rows[r]]
            /\ UNCHANGED now
        BY <1>6, <3>2 DEF RemoveUser
      <4>2. account' \in [Ids -> Accounts] /\ rows' \in [RowIds -> Rows \cup {NoRow}]
        BY <1>0, <4>1 DEF RowPart, Accounts
      <4>3. ASSUME NEW r \in RowIds, rows'[r] # NoRow
            PROVE  Live(rows[r].token.user)' /\ rows'[r] = rows[r]
        <5>1. rows'[r] = rows[r] /\ rows[r] # NoRow /\ rows[r].token.user # i
          BY <4>1, <4>3
        <5>2. rows[r].token.user \in Ids /\ Live(rows[r].token.user)
          BY <1>0, <5>1 DEF RowPart, NoSessionOfRemoved, Rows, Tokens
        <5>3. account'[rows[r].token.user] = account[rows[r].token.user]
          BY <1>0, <4>1, <5>1, <5>2 DEF RowPart
        <5> QED BY <5>1, <5>2, <5>3 DEF Live
      <4> QED BY <1>0, <4>1, <4>2, <4>3 DEF RowPart, NoSessionOfRemoved, Live
    <3> QED BY <3>1, <3>2
  <2> QED BY <1>6, <1>whole, <1>screen, <1>history, <2>2, <2>3 DEF RemoveUser
<1>7. ASSUME NEW c \in Calls, Succeed(c) \/ Refused(c) \/ CallFault(c) \/ RefreshFailed(c)
      PROVE  SessionInv'
  <2>0. req[c] \in Requests /\ (pc[c] = "ok" => token[c] \in Tokens)
    BY <1>0, <1>7, <1>pcs DEF Succeed, Refused, CallFault, RefreshFailed, CallKnows, Signed,
       InFlight
  <2>1. Settle(c)
    BY <1>7 DEF Succeed, Refused, CallFault, RefreshFailed, Reject
  <2>2. CallPart'
    BY <1>0, <2>1, SettleKeeps
  <2>3. \/ UNCHANGED store
        \/ \E s \in {LoggedOut, StandIn} : SetStore(req[c].by, s)
        \/ pc[c] = "ok" /\ SetStore(req[c].by, LoggedInAs(token[c]))
    BY <1>7 DEF Succeed, Refused, CallFault, RefreshFailed, Reject
  <2>4. LoggedOut \in Stores /\ StandIn \in Stores
    BY DEF LoggedOut, StandIn, Stores, Roles
  <2>5. pc[c] = "ok" => LoggedInAs(token[c]) \in Stores
    BY <2>0 DEF LoggedInAs, Stores, Tokens
  <2>6. ScreenPart'
    BY <1>0, <1>screen, <2>3, <2>4, <2>5 DEF ScreenPart, SetStore
  <2> QED BY <1>7, <1>whole, <1>rows, <1>history, <2>2, <2>6
          DEF Succeed, Refused, CallFault, RefreshFailed
<1>8. ASSUME NEW c \in Calls, Unauthorized(c)
      PROVE  SessionInv'
  <2>0. req[c] \in Requests /\ req[c].by \in Browsers
    BY <1>0, <1>8, <1>pcs DEF Unauthorized, CallKnows, Requests
  <2>1. UNCHANGED <<now, account, rows, history>>
    BY <1>8 DEF Unauthorized
  <2>2. CASE store[req[c].by].tokens = NoToken
    <3>1. SetStore(req[c].by, LoggedOut) /\ Settle(c)
      BY <1>8, <2>2 DEF Unauthorized
    <3>2. ScreenPart'
      BY <1>0, <3>1 DEF ScreenPart, SetStore, LoggedOut, Stores, Roles
    <3> QED BY <1>0, <1>whole, <1>rows, <1>history, <2>1, <3>1, <3>2, SettleKeeps
  <2>3. CASE store[req[c].by].tokens # NoToken
    <3>1. /\ pc' = [pc EXCEPT ![c] = "refreshing"]
          /\ token' = [token EXCEPT ![c] = store[req[c].by].tokens]
          /\ again' = [again EXCEPT ![c] = TRUE]
          /\ UNCHANGED <<store, req, row>>
      BY <1>8, <2>3 DEF Unauthorized
    <3>2. store[req[c].by].tokens \in Tokens \cup {NoToken, MadeUp}
      BY <1>0, <2>0 DEF ScreenPart, Stores
    <3>3. CallTypes'
      BY <1>0, <1>pcs, <3>1, <3>2 DEF CallTypes
    <3>4. ASSUME NEW d \in Calls PROVE CallKnows(d)'
      BY <1>0, <2>0, <3>1 DEF CallTypes, CallKnows, Signed
    <3> QED BY <1>whole, <1>rows, <1>screen, <1>history, <2>1, <3>1, <3>3, <3>4 DEF CallPart
  <2> QED BY <2>2, <2>3
<1>9. ASSUME NEW c \in Calls, FindRow(c)
      PROVE  SessionInv'
  <2>0. pc[c] \in InFlight /\ UNCHANGED <<req, again>>
    BY <1>9, <1>pcs DEF FindRow
  <2>1. ASSUME NEW r \in Stored(token[c]) PROVE r \in RowIds /\ Mint(token[c].user) \in Tokens
    <3>1. /\ r \in RowIds /\ rows[r] \in Rows /\ rows[r].token = token[c]
          /\ Live(token[c].user)
      BY <1>0 DEF Stored, RowPart, NoSessionOfRemoved
    <3>2. token[c].user \in Ids
      BY <3>1 DEF Rows, Tokens
    <3> QED BY <1>0, <3>1, <3>2, MintSigned
  <2>2. \/ UNCHANGED row /\ (Step(c, "absent", token[c]) \/ Step(c, "expired", token[c]))
        \/ \E r \in RowIds : /\ Step(c, "deleting", Mint(token[c].user))
                            /\ Mint(token[c].user) \in Tokens
                            /\ row' = [row EXCEPT ![c] = r]
    BY <1>9, <2>1 DEF FindRow
  <2>3. CallPart'
    <3>1. CASE UNCHANGED row /\ (Step(c, "absent", token[c]) \/ Step(c, "expired", token[c]))
      BY <1>0, <1>token, <1>pcs, <2>0, <3>1, StepKeeps DEF Signed
    <3>2. ASSUME NEW r \in RowIds, Step(c, "deleting", Mint(token[c].user)),
                 Mint(token[c].user) \in Tokens, row' = [row EXCEPT ![c] = r]
          PROVE  CallPart'
      BY <1>0, <1>pcs, <2>0, <3>2, StepKeeps
    <3> QED BY <2>2, <3>1, <3>2
  <2> QED BY <1>9, <1>whole, <1>rows, <1>screen, <1>history, <2>3 DEF FindRow
<1>10. ASSUME NEW c \in Calls, DeleteRow(c)
       PROVE  SessionInv'
  <2>0. /\ pc[c] \in InFlight /\ row[c] \in RowIds /\ token[c] \in Tokens
        /\ UNCHANGED <<req, row, again>>
    BY <1>0, <1>10, <1>pcs DEF DeleteRow, CallKnows, Signed
  <2>1. Step(c, "rotating", token[c]) \/ Step(c, "absent", token[c])
    BY <1>10 DEF DeleteRow
  <2>2. CallPart'
    BY <1>0, <1>pcs, <2>0, <2>1, StepKeeps
  <2>3. RowPart'
    BY <1>0, <1>10, <2>0 DEF DeleteRow, RowPart, NoSessionOfRemoved, Live
  <2>4. HistoryPart'
    BY <1>0, <1>10, <2>0 DEF DeleteRow, HistoryPart
  <2> QED BY <1>10, <1>whole, <1>screen, <2>2, <2>3, <2>4 DEF DeleteRow
<1>11. ASSUME NEW c \in Calls, Rotate(c)
       PROVE  SessionInv'
  <2>0. pc[c] \in InFlight /\ token[c] \in Tokens /\ UNCHANGED <<req, row, again>>
    BY <1>0, <1>11, <1>pcs DEF Rotate, CallKnows, Signed
  <2>1. Step(c, "refreshed", token[c]) \/ Step(c, "clash", token[c])
    BY <1>11 DEF Rotate
  <2>2. CallPart'
    BY <1>0, <1>pcs, <2>0, <2>1, StepKeeps
  <2>3. RowPart'
    <3>1. <<c, "refresh">> \in RowIds
      BY DEF RowIds
    <3>2. UNCHANGED <<now, account>>
      BY <1>11 DEF Rotate
    <3>3. UNCHANGED rows \/ (Storable(token[c]) /\ SaveRow(<<c, "refresh">>, token[c]))
      BY <1>11 DEF Rotate
    <3> QED BY <1>0, <1>rows, <2>0, <3>1, <3>2, <3>3, SaveRowKeeps
  <2> QED BY <1>11, <1>whole, <1>screen, <1>history, <2>2, <2>3 DEF Rotate
<1>12. ASSUME NEW c \in Calls, Refreshed(c)
       PROVE  SessionInv'
  <2>0. /\ pc[c] \in InFlight /\ token[c] \in Tokens /\ req[c].by \in Browsers
        /\ UNCHANGED <<req, row, again>>
    BY <1>0, <1>12, <1>pcs DEF Refreshed, CallKnows, Signed, Requests
  <2>1. CallPart'
    BY <1>0, <1>12, <1>pcs, <2>0, StepKeeps DEF Refreshed
  <2>2. ScreenPart'
    BY <1>0, <1>12, <2>0 DEF Refreshed, ScreenPart, SetStore, Stores
  <2> QED BY <1>12, <1>whole, <1>rows, <1>history, <2>1, <2>2 DEF Refreshed
<1>13. ASSUME NEW c \in Calls, RefreshFault(c)
       PROVE  SessionInv'
  <2>1. CallTypes'
    BY <1>0, <1>13, <1>pcs DEF RefreshFault, CallTypes
  <2>2. ASSUME NEW d \in Calls PROVE CallKnows(d)'
    BY <1>0, <1>13 DEF RefreshFault, CallTypes, CallKnows, Signed, InFlight
  <2> QED BY <1>13, <1>whole, <1>rows, <1>screen, <1>history, <2>1, <2>2
          DEF RefreshFault, CallPart
<1>14. ASSUME NEW c \in Calls, NEW b \in Browsers, NEW kind \in Kinds, NEW e \in Emails,
              NEW good \in BOOLEAN, Send(c, b, kind, e, good)
       PROVE  SessionInv'
  <2>1. [kind |-> kind, by |-> b, email |-> e, good |-> good] \in Requests
    BY DEF Requests
  <2>2. store[b].tokens \in Tokens \cup {NoToken, MadeUp}
    BY <1>0 DEF ScreenPart, Stores
  <2>3. CallTypes'
    BY <1>0, <1>14, <1>pcs, <2>1, <2>2 DEF Send, CallTypes
  <2>4. ASSUME NEW d \in Calls PROVE CallKnows(d)'
    BY <1>0, <1>14, <2>1 DEF Send, CallTypes, CallKnows, Signed
  <2>5. HistoryPart'
    BY <1>0, <1>14 DEF Send, HistoryPart
  <2> QED BY <1>14, <1>whole, <1>rows, <1>screen, <2>3, <2>4, <2>5 DEF Send, CallPart
<1>calls. UNCHANGED calls => CallPart'
  BY <1>0 DEF calls, CallPart, CallTypes, CallKnows
<1>15. ASSUME NEW b \in Browsers, Logout(b)
       PROVE  SessionInv'
  <2>1. ScreenPart'
    BY <1>0, <1>15 DEF Logout, ScreenPart, SetStore, LoggedOut, Stores, Roles
  <2> QED BY <1>15, <1>calls, <1>whole, <1>rows, <1>history, <2>1 DEF Logout
<1>16. CASE Tick
  <2>1. RowPart'
    BY <1>0, <1>16 DEF Tick, RowPart, NoSessionOfRemoved, Live
  <2> QED BY <1>16, <1>calls, <1>whole, <1>screen, <1>history, <2>1 DEF Tick
<1>17. CASE UNCHANGED vars
  BY <1>17, <1>calls, <1>whole, <1>rows, <1>screen, <1>history DEF vars, calls, history
<1> QED BY <1>1, <1>2, <1>3, <1>4, <1>5, <1>6, <1>7, <1>8, <1>9, <1>10, <1>11, <1>12, <1>13,
           <1>14, <1>15, <1>16, <1>17 DEF Next, CallStep

LEMMA SessionAlways == Spec => []SessionInv
BY SessionInit, SessionStep, PTL DEF Spec

(* Users, refresh tokens, browser stores and calls stay what they are:     *)
(* no lost answer and no overlap stores anything else.                     *)
THEOREM SessionsTypeCorrect == Spec => []TypeOK
<1>1. SessionInv => TypeOK
  BY DEF SessionInv, CallPart, CallTypes, RowPart, ScreenPart, HistoryPart, TypeOK
<1> QED BY <1>1, SessionAlways, PTL

(* No row of refresh_tokens outlives its user, although a login or a       *)
(* rotation may be under way when the admin removes the user.              *)
THEOREM RowsHaveUsers == Spec => []NoSessionOfRemoved
<1>1. SessionInv => NoSessionOfRemoved
  BY DEF SessionInv, RowPart
<1> QED BY <1>1, SessionAlways, PTL

-----------------------------------------------------------------------------
(* Rotation *)

(* A row is written once: by logging in, after which the call is over, or  *)
(* by refreshing, which no call does twice.                                *)
Written(r) == rows[r] # NoRow \/ redeemers[r] # {}

WrittenOnce(c) ==
  /\ Written(<<c, "login">>) => pc[c] \in {"ok", "done"}
  /\ Written(<<c, "refresh">>) =>
       /\ pc[c] \notin {"idle", "refreshing", "deleting", "rotating"}
       /\ again[c] \/ pc[c] = "done"

RedeemInv ==
  /\ SessionInv
  /\ \A c \in Calls : WrittenOnce(c)
  /\ \A r \in RowIds : redeemers[r] # {} => rows[r] = NoRow
  /\ RedeemedOnce

RotationPart ==
  /\ \A c \in Calls : WrittenOnce(c)
  /\ \A r \in RowIds : redeemers[r] # {} => rows[r] = NoRow
  /\ RedeemedOnce

(* What every call does but log in and refresh: rows may go, none is       *)
(* written or redeemed, and a finished call stays finished.                *)
LEMMA QuietKeeps ==
  ASSUME RedeemInv, NEW c \in Calls, UNCHANGED redeemers,
         \A r \in RowIds : rows'[r] \in {rows[r], NoRow},
         \A d \in Calls : d # c => pc'[d] = pc[d] /\ again'[d] = again[d],
         pc[c] \in {"ok", "done"} => pc'[c] \in {"ok", "done"},
         \/ pc'[c] = "done"
         \/ /\ again[c] => again'[c]
            /\ pc[c] # "done"
            /\ pc'[c] \notin {"idle", "refreshing", "deleting", "rotating"}
         \/ ~again[c] /\ pc[c] # "done"
         \/ pc[c] \in {"idle", "refreshing", "deleting", "rotating"}
  PROVE  RotationPart'
<1>1. \A r \in RowIds : Written(r)' => Written(r)
  BY DEF Written
<1>2. ASSUME NEW d \in Calls PROVE WrittenOnce(d)'
  <2>1. <<d, "login">> \in RowIds /\ <<d, "refresh">> \in RowIds
    BY DEF RowIds
  <2>2. WrittenOnce(d)
    BY DEF RedeemInv
  <2>3. CASE d # c
    BY <1>1, <2>1, <2>2, <2>3 DEF WrittenOnce
  <2>4. CASE d = c
    <3>1. Written(<<c, "login">>)' => pc'[c] \in {"ok", "done"}
      BY <1>1, <2>1, <2>2, <2>4 DEF WrittenOnce
    <3>2. Written(<<c, "refresh">>)' =>
            /\ pc'[c] \notin {"idle", "refreshing", "deleting", "rotating"}
            /\ again'[c] \/ pc'[c] = "done"
      BY <1>1, <2>1, <2>2, <2>4 DEF WrittenOnce
    <3> QED BY <2>4, <3>1, <3>2 DEF WrittenOnce
  <2> QED BY <2>3, <2>4
<1>3. \A r \in RowIds : redeemers'[r] # {} => rows'[r] = NoRow
  BY DEF RedeemInv
<1> QED BY <1>2, <1>3 DEF RotationPart, RedeemInv, RedeemedOnce

(* Writing a row that was never written before. *)
LEMMA WriteKeeps ==
  ASSUME RedeemInv, NEW c \in Calls, NEW kind \in {"login", "refresh"}, NEW t,
         ~Written(<<c, kind>>), SaveRow(<<c, kind>>, t), UNCHANGED <<redeemers, again>>,
         \A d \in Calls : d # c => pc'[d] = pc[d],
         \/ kind = "login" /\ pc'[c] = "ok" /\ pc[c] = "saving"
         \/ kind = "refresh" /\ pc'[c] = "refreshed" /\ pc[c] = "rotating" /\ again[c]
  PROVE  RotationPart'
<1>0. <<c, kind>> \in RowIds /\ rows \in [RowIds -> Rows \cup {NoRow}]
  BY DEF RowIds, RedeemInv, SessionInv, RowPart
<1>1. \A r \in RowIds : r # <<c, kind>> => (Written(r)' <=> Written(r)) /\ rows'[r] = rows[r]
  BY <1>0 DEF Written, SaveRow
<1>2. ASSUME NEW d \in Calls PROVE WrittenOnce(d)'
  <2>1. <<d, "login">> \in RowIds /\ <<d, "refresh">> \in RowIds
    BY DEF RowIds
  <2>2. WrittenOnce(d)
    BY DEF RedeemInv
  <2>3. CASE d # c
    BY <1>1, <2>1, <2>2, <2>3 DEF WrittenOnce
  <2>4. CASE d = c
    BY <1>1, <2>1, <2>2, <2>4 DEF WrittenOnce
  <2> QED BY <2>3, <2>4
<1>3. \A r \in RowIds : redeemers'[r] # {} => rows'[r] = NoRow
  BY <1>1 DEF RedeemInv, Written
<1> QED BY <1>2, <1>3 DEF RotationPart, RedeemInv, RedeemedOnce

(* A call refreshes only on its second attempt. *)
RefreshesAgain ==
  \A c \in Calls : pc[c] \in Refreshing => again[c]

LEMMA AgainStep == SessionInv /\ RefreshesAgain /\ [Next]_vars => RefreshesAgain'
<1> SUFFICES ASSUME SessionInv, RefreshesAgain, [Next]_vars, NEW d \in Calls,
                    pc'[d] \in Refreshing
             PROVE  again'[d]
    BY DEF RefreshesAgain
<1> USE DEF Refreshing
<1>0. CallTypes
  BY DEF SessionInv, CallPart
<1>1. ASSUME NEW c \in Calls, NEW i \in Ids, NEW role \in Roles,
             \/ Login(c) \/ Register(c) \/ Save(c) \/ Authorize(c)
             \/ CreateUser(c, i) \/ RemoveUser(c, i) \/ UpdateRole(c, i, role)
             \/ Refreshed(c)
      PROVE  again'[d]
  BY <1>0, <1>1 DEF Login, Register, Save, Authorize, CreateUser, RemoveUser, UpdateRole,
     Refreshed, Step, CallTypes, RefreshesAgain
<1>2. ASSUME NEW c \in Calls, FindRow(c) \/ DeleteRow(c) \/ Rotate(c) \/ RefreshFault(c)
      PROVE  again'[d]
  BY <1>0, <1>2 DEF FindRow, DeleteRow, Rotate, RefreshFault, Step, CallTypes, RefreshesAgain
<1>3. ASSUME NEW c \in Calls,
             Succeed(c) \/ Refused(c) \/ CallFault(c) \/ RefreshFailed(c) \/ Unauthorized(c)
      PROVE  again'[d]
  BY <1>0, <1>3 DEF Succeed, Refused, CallFault, RefreshFailed, Unauthorized, Reject, Settle,
     CallTypes, RefreshesAgain
<1>4. ASSUME NEW c \in Calls, NEW b \in Browsers, NEW kind \in Kinds, NEW e \in Emails,
             NEW good \in BOOLEAN, Send(c, b, kind, e, good)
      PROVE  again'[d]
  BY <1>0, <1>4 DEF Send, CallTypes, RefreshesAgain
<1>5. CASE Tick \/ UNCHANGED vars \/ \E b \in Browsers : Logout(b)
  BY <1>5 DEF Tick, vars, Logout, calls, RefreshesAgain
<1>6. "CUSTOMER" \in Roles
  BY DEF Roles
<1>7. ASSUME NEW c \in Calls, Login(c) \/ Register(c) \/ Save(c) \/ Authorize(c) \/ Refreshed(c)
      PROVE  again'[d]
  BY <1>0, <1>7 DEF Login, Register, Save, Authorize, Refreshed, Step, CallTypes, RefreshesAgain
<1> QED BY <1>1, <1>2, <1>3, <1>4, <1>5, <1>6, <1>7 DEF Next, CallStep

LEMMA RedeemStep ==
  RedeemInv /\ RefreshesAgain /\ [Next]_vars => RedeemInv'
<1> SUFFICES ASSUME RedeemInv, RefreshesAgain, [Next]_vars PROVE RedeemInv'
    OBVIOUS
<1>0. SessionInv /\ SessionInv' /\ CallTypes /\ (\A c \in Calls : CallKnows(c))
      /\ rows \in [RowIds -> Rows \cup {NoRow}] /\ redeemers \in [RowIds -> SUBSET Calls]
  BY SessionStep DEF RedeemInv, SessionInv, CallPart, RowPart, HistoryPart
<1>whole. RotationPart' => RedeemInv'
  BY <1>0 DEF RotationPart, RedeemInv
<1>1. ASSUME NEW c \in Calls, Login(c) \/ Register(c) \/ Authorize(c)
      PROVE  RedeemInv'
  <2>1. /\ UNCHANGED <<rows, redeemers, again>> /\ pc[c] = "sent"
        /\ \A d \in Calls : d # c => pc'[d] = pc[d]
        /\ pc'[c] \notin {"idle", "refreshing", "deleting", "rotating"}
    BY <1>0, <1>1 DEF Login, Register, Authorize, Asked, Step, history, CallTypes
  <2> QED BY <1>whole, <2>1, QuietKeeps
<1>2. ASSUME NEW c \in Calls, NEW i \in Ids, CreateUser(c, i)
      PROVE  RedeemInv'
  <2>1. /\ UNCHANGED <<rows, redeemers, again>> /\ pc[c] = "creating"
        /\ \A d \in Calls : d # c => pc'[d] = pc[d]
        /\ pc'[c] \notin {"idle", "refreshing", "deleting", "rotating"}
    BY <1>0, <1>2 DEF CreateUser, Step, history, CallTypes
  <2> QED BY <1>whole, <2>1, QuietKeeps
<1>3. ASSUME NEW c \in Calls, NEW i \in Ids, NEW role \in Roles,
             RemoveUser(c, i) \/ UpdateRole(c, i, role)
      PROVE  RedeemInv'
  <2>1. /\ UNCHANGED <<redeemers, again>> /\ pc[c] = "acting"
        /\ \A d \in Calls : d # c => pc'[d] = pc[d]
        /\ pc'[c] \notin {"idle", "refreshing", "deleting", "rotating"}
        /\ \A r \in RowIds : rows'[r] \in {rows[r], NoRow}
    BY <1>0, <1>3 DEF RemoveUser, UpdateRole, Step, history, CallTypes
  <2> QED BY <1>whole, <2>1, QuietKeeps
<1>4. ASSUME NEW c \in Calls, Save(c)
      PROVE  RedeemInv'
  <2>1. /\ UNCHANGED <<redeemers, again>> /\ pc[c] = "saving"
        /\ \A d \in Calls : d # c => pc'[d] = pc[d]
    BY <1>0, <1>4 DEF Save, Step, history, CallTypes
  <2>2. CASE Storable(token[c])
    <3>1. pc'[c] = "ok" /\ SaveRow(<<c, "login">>, token[c])
      BY <1>0, <1>4, <2>2 DEF Save, Step, CallTypes
    <3>2. ~Written(<<c, "login">>)
      BY <2>1 DEF RedeemInv, WrittenOnce
    <3> QED BY <1>whole, <2>1, <3>1, <3>2, WriteKeeps
  <2>3. CASE ~Storable(token[c])
    <3>1. pc'[c] = "refused" /\ UNCHANGED rows
      BY <1>0, <1>4, <2>3 DEF Save, Step, CallTypes
    <3> QED BY <1>whole, <2>1, <3>1, QuietKeeps
  <2> QED BY <2>2, <2>3
<1>5. ASSUME NEW c \in Calls, Rotate(c)
      PROVE  RedeemInv'
  <2>1. /\ UNCHANGED <<redeemers, again>> /\ pc[c] = "rotating" /\ again[c]
        /\ \A d \in Calls : d # c => pc'[d] = pc[d]
    BY <1>0, <1>5 DEF Rotate, Step, history, CallTypes, RefreshesAgain, Refreshing
  <2>2. CASE Storable(token[c])
    <3>1. pc'[c] = "refreshed" /\ SaveRow(<<c, "refresh">>, token[c])
      BY <1>0, <1>5, <2>2 DEF Rotate, Step, CallTypes
    <3>2. ~Written(<<c, "refresh">>)
      BY <2>1 DEF RedeemInv, WrittenOnce
    <3> QED BY <1>whole, <2>1, <3>1, <3>2, WriteKeeps
  <2>3. CASE ~Storable(token[c])
    <3>1. pc'[c] = "clash" /\ UNCHANGED rows
      BY <1>0, <1>5, <2>3 DEF Rotate, Step, CallTypes
    <3> QED BY <1>whole, <2>1, <3>1, QuietKeeps
  <2> QED BY <2>2, <2>3
<1>6. ASSUME NEW c \in Calls, Succeed(c) \/ Refused(c) \/ CallFault(c) \/ RefreshFailed(c)
      PROVE  RedeemInv'
  <2>1. /\ UNCHANGED <<rows, redeemers>> /\ pc'[c] = "done"
        /\ \A d \in Calls : d # c => pc'[d] = pc[d] /\ again'[d] = again[d]
    BY <1>0, <1>6 DEF Succeed, Refused, CallFault, RefreshFailed, Reject, Settle, history, CallTypes
  <2> QED BY <1>whole, <2>1, QuietKeeps
<1>7. ASSUME NEW c \in Calls, Unauthorized(c)
      PROVE  RedeemInv'
  <2>1. /\ UNCHANGED <<rows, redeemers>> /\ pc[c] = "unauthorized" /\ ~again[c]
        /\ \A d \in Calls : d # c => pc'[d] = pc[d] /\ again'[d] = again[d]
    BY <1>0, <1>7 DEF Unauthorized, Retries, Settle, history, CallTypes
  <2> QED BY <1>whole, <2>1, QuietKeeps
<1>8. ASSUME NEW c \in Calls, FindRow(c)
      PROVE  RedeemInv'
  <2>1. /\ UNCHANGED <<rows, redeemers, again>> /\ pc[c] = "refreshing"
        /\ \A d \in Calls : d # c => pc'[d] = pc[d]
    BY <1>0, <1>8 DEF FindRow, Step, history, CallTypes
  <2> QED BY <1>whole, <2>1, QuietKeeps
<1>9. ASSUME NEW c \in Calls, DeleteRow(c)
      PROVE  RedeemInv'
  <2>1. /\ UNCHANGED again /\ pc[c] = "deleting" /\ row[c] \in RowIds
        /\ \A d \in Calls : d # c => pc'[d] = pc[d]
        /\ pc'[c] \in {"rotating", "absent"}
    BY <1>0, <1>9 DEF DeleteRow, Step, CallTypes, CallKnows
  <2>2. CASE ~Deletable(row[c])
    <3>1. UNCHANGED <<rows, redeemers>>
      BY <1>9, <2>2 DEF DeleteRow
    <3> QED BY <1>whole, <2>1, <3>1, QuietKeeps
  <2>3. CASE Deletable(row[c])
    <3>1. /\ rows' = [rows EXCEPT ![row[c]] = NoRow]
          /\ redeemers' = [redeemers EXCEPT ![row[c]] = @ \cup {c}]
      BY <1>9, <2>3 DEF DeleteRow
    <3>2. rows[row[c]] # NoRow /\ redeemers[row[c]] = {}
      BY <2>1, <2>3 DEF Deletable, RedeemInv
    <3>3. \A r \in RowIds : Written(r)' => Written(r)
      BY <1>0, <2>1, <3>1, <3>2 DEF Written
    <3>4. ASSUME NEW d \in Calls PROVE WrittenOnce(d)'
      <4>1. <<d, "login">> \in RowIds /\ <<d, "refresh">> \in RowIds
        BY DEF RowIds
      <4> QED BY <2>1, <3>3, <4>1 DEF RedeemInv, WrittenOnce
    <3>5. \A r \in RowIds : redeemers'[r] # {} => rows'[r] = NoRow
      BY <1>0, <2>1, <3>1, <3>2 DEF RedeemInv
    <3>6. RedeemedOnce'
      BY <1>0, <2>1, <3>1, <3>2 DEF RedeemInv, RedeemedOnce
    <3> QED BY <1>whole, <3>4, <3>5, <3>6 DEF RotationPart
  <2> QED BY <2>2, <2>3
<1>10. ASSUME NEW c \in Calls, Refreshed(c) \/ RefreshFault(c)
       PROVE  RedeemInv'
  <2>1. /\ UNCHANGED <<rows, redeemers, again>> /\ pc[c] \in Refreshing
        /\ pc'[c] \in {"sent", "broken"}
        /\ \A d \in Calls : d # c => pc'[d] = pc[d]
    BY <1>0, <1>10 DEF Refreshed, RefreshFault, Step, history, CallTypes, Refreshing
  <2> QED BY <1>whole, <2>1, QuietKeeps DEF Refreshing
<1>11. ASSUME NEW c \in Calls, NEW b \in Browsers, NEW kind \in Kinds, NEW e \in Emails,
              NEW good \in BOOLEAN, Send(c, b, kind, e, good)
       PROVE  RedeemInv'
  <2>1. /\ UNCHANGED <<rows, redeemers, again>> /\ pc[c] = "idle"
        /\ \A d \in Calls : d # c => pc'[d] = pc[d]
    BY <1>0, <1>11 DEF Send, CallTypes
  <2> QED BY <1>whole, <2>1, QuietKeeps
<1>12. CASE Tick \/ UNCHANGED vars \/ \E b \in Browsers : Logout(b)
  <2>1. UNCHANGED <<rows, redeemers, pc, again>>
    BY <1>12 DEF Tick, vars, Logout, calls, history
  <2>2. RotationPart'
    BY <2>1 DEF RotationPart, RedeemInv, RedeemedOnce, WrittenOnce, Written
  <2> QED BY <1>whole, <2>2
<1>13. "CUSTOMER" \in Roles
  BY DEF Roles
<1> QED BY <1>1, <1>2, <1>3, <1>4, <1>5, <1>6, <1>7, <1>8, <1>9, <1>10, <1>11, <1>12, <1>13
        DEF Next, CallStep

LEMMA RedeemInit == Init => RedeemInv /\ RefreshesAgain
<1>1. Init => RefreshesAgain /\ RotationPart
  BY DEF Init, RefreshesAgain, Refreshing, RotationPart, RedeemedOnce, WrittenOnce, Written,
     RowIds
<1> QED BY <1>1, SessionInit DEF RedeemInv, RotationPart

(* Of all refreshes that found one row of refresh_tokens, at most one gets *)
(* tokens for it: the row is written once, and deleting it is the last     *)
(* word, although finding and deleting are two statements.                 *)
THEOREM RowsRedeemedOnce == Spec => []RedeemedOnce
<1>1. RedeemInv => SessionInv /\ RedeemedOnce
  BY DEF RedeemInv
<1> QED BY <1>1, RedeemInit, RedeemStep, AgainStep, PTL DEF Spec
-----------------------------------------------------------------------------
(* The session of a browser *)

Gone(i) == account[i].role = "GONE"

(* Call c is under way for browser b. *)
Of(c, b) == pc[c] \in InFlight /\ req[c].by = b

Rotated == {"rotating", "refreshed"} \cup NoRefresh

(* The browser has the token and is not about to replace it. *)
Shows(b, t) == store[b].tokens = t /\ \A c \in Calls : Of(c, b) => pc[c] \notin Rotated

(* A call looks for the token's row, has found it, or brings the token.    *)
Carries(c, t) ==
  \/ pc[c] \in {"refreshing", "refreshed"} /\ token[c] = t
  \/ pc[c] = "ok" /\ req[c].kind \in Forms /\ token[c] = t
  \/ pc[c] = "deleting" /\ rows[row[c]] # NoRow /\ rows[row[c]].token = t

Keeps(b, t) == Shows(b, t) \/ \E c \in Calls : Of(c, b) /\ Carries(c, t)

(* Row r will not be written any more. *)
Past(r) ==
  IF r[2] = "login"
  THEN pc[r[1]] \in {"ok", "done"}
  ELSE /\ pc[r[1]] \notin {"idle", "refreshing", "deleting", "rotating"}
       /\ again[r[1]] \/ pc[r[1]] = "done"

(* A row lives as long as its token promises. *)
AgesFit ==
  /\ \A r \in RowIds : rows[r] # NoRow => rows[r].expires >= rows[r].token.iat + RefreshLife
  /\ \A c \in Calls : pc[c] \in {"saving", "deleting", "rotating"} => token[c].iat <= now

FoundPast == \A c \in Calls : pc[c] = "deleting" => Past(row[c])

ActingAdmin == \A c \in Calls : pc[c] = "acting" => req[c].kind = "admin"

AuthHasTokens == \A b \in Browsers : store[b].auth => store[b].tokens # NoToken

(* calm[b] is about the calls under way. *)
Solo ==
  \A b \in Browsers : calm[b] => \A c, d \in Calls : Of(c, b) /\ Of(d, b) => c = d

(* The tokens shown are of the user shown, and a refresh keeps the user.   *)
SameUser ==
  \A b \in Browsers : calm[b] /\ store[b].auth =>
    /\ store[b].tokens \in Tokens => store[b].tokens.user = store[b].user
    /\ \A c \in Calls : Of(c, b) =>
         /\ pc[c] = "refreshing" => token[c] = store[b].tokens
         /\ pc[c] \in {"deleting", "rotating", "refreshed"} =>
              store[b].tokens \in Tokens /\ token[c].user = store[b].user

(* The server knows every token in use, *)
KeptIsStored ==
  \A b \in Browsers : \A t \in Tokens : Keeps(b, t) /\ ~Gone(t.user) => Stored(t) # {}

(* and no two browsers use one. *)
KeptByOne ==
  \A b, d \in Browsers : \A t \in Tokens : Keeps(b, t) /\ Keeps(d, t) /\ ~Gone(t.user) => b = d

(* A row that a refresh has found waits for it, unless its user goes.      *)
RowFound ==
  \A c \in Calls : pc[c] = "deleting" =>
    \/ Gone(token[c].user)
    \/ rows[row[c]] # NoRow /\ rows[row[c]].token.user = token[c].user

FailsForCause ==
  \A b \in Browsers : \A c \in Calls :
    Of(c, b) /\ store[b].auth /\ store[b].tokens # MadeUp =>
      /\ pc[c] = "absent" => Gone(store[b].user)
      /\ pc[c] = "expired" => now > store[b].tokens.iat + RefreshLife

CallsFit == AgesFit /\ FoundPast /\ ActingAdmin /\ AuthHasTokens

WholeInv ==
  /\ RedeemInv /\ RefreshesAgain
  /\ CallsFit /\ Solo /\ SameUser
  /\ Orderly => KeptIsStored /\ KeptByOne /\ RowFound /\ FailsForCause

-----------------------------------------------------------------------------
(* What a step may touch *)

CallAct(c) == CallStep(c) \/ CallFault(c) \/ RefreshFault(c)

OnlyMoves(c) ==
  \A d \in Calls : d # c =>
    /\ pc'[d] = pc[d] /\ token'[d] = token[d] /\ req'[d] = req[d]
    /\ row'[d] = row[d] /\ again'[d] = again[d]

(* A call moves alone, for its own browser, and has not ended.             *)
CallLocal(c) ==
  /\ OnlyMoves(c)
  /\ pc[c] \in InFlight /\ pc'[c] \in InFlight \cup {"done"}
  /\ req'[c] = req[c] \/ pc'[c] = "done"
  /\ \A b \in Browsers : b # req[c].by => store'[b] = store[b]
  /\ UNCHANGED <<now, calm>>

LEMMA CallActs ==
  ASSUME SessionInv, NEW c \in Calls, CallAct(c)
  PROVE  CallLocal(c)
<1>0. CallTypes /\ store \in [Browsers -> Stores]
  BY DEF SessionInv, CallPart, ScreenPart
<1> USE DEF CallLocal, OnlyMoves, InFlight, Serving, Answered, Refreshing, NoRefresh
<1>1. ASSUME NEW i \in Ids, NEW role \in Roles,
             CreateUser(c, i) \/ RemoveUser(c, i) \/ UpdateRole(c, i, role)
      PROVE  CallLocal(c)
  BY <1>0, <1>1 DEF CreateUser, RemoveUser, UpdateRole, Step, CallTypes, history
<1>2. CASE Login(c) \/ Register(c) \/ Save(c) \/ Authorize(c)
  BY <1>0, <1>2 DEF Login, Register, Save, Authorize, Asked, Step, CallTypes, history
<1>3. CASE FindRow(c) \/ DeleteRow(c) \/ Rotate(c)
  BY <1>0, <1>3 DEF FindRow, DeleteRow, Rotate, Step, CallTypes, history
<1>4. CASE Refreshed(c) \/ RefreshFault(c)
  BY <1>0, <1>4 DEF Refreshed, RefreshFault, Step, SetStore, CallTypes, history
<1>5. CASE Succeed(c) \/ Refused(c) \/ CallFault(c) \/ RefreshFailed(c)
  BY <1>0, <1>5 DEF Succeed, Refused, CallFault, RefreshFailed, Reject, Settle, SetStore,
     CallTypes, history
<1>6. CASE Unauthorized(c)
  BY <1>0, <1>6 DEF Unauthorized, Settle, SetStore, CallTypes, history
<1>7. "CUSTOMER" \in Roles
  BY DEF Roles
<1> QED BY <1>1, <1>2, <1>3, <1>4, <1>5, <1>6, <1>7 DEF CallAct, CallStep

(* Who is gone stays gone: nobody else's row is touched. *)
LEMMA GoneForGood ==
  ASSUME SessionInv, [Next]_vars, NEW i \in Ids, Gone(i)
  PROVE  Gone(i)'
<1>0. account \in [Ids -> Accounts]
  BY DEF SessionInv, RowPart
<1>1. ASSUME NEW c \in Calls, NEW j \in Ids, NEW role \in Roles,
             CreateUser(c, j) \/ RemoveUser(c, j) \/ UpdateRole(c, j, role)
      PROVE  Gone(i)'
  BY <1>0, <1>1 DEF CreateUser, RemoveUser, UpdateRole, Gone, Live, Roles
<1>2. ASSUME NEW c \in Calls,
             \/ Login(c) \/ Register(c) \/ Save(c) \/ Authorize(c)
             \/ Succeed(c) \/ Refused(c) \/ Unauthorized(c)
             \/ FindRow(c) \/ DeleteRow(c) \/ Rotate(c) \/ Refreshed(c) \/ RefreshFailed(c)
             \/ CallFault(c) \/ RefreshFault(c)
      PROVE  Gone(i)'
  BY <1>2 DEF Login, Register, Save, Authorize, Succeed, Refused, Unauthorized, FindRow,
     DeleteRow, Rotate, Refreshed, RefreshFailed, CallFault, RefreshFault, Gone
<1>3. CASE \/ Tick \/ UNCHANGED vars \/ \E b \in Browsers : Logout(b)
           \/ \E c \in Calls, b \in Browsers, kind \in Kinds, e \in Emails, good \in BOOLEAN :
                Send(c, b, kind, e, good)
  BY <1>3 DEF Tick, vars, Logout, Send, Gone
<1>4. "CUSTOMER" \in Roles
  BY DEF Roles
<1> QED BY <1>1, <1>2, <1>3, <1>4 DEF Next, CallStep

(* What is written stays written, and what is past is not written again.   *)
LEMMA PastStays ==
  ASSUME WholeInv, NEW c \in Calls, CallAct(c), NEW r \in RowIds, Past(r)
  PROVE  Past(r)' /\ rows'[r] \in {rows[r], NoRow}
<1>0. /\ CallTypes /\ rows \in [RowIds -> Rows \cup {NoRow}]
      /\ \A d \in Calls : pc[d] = "deleting" => row[d] \in RowIds
  BY DEF WholeInv, RedeemInv, SessionInv, CallPart, RowPart, CallKnows
<1>1. PICK d \in Calls, kind \in {"login", "refresh"} : r = <<d, kind>>
  BY DEF RowIds
<1>2. ASSUME NEW i \in Ids, NEW role \in Roles,
             CreateUser(c, i) \/ RemoveUser(c, i) \/ UpdateRole(c, i, role)
      PROVE  Past(r)' /\ rows'[r] \in {rows[r], NoRow}
  BY <1>0, <1>1, <1>2 DEF CreateUser, RemoveUser, UpdateRole, Step, CallTypes, Past
<1>3. CASE Login(c) \/ Register(c) \/ Authorize(c) \/ FindRow(c)
  BY <1>0, <1>1, <1>3 DEF Login, Register, Authorize, FindRow, Asked, Step, CallTypes, Past
<1>4. CASE Save(c) \/ Rotate(c)
  BY <1>0, <1>1, <1>4 DEF Save, Rotate, SaveRow, Step, CallTypes, Past
<1>5. CASE DeleteRow(c) \/ Refreshed(c) \/ RefreshFault(c)
  BY <1>0, <1>1, <1>5 DEF DeleteRow, Refreshed, RefreshFault, Refreshing, Step, CallTypes, Past
<1>6. CASE Succeed(c) \/ Refused(c) \/ CallFault(c) \/ RefreshFailed(c)
  BY <1>0, <1>1, <1>6 DEF Succeed, Refused, CallFault, RefreshFailed, Reject, Settle, CallTypes,
     Past
<1>7. CASE Unauthorized(c)
  BY <1>0, <1>1, <1>7 DEF Unauthorized, Settle, Retries, CallTypes, Past
<1>8. "CUSTOMER" \in Roles
  BY DEF Roles
<1> QED BY <1>2, <1>3, <1>4, <1>5, <1>6, <1>7, <1>8 DEF CallAct, CallStep
LEMMA CallsFitStep ==
  ASSUME WholeInv, NEW c \in Calls, CallAct(c)
  PROVE  CallsFit'
<1>0. /\ CallTypes /\ RowPart /\ store \in [Browsers -> Stores] /\ CallLocal(c)
      /\ CallsFit /\ \A d \in Calls : CallKnows(d)
  BY CallActs DEF WholeInv, RedeemInv, SessionInv, CallPart, ScreenPart
<1>mint. \A t \in Tokens : Stored(t) # {} => Mint(t.user).iat = now
  BY DEF Mint
<1>1. ASSUME NEW r \in RowIds, rows'[r] # NoRow
      PROVE  rows'[r].expires >= rows'[r].token.iat + RefreshLife
  <2>1. CASE rows'[r] = rows[r]
    BY <1>0, <1>1, <2>1 DEF CallsFit, AgesFit
  <2>2. CASE rows'[r] # rows[r]
    <3>1. (Save(c) \/ Rotate(c)) /\ rows'[r] = [token |-> token[c], expires |-> now + RefreshLife]
      BY <1>0, <1>1, <2>2
         DEF CallAct, CallStep, Login, Register, Save, Authorize, CreateUser, RemoveUser, UpdateRole,
             Succeed, Refused, Unauthorized, FindRow, DeleteRow, Rotate, Refreshed, RefreshFailed,
             CallFault, RefreshFault, SaveRow, RowPart
    <3>2. token[c] \in Tokens /\ token[c].iat <= now
      BY <1>0, <3>1 DEF Save, Rotate, CallKnows, Signed, CallsFit, AgesFit
    <3> QED BY <1>0, <3>1, <3>2, LivesAssumption DEF RowPart, Tokens
  <2> QED BY <2>1, <2>2
<1>2. ASSUME NEW d \in Calls, pc'[d] \in {"saving", "deleting", "rotating"}
      PROVE  token'[d].iat <= now'
  <2>1. CASE d # c
    BY <1>0, <1>2, <2>1 DEF CallLocal, OnlyMoves, CallsFit, AgesFit
  <2>2. CASE d = c
    <3>1. Login(c) \/ (\E i \in Ids : CreateUser(c, i)) \/ FindRow(c) \/ DeleteRow(c)
      BY <1>0, <1>2, <2>2
         DEF CallAct, CallStep, Login, Register, Save, Authorize, CreateUser, RemoveUser, UpdateRole,
             Succeed, Refused, Unauthorized, FindRow, DeleteRow, Rotate, Refreshed, RefreshFailed,
             CallFault, RefreshFault, Step, Settle, Reject, CallTypes
    <3>2. pc[c] = "deleting" => token[c].iat <= now
      BY <1>0 DEF CallsFit, AgesFit
    <3>3. now <= now /\ now' = now
      BY <1>0 DEF RowPart, CallLocal
    <3> QED BY <1>0, <1>2, <2>2, <3>1, <3>2, <3>3
            DEF Login, CreateUser, FindRow, DeleteRow, Step, Mint, CallTypes
  <2> QED BY <2>1, <2>2
<1>3. ASSUME NEW d \in Calls, pc'[d] = "deleting"
      PROVE  Past(row[d])' /\ row'[d] \in RowIds
  <2>1. CASE d # c
    <3>1. pc[d] = "deleting" /\ row'[d] = row[d]
      BY <1>0, <1>3, <2>1 DEF CallLocal, OnlyMoves
    <3>2. Past(row[d]) /\ row[d] \in RowIds
      BY <1>0, <3>1 DEF CallsFit, FoundPast, CallKnows
    <3>3. ASSUME NEW r \in RowIds, Past(r) PROVE Past(r)'
      BY <3>3, PastStays
    <3> QED BY <3>1, <3>2, <3>3 DEF Past
  <2>2. CASE d = c
    <3>1. FindRow(c)
      BY <1>0, <1>3, <2>2
         DEF CallAct, CallStep, Login, Register, Save, Authorize, CreateUser, RemoveUser, UpdateRole,
             Succeed, Refused, Unauthorized, DeleteRow, Rotate, Refreshed, RefreshFailed,
             CallFault, RefreshFault, Step, Settle, Reject, CallTypes
    <3>2. PICK r \in Stored(token[c]) : row'[c] = r
      BY <1>0, <1>3, <2>2, <3>1 DEF FindRow, Step, CallTypes
    <3>3. r \in RowIds /\ Written(r)
      BY DEF Stored, Written
    <3>4. Past(r)
      <4>1. PICK e \in Calls, kind \in {"login", "refresh"} : r = <<e, kind>>
        BY <3>3 DEF RowIds
      <4>2. WrittenOnce(e)
        BY DEF WholeInv, RedeemInv
      <4> QED BY <3>3, <4>1, <4>2 DEF WrittenOnce, Past
    <3>5. Past(r)'
      BY <3>3, <3>4, PastStays
    <3> QED BY <2>2, <3>2, <3>3, <3>5 DEF Past
  <2> QED BY <2>1, <2>2
<1>4. ASSUME NEW d \in Calls, pc'[d] = "acting" PROVE req'[d].kind = "admin"
  <2>1. CASE d # c
    BY <1>0, <1>4, <2>1 DEF CallLocal, OnlyMoves, CallsFit, ActingAdmin
  <2>2. CASE d = c
    <3>1. Authorize(c)
      BY <1>0, <1>4, <2>2
         DEF CallAct, CallStep, Login, Register, Save, CreateUser, RemoveUser, UpdateRole,
             Succeed, Refused, Unauthorized, FindRow, DeleteRow, Rotate, Refreshed, RefreshFailed,
             CallFault, RefreshFault, Step, Settle, Reject, CallTypes
    <3> QED BY <1>0, <1>4, <2>2, <3>1 DEF Authorize, Asked, Step, CallTypes
  <2> QED BY <2>1, <2>2
<1>5. ASSUME NEW b \in Browsers, store'[b].auth PROVE store'[b].tokens # NoToken
  <2>1. CASE store'[b] = store[b]
    BY <1>0, <1>5, <2>1 DEF CallsFit, AuthHasTokens
  <2>2. CASE store'[b] # store[b]
    <3>1. \/ store'[b] \in {LoggedOut, StandIn}
          \/ pc[c] = "ok" /\ store'[b] = LoggedInAs(token[c])
          \/ pc[c] = "refreshed" /\ store'[b] = [store[b] EXCEPT !.tokens = token[c]]
      BY <1>0, <2>2
         DEF CallAct, CallStep, Login, Register, Save, Authorize, CreateUser, RemoveUser, UpdateRole,
             Succeed, Refused, Unauthorized, FindRow, DeleteRow, Rotate, Refreshed, RefreshFailed,
             CallFault, RefreshFault, SetStore, Reject
    <3>2. pc[c] \in {"ok", "refreshed"} => token[c] \in Tokens
      BY <1>0 DEF CallKnows, Signed
    <3>3. store[b] \in Stores
      BY <1>0
    <3> QED BY <1>5, <3>1, <3>2, <3>3, MarkersAssumption DEF LoggedOut, StandIn, LoggedInAs, Stores
  <2> QED BY <2>1, <2>2
<1> QED BY <1>1, <1>2, <1>3, <1>4, <1>5 DEF CallsFit, AgesFit, FoundPast, ActingAdmin, AuthHasTokens

LEMMA SoloStep ==
  ASSUME WholeInv, NEW c \in Calls, CallAct(c)
  PROVE  Solo'
<1>0. CallLocal(c) /\ Solo
  BY CallActs DEF WholeInv, RedeemInv
<1>1. \A d \in Calls : \A b \in Browsers : Of(d, b)' => Of(d, b)
  BY <1>0 DEF CallLocal, OnlyMoves, Of, InFlight, Serving, Answered, Refreshing, NoRefresh
<1> QED BY <1>0, <1>1 DEF Solo, CallLocal

LEMMA SameUserStep ==
  ASSUME WholeInv, NEW c \in Calls, CallAct(c)
  PROVE  SameUser'
<1>0. /\ CallTypes /\ RowPart /\ store \in [Browsers -> Stores] /\ CallLocal(c)
      /\ Solo /\ SameUser /\ Solo' /\ \A d \in Calls : CallKnows(d)
  BY CallActs, SoloStep DEF WholeInv, RedeemInv, SessionInv, CallPart, ScreenPart
<1>of. /\ \A d \in Calls : \A b \in Browsers : Of(d, b)' => Of(d, b)
       /\ req[c] \in Requests /\ req[c].by \in Browsers /\ Of(c, req[c].by)
  BY <1>0 DEF CallLocal, OnlyMoves, Of, InFlight, Serving, Answered, Refreshing, NoRefresh,
     CallKnows, Requests
<1> SUFFICES ASSUME NEW b \in Browsers, calm'[b], store'[b].auth
             PROVE  /\ store'[b].tokens \in Tokens => store'[b].tokens.user = store'[b].user
                    /\ \A d \in Calls : Of(d, b)' =>
                         /\ pc'[d] = "refreshing" => token'[d] = store'[b].tokens
                         /\ pc'[d] \in {"deleting", "rotating", "refreshed"} =>
                              store'[b].tokens \in Tokens /\ token'[d].user = store'[b].user
    BY DEF SameUser
<1>calm. calm[b]
  BY <1>0 DEF CallLocal
<1>1. CASE b # req[c].by
  <2>1. store'[b] = store[b]
    BY <1>0, <1>1 DEF CallLocal
  <2>2. \A d \in Calls : Of(d, b)' => d # c /\ Of(d, b) /\ pc'[d] = pc[d] /\ token'[d] = token[d]
    BY <1>0, <1>of, <1>1 DEF CallLocal, OnlyMoves, Of
  <2> QED BY <1>0, <1>calm, <2>1, <2>2 DEF SameUser
<1>2. CASE b = req[c].by
  <2>1. \A d \in Calls : Of(d, b)' => d = c
    BY <1>0, <1>of, <1>2, <1>calm DEF Solo
  <2>mine. store[b].auth =>
             /\ store[b].tokens \in Tokens => store[b].tokens.user = store[b].user
             /\ pc[c] = "refreshing" => token[c] = store[b].tokens
             /\ pc[c] \in {"deleting", "rotating", "refreshed"} =>
                  store[b].tokens \in Tokens /\ token[c].user = store[b].user
    BY <1>0, <1>of, <1>2, <1>calm DEF SameUser
  <2> SUFFICES /\ store'[b].tokens \in Tokens => store'[b].tokens.user = store'[b].user
               /\ pc'[c] = "refreshing" => token'[c] = store'[b].tokens
               /\ pc'[c] \in {"deleting", "rotating", "refreshed"} =>
                    store'[b].tokens \in Tokens /\ token'[c].user = store'[b].user
      BY <2>1
  <2>2. ASSUME NEW i \in Ids, NEW role \in Roles,
               CreateUser(c, i) \/ RemoveUser(c, i) \/ UpdateRole(c, i, role)
        PROVE  UNCHANGED store /\ pc'[c] \notin Refreshing
    BY <1>0, <2>2 DEF CreateUser, RemoveUser, UpdateRole, Step, CallTypes, Refreshing
  <2>3. CASE \/ Login(c) \/ Register(c) \/ Save(c) \/ Authorize(c)
             \/ \E i \in Ids : CreateUser(c, i) \/ RemoveUser(c, i)
             \/ \E i \in Ids, role \in Roles : UpdateRole(c, i, role)
             \/ RefreshFault(c)
    <3>1. UNCHANGED store /\ pc'[c] \notin Refreshing
      <4>1. CASE Login(c) \/ Register(c) \/ Save(c) \/ Authorize(c) \/ RefreshFault(c)
        BY <1>0, <4>1 DEF Login, Register, Save, Authorize, RefreshFault, Step, CallTypes, Refreshing
      <4>2. "CUSTOMER" \in Roles
        BY DEF Roles
      <4> QED BY <2>2, <2>3, <4>1, <4>2
    <3> QED BY <2>mine, <3>1 DEF Refreshing
  <2>4. CASE FindRow(c)
    <3>1. UNCHANGED store /\ store[b].auth
      BY <2>4 DEF FindRow
    <3>2. \/ pc'[c] \in NoRefresh
          \/ /\ pc'[c] = "deleting" /\ token'[c].user = token[c].user
             /\ \E r \in RowIds : rows[r] # NoRow /\ rows[r].token = token[c]
      BY <1>0, <2>4 DEF FindRow, Step, CallTypes, NoRefresh, Stored, Mint
    <3>3. pc'[c] = "deleting" => token[c] \in Tokens
      BY <1>0, <3>2 DEF RowPart, Rows, NoRefresh
    <3>4. pc[c] = "refreshing"
      BY <2>4 DEF FindRow
    <3> QED BY <2>mine, <3>1, <3>2, <3>3, <3>4 DEF NoRefresh
  <2>5. CASE DeleteRow(c) \/ Rotate(c)
    <3>1. /\ UNCHANGED store /\ token'[c] = token[c] /\ pc[c] \in {"deleting", "rotating"}
          /\ pc'[c] # "refreshing"
      BY <1>0, <2>5 DEF DeleteRow, Rotate, Step, CallTypes
    <3> QED BY <2>mine, <3>1
  <2>6. CASE Refreshed(c)
    <3>1. /\ pc[c] = "refreshed" /\ pc'[c] = "sent"
          /\ store'[b] = [store[b] EXCEPT !.tokens = token[c]]
      BY <1>0, <1>2, <2>6 DEF Refreshed, Step, SetStore, CallTypes
    <3>2. store[b] \in Stores
      BY <1>0
    <3>3. store'[b].auth = store[b].auth /\ store'[b].user = store[b].user
          /\ store'[b].tokens = token[c]
      BY <3>1, <3>2 DEF Stores
    <3> QED BY <2>mine, <3>1, <3>3
  <2>7. CASE Unauthorized(c)
    <3>1. store[b].tokens # NoToken
      BY <1>0, <1>2, <2>7 DEF Unauthorized, SetStore, LoggedOut
    <3>2. UNCHANGED store /\ pc'[c] = "refreshing" /\ token'[c] = store[b].tokens
      BY <1>0, <1>2, <2>7, <3>1 DEF Unauthorized, CallTypes
    <3> QED BY <2>mine, <3>2
  <2>8. CASE Succeed(c)
    <3>1. /\ pc[c] = "ok" /\ pc'[c] = "done"
          /\ store'[b] = store[b] \/ store'[b] = LoggedInAs(token[c])
      BY <1>0, <1>2, <2>8 DEF Succeed, Settle, SetStore, CallTypes
    <3> QED BY <2>mine, <3>1 DEF LoggedInAs
  <2>9. CASE Refused(c) \/ CallFault(c)
    <3>1. pc'[c] = "done" /\ (store'[b] = store[b] \/ store'[b] = StandIn)
      BY <1>0, <1>2, <2>9 DEF Refused, CallFault, Reject, Settle, SetStore, CallTypes
    <3> QED BY <2>mine, <3>1, MarkersAssumption DEF StandIn
  <2>10. CASE RefreshFailed(c)
    <3>1. store'[b] = LoggedOut
      BY <1>0, <1>2, <2>10 DEF RefreshFailed, SetStore
    <3> QED BY <3>1 DEF LoggedOut
  <2> QED BY <2>3, <2>4, <2>5, <2>6, <2>7, <2>8, <2>9, <2>10 DEF CallAct, CallStep
<1> QED BY <1>1, <1>2
-----------------------------------------------------------------------------
(* The tokens in use *)

(* A browser other than the caller's uses no token that it did not use. *)
LEMMA KeptByOthers ==
  ASSUME WholeInv, NEW c \in Calls, CallAct(c), NEW b \in Browsers, b # req[c].by,
         NEW t, Keeps(b, t)'
  PROVE  Keeps(b, t)
<1>0. CallLocal(c) /\ \A d \in Calls : CallKnows(d)
  BY CallActs DEF WholeInv, RedeemInv, SessionInv, CallPart
<1>of. \A d \in Calls : (Of(d, b)' <=> Of(d, b)) /\ (Of(d, b) => d # c)
  BY <1>0 DEF CallLocal, OnlyMoves, Of, InFlight, Serving, Answered, Refreshing, NoRefresh
<1>1. ASSUME Shows(b, t)' PROVE Keeps(b, t)
  BY <1>0, <1>of, <1>1 DEF CallLocal, OnlyMoves, Shows, Keeps
<1>2. ASSUME NEW d \in Calls, Of(d, b)', Carries(d, t)' PROVE Keeps(b, t)
  <2>1. /\ Of(d, b) /\ pc'[d] = pc[d] /\ token'[d] = token[d] /\ req'[d] = req[d]
        /\ row'[d] = row[d]
    BY <1>0, <1>of, <1>2 DEF CallLocal, OnlyMoves
  <2>2. pc[d] = "deleting" => rows'[row[d]] \in {rows[row[d]], NoRow}
    BY <1>0, PastStays DEF WholeInv, CallsFit, FoundPast, CallKnows
  <2>3. Carries(d, t)
    BY <1>2, <2>1, <2>2 DEF Carries
  <2> QED BY <2>1, <2>3 DEF Keeps
<1> QED BY <1>1, <1>2 DEF Keeps

(* A browser whose calls never overlapped uses what it shows or what its   *)
(* call carries.                                                           *)
LEMMA KeptByCaller ==
  ASSUME WholeInv, NEW c \in Calls, CallAct(c), NEW b \in Browsers, b = req[c].by, calm[b],
         NEW t, Keeps(b, t)'
  PROVE  Shows(b, t)' \/ (Of(c, b)' /\ Carries(c, t)')
<1>0. CallLocal(c) /\ Solo /\ Solo'
  BY CallActs, SoloStep DEF WholeInv, RedeemInv
<1>1. ASSUME NEW d \in Calls, Of(d, b)' PROVE d = c
  <2>1. Of(d, b) /\ Of(c, b)
    BY <1>0, <1>1 DEF CallLocal, OnlyMoves, Of, InFlight, Serving, Answered, Refreshing, NoRefresh
  <2> QED BY <1>0, <2>1 DEF Solo
<1> QED BY <1>1 DEF Keeps

(* Nothing is taken into use and nothing that is in use gets lost. *)
LEMMA KeptShrinks ==
  ASSUME WholeInv, KeptIsStored, KeptByOne, [Next]_vars,
         \A b \in Browsers : \A t \in Tokens : Keeps(b, t)' => Keeps(b, t),
         \A t \in Tokens : Stored(t) # {} /\ ~Gone(t.user)' => Stored(t)' # {}
  PROVE  KeptIsStored' /\ KeptByOne'
<1>1. \A t \in Tokens : Gone(t.user) => Gone(t.user)'
  BY GoneForGood DEF WholeInv, RedeemInv, Tokens
<1> QED BY <1>1 DEF KeptIsStored, KeptByOne

LEMMA KeptStep ==
  ASSUME WholeInv, Orderly, KeptIsStored, KeptByOne, NEW c \in Calls, CallAct(c)
  PROVE  KeptIsStored' /\ KeptByOne'
<1>0. /\ CallTypes /\ RowPart /\ store \in [Browsers -> Stores] /\ CallLocal(c)
      /\ Solo /\ SameUser /\ \A d \in Calls : CallKnows(d)
  BY CallActs DEF WholeInv, RedeemInv, SessionInv, CallPart, ScreenPart
<1>next. [Next]_vars
  BY DEF Next, CallAct
<1>b. PICK b \in Browsers : /\ b = req[c].by /\ calm[b] /\ Of(c, b)
                            /\ \A d \in Calls : Of(d, b) => d = c
  BY <1>0 DEF CallLocal, CallKnows, Requests, Orderly, Of, Solo
<1>of. \A d \in Calls : Of(d, b)' => d = c
  BY <1>0, <1>b DEF CallLocal, OnlyMoves, Of, InFlight, Serving, Answered, Refreshing, NoRefresh
<1>shrinks. ASSUME \A t \in Tokens :
                     Shows(b, t)' \/ (Of(c, b)' /\ Carries(c, t)') => Keeps(b, t)
            PROVE  \A d \in Browsers : \A t \in Tokens : Keeps(d, t)' => Keeps(d, t)
  <2> SUFFICES ASSUME NEW d \in Browsers, NEW t \in Tokens, Keeps(d, t)' PROVE Keeps(d, t)
      OBVIOUS
  <2>1. CASE d # b
    BY <1>b, <2>1, KeptByOthers
  <2>2. CASE d = b
    <3>1. Shows(d, t)' \/ (Of(c, d)' /\ Carries(c, t)')
      BY <1>b, <2>2, KeptByCaller
    <3> QED BY <1>shrinks, <2>2, <3>1
  <2> QED BY <2>1, <2>2
<1>shown. ASSUME store'[b] = store[b], pc[c] \notin Rotated, NEW t, Shows(b, t)'
          PROVE  Shows(b, t)
  BY <1>0, <1>b, <1>shown, <1>of DEF Shows, CallLocal, OnlyMoves
<1>dull. ASSUME store'[b] = store[b], pc[c] \notin Rotated, UNCHANGED rows,
                \A t \in Tokens : Of(c, b)' /\ Carries(c, t)' => Keeps(b, t)
         PROVE  KeptIsStored' /\ KeptByOne'
  <2>1. \A t \in Tokens : Stored(t)' = Stored(t)
    BY <1>dull DEF Stored
  <2>2. \A t \in Tokens : Shows(b, t)' \/ (Of(c, b)' /\ Carries(c, t)') => Keeps(b, t)
    BY <1>shown, <1>dull DEF Keeps
  <2> QED BY <1>shrinks, <1>next, <2>1, <2>2, KeptShrinks
<1>1. CASE Login(c) \/ Register(c) \/ Authorize(c) \/ (\E i \in Ids : CreateUser(c, i))
           \/ (\E i \in Ids, role \in Roles : UpdateRole(c, i, role))
           \/ (\E i \in Ids : RemoveUser(c, i) /\ UNCHANGED rows)
           \/ (Save(c) /\ UNCHANGED rows)
  <2>1. store' = store /\ rows' = rows /\ pc[c] \in {"sent", "creating", "acting", "saving"}
    BY <1>1 DEF Login, Register, Authorize, CreateUser, UpdateRole, RemoveUser, Save, Asked
  <2>2. req'[c] = req[c] /\ pc'[c] \in {"unauthorized", "saving", "refused", "creating", "acting", "ok"}
        /\ (pc'[c] = "ok" => req[c].kind \notin Forms \/ Save(c))
    BY <1>0, <1>1 DEF Login, Register, Authorize, CreateUser, UpdateRole, RemoveUser, Save, Asked,
       Step, CallTypes, Forms, WholeInv, CallsFit, ActingAdmin
  <2>3. Save(c) /\ UNCHANGED rows => pc'[c] # "ok"
    <3>1. SUFFICES ASSUME Save(c), pc'[c] = "ok" PROVE rows' # rows
      OBVIOUS
    <3>2. Storable(token[c]) /\ SaveRow(<<c, "login">>, token[c])
      BY <1>0, <3>1 DEF Save, Step, CallTypes
    <3>3. <<c, "login">> \in RowIds
      BY DEF RowIds
    <3>4. rows'[<<c, "login">>].token = token[c] /\ rows'[<<c, "login">>] # NoRow
          /\ rows[<<c, "login">>] = NoRow
      <4>1. token[c] \in Tokens /\ now + RefreshLife \in Nat
        BY <1>0, <3>1, LivesAssumption DEF Save, CallKnows, Signed, RowPart
      <4>2. rows'[<<c, "login">>] = [token |-> token[c], expires |-> now + RefreshLife]
        BY <1>0, <3>2, <3>3 DEF SaveRow, RowPart
      <4>3. WrittenOnce(c) /\ pc[c] = "saving"
        BY <3>1 DEF WholeInv, RedeemInv, Save
      <4> QED BY <4>1, <4>2, <4>3, MarkersAssumption DEF Rows, WrittenOnce, Written
    <3> QED BY <3>4
  <2>4. \A t : ~Carries(c, t)'
    BY <2>1, <2>2, <2>3 DEF Carries
  <2> QED BY <1>dull, <2>1, <2>4 DEF Rotated, NoRefresh
<1>2. CASE Succeed(c) \/ Refused(c) \/ CallFault(c) \/ RefreshFailed(c)
  <2>1. /\ pc'[c] = "done" /\ UNCHANGED rows
        /\ \/ store'[b] = store[b] /\ pc[c] \notin Rotated
           \/ store'[b] \in {LoggedOut, StandIn}
           \/ /\ store'[b] = LoggedInAs(token[c]) /\ pc[c] = "ok" /\ req[c].kind \in Forms
    BY <1>0, <1>b, <1>2 DEF Succeed, Refused, CallFault, RefreshFailed, Reject, Settle, SetStore,
       CallTypes, Rotated, Serving, Answered, NoRefresh
  <2>2. ~Of(c, b)'
    BY <2>1 DEF Of, InFlight, Serving, Answered, Refreshing, NoRefresh
  <2>3. ASSUME NEW t \in Tokens, Shows(b, t)' PROVE Keeps(b, t)
    <3>1. CASE store'[b] = store[b] /\ pc[c] \notin Rotated
      BY <1>shown, <2>3, <3>1 DEF Keeps
    <3>2. CASE store'[b] \in {LoggedOut, StandIn}
      BY <2>3, <3>2, MarkersAssumption DEF Shows, LoggedOut, StandIn
    <3>3. CASE store'[b] = LoggedInAs(token[c]) /\ pc[c] = "ok" /\ req[c].kind \in Forms
      <4>1. token[c] = t
        BY <2>3, <3>3 DEF Shows, LoggedInAs
      <4> QED BY <1>b, <3>3, <4>1 DEF Keeps, Carries
    <3> QED BY <2>1, <3>1, <3>2, <3>3
  <2>4. \A t \in Tokens : Stored(t)' = Stored(t)
    BY <2>1 DEF Stored
  <2> QED BY <1>shrinks, <1>next, <2>2, <2>3, <2>4, KeptShrinks
<1>3. CASE Unauthorized(c)
  <2>1. CASE store[b].tokens = NoToken
    <3>1. store'[b] = LoggedOut /\ UNCHANGED rows /\ pc'[c] = "done"
      BY <1>0, <1>b, <1>3, <2>1 DEF Unauthorized, SetStore, Settle, CallTypes
    <3>2. ~Of(c, b)' /\ \A t \in Tokens : ~Shows(b, t)' /\ Stored(t)' = Stored(t)
      BY <3>1, MarkersAssumption
         DEF Of, InFlight, Serving, Answered, Refreshing, NoRefresh, Shows, LoggedOut, Stored
    <3> QED BY <1>shrinks, <1>next, <3>2, KeptShrinks
  <2>2. CASE store[b].tokens # NoToken
    <3>1. /\ store'[b] = store[b] /\ UNCHANGED rows /\ pc[c] = "unauthorized"
          /\ pc'[c] = "refreshing" /\ token'[c] = store[b].tokens
      BY <1>0, <1>b, <1>3, <2>2 DEF Unauthorized, CallTypes
    <3>2. ASSUME NEW t, Carries(c, t)' PROVE Keeps(b, t)
      <4>1. store[b].tokens = t
        BY <3>1, <3>2 DEF Carries
      <4>2. Shows(b, t)
        BY <1>b, <3>1, <4>1 DEF Shows, Rotated, NoRefresh
      <4> QED BY <4>2 DEF Keeps
    <3> QED BY <1>dull, <3>1, <3>2 DEF Rotated, NoRefresh
  <2> QED BY <2>1, <2>2
<1>4. CASE FindRow(c)
  <2>1. /\ store'[b] = store[b] /\ UNCHANGED rows /\ pc[c] = "refreshing"
        /\ \/ pc'[c] \in NoRefresh
           \/ pc'[c] = "deleting" /\ rows[row'[c]].token = token[c]
    BY <1>0, <1>4 DEF FindRow, Step, CallTypes, Stored, NoRefresh
  <2>2. ASSUME NEW t, Carries(c, t)' PROVE Keeps(b, t)
    <3>1. t = token[c]
      BY <2>1, <2>2 DEF Carries, NoRefresh
    <3> QED BY <1>b, <2>1, <3>1 DEF Carries, Keeps
  <2> QED BY <1>dull, <2>1, <2>2 DEF Rotated, NoRefresh
<1>busy. ASSUME UNCHANGED rows, pc'[c] \in Rotated,
                \A t \in Tokens : Of(c, b)' /\ Carries(c, t)' => Keeps(b, t)
         PROVE  KeptIsStored' /\ KeptByOne'
  <2>1. Of(c, b)'
    BY <1>0, <1>b, <1>busy DEF CallLocal, Of, InFlight, Refreshing, Rotated, NoRefresh
  <2>2. \A t : ~Shows(b, t)'
    BY <1>busy, <2>1 DEF Shows
  <2>3. \A t \in Tokens : Stored(t)' = Stored(t)
    BY <1>busy DEF Stored
  <2> QED BY <1>shrinks, <1>next, <1>busy, <2>2, <2>3, KeptShrinks
<1>5. CASE RefreshFault(c) \/ ((Rotate(c) \/ DeleteRow(c)) /\ UNCHANGED rows)
  <2>1. UNCHANGED rows /\ pc'[c] \in NoRefresh \cup {"rotating", "refreshed"}
    BY <1>0, <1>5 DEF RefreshFault, Rotate, DeleteRow, Step, CallTypes, NoRefresh
  <2>2. pc'[c] = "refreshed" => ~Storable(token[c]) \/ rows'[<<c, "refresh">>] # NoRow
    <3>1. SUFFICES ASSUME pc'[c] = "refreshed", Storable(token[c])
                   PROVE  rows'[<<c, "refresh">>] # NoRow
      OBVIOUS
    <3>2. SaveRow(<<c, "refresh">>, token[c]) /\ pc[c] = "rotating"
      BY <1>0, <1>5, <3>1 DEF RefreshFault, Rotate, DeleteRow, Step, CallTypes
    <3>3. <<c, "refresh">> \in RowIds /\ token[c] \in Tokens /\ now + RefreshLife \in Nat
      BY <1>0, <3>2, LivesAssumption DEF RowIds, CallKnows, Signed, RowPart
    <3>4. rows'[<<c, "refresh">>] = [token |-> token[c], expires |-> now + RefreshLife]
      BY <1>0, <3>2, <3>3 DEF SaveRow, RowPart
    <3> QED BY <3>3, <3>4, MarkersAssumption DEF Rows
  <2>3. pc'[c] # "refreshed"
    <3>1. SUFFICES ASSUME pc'[c] = "refreshed" PROVE FALSE
      OBVIOUS
    <3>2. pc[c] = "rotating" /\ Storable(token[c])
      BY <1>0, <1>5, <3>1 DEF RefreshFault, Rotate, DeleteRow, Step, CallTypes
    <3>3. rows[<<c, "refresh">>] # NoRow
      BY <2>1, <2>2, <3>1, <3>2
    <3> QED BY <3>2, <3>3 DEF WholeInv, RedeemInv, WrittenOnce, Written
  <2>4. \A t : ~Carries(c, t)'
    BY <2>1, <2>3 DEF Carries, NoRefresh
  <2> QED BY <1>busy, <2>1, <2>4 DEF Rotated
<1>6. CASE Refreshed(c)
  <2>1. /\ UNCHANGED rows /\ pc[c] = "refreshed" /\ pc'[c] = "sent"
        /\ store'[b].tokens = token[c]
    BY <1>0, <1>b, <1>6 DEF Refreshed, Step, SetStore, CallTypes, Stores
  <2>2. ASSUME NEW t, Shows(b, t)' \/ Carries(c, t)' PROVE Keeps(b, t)
    <3>1. t = token[c]
      BY <2>1, <2>2 DEF Shows, Carries
    <3> QED BY <1>b, <2>1, <3>1 DEF Keeps, Carries
  <2>3. \A t \in Tokens : Stored(t)' = Stored(t)
    BY <2>1 DEF Stored
  <2> QED BY <1>shrinks, <1>next, <2>2, <2>3, KeptShrinks
(* The rows change. *)
<1>7. ASSUME NEW i \in Ids, RemoveUser(c, i), rows' # rows
      PROVE  KeptIsStored' /\ KeptByOne'
  <2>1. /\ rows' = [r \in RowIds |->
                      IF rows[r] # NoRow /\ rows[r].token.user = i THEN NoRow ELSE rows[r]]
        /\ account'[i].role = "GONE" /\ store' = store /\ pc[c] = "acting"
        /\ pc'[c] \in {"ok", "refused"} /\ req'[c] = req[c]
    BY <1>0, <1>7 DEF RemoveUser, Step, CallTypes, RowPart
  <2>2. \A t : ~Carries(c, t)'
    BY <2>1 DEF Carries, WholeInv, CallsFit, ActingAdmin, Forms
  <2>3. \A t \in Tokens : Stored(t) # {} /\ ~Gone(t.user)' => Stored(t)' # {}
    BY <2>1 DEF Stored, Gone
  <2>4. \A t : Shows(b, t)' => Shows(b, t)
    BY <1>shown, <2>1 DEF Rotated, NoRefresh
  <2> QED BY <1>shrinks, <1>next, <2>2, <2>3, <2>4, KeptShrinks DEF Keeps
<1>8. CASE DeleteRow(c) /\ rows' # rows
  <2>1. /\ pc[c] = "deleting" /\ pc'[c] = "rotating" /\ row[c] \in RowIds
        /\ rows' = [rows EXCEPT ![row[c]] = NoRow] /\ rows[row[c]] # NoRow
        /\ store' = store
    BY <1>0, <1>8 DEF DeleteRow, Deletable, Step, CallTypes, CallKnows
  <2>2. Of(c, b)' /\ \A t : ~Shows(b, t)' /\ ~Carries(c, t)'
    BY <1>0, <1>b, <2>1 DEF CallLocal, Of, InFlight, Refreshing, Shows, Carries, Rotated
  <2>3. \A d \in Browsers : \A t \in Tokens : Keeps(d, t)' => d # b /\ Keeps(d, t)
    BY <1>b, <1>shrinks, <2>2, KeptByCaller
  <2> DEFINE t0 == rows[row[c]].token
  <2>4. t0 \in Tokens /\ Keeps(b, t0) /\ ~Gone(t0.user)
    <3>1. rows[row[c]] \in Rows /\ Live(t0.user)
      BY <1>0, <2>1 DEF RowPart, NoSessionOfRemoved
    <3>2. Carries(c, t0)
      BY <2>1 DEF Carries
    <3> QED BY <1>b, <3>1, <3>2 DEF Rows, Keeps, Live, Gone, Roles
  <2>5. ASSUME NEW d \in Browsers, NEW t \in Tokens, Keeps(d, t)', ~Gone(t.user)'
        PROVE  Stored(t)' # {}
    <3>1. Keeps(d, t) /\ d # b
      BY <2>3, <2>5
    <3>2. ~Gone(t.user)
      BY <1>next, <2>5, GoneForGood DEF Tokens, WholeInv, RedeemInv
    <3>3. t # t0
      BY <2>4, <3>1, <3>2 DEF KeptByOne
    <3>4. PICK r \in RowIds : rows[r] # NoRow /\ rows[r].token = t
      BY <3>1, <3>2 DEF KeptIsStored, Stored
    <3>5. rows'[r] = rows[r]
      BY <1>0, <2>1, <3>3, <3>4 DEF RowPart
    <3> QED BY <3>4, <3>5 DEF Stored
  <2>6. KeptByOne'
    <3>1. \A t \in Tokens : Gone(t.user) => Gone(t.user)'
      BY <1>next, GoneForGood DEF WholeInv, RedeemInv, Tokens
    <3> QED BY <2>3, <3>1 DEF KeptByOne
  <2> QED BY <2>5, <2>6 DEF KeptIsStored
<1>9. CASE (Save(c) \/ Rotate(c)) /\ rows' # rows
  <2>0. PICK kind \in {"login", "refresh"} :
          /\ Storable(token[c]) /\ SaveRow(<<c, kind>>, token[c]) /\ store' = store
          /\ pc[c] \in {"saving", "rotating"} /\ pc'[c] \in {"ok", "refreshed"}
          /\ token'[c] = token[c] /\ token[c] \in Tokens
          /\ kind = "login" => pc[c] = "saving"
          /\ kind = "refresh" => pc[c] = "rotating" /\ pc'[c] = "refreshed"
    BY <1>0, <1>9 DEF Save, Rotate, Step, CallTypes, CallKnows, Signed
  <2>1. /\ <<c, kind>> \in RowIds /\ rows[<<c, kind>>] = NoRow
        /\ rows'[<<c, kind>>] # NoRow /\ rows'[<<c, kind>>].token = token[c]
        /\ \A r \in RowIds : r # <<c, kind>> => rows'[r] = rows[r]
    <3>1. <<c, kind>> \in RowIds /\ now + RefreshLife \in Nat
      BY <1>0, LivesAssumption DEF RowIds, RowPart
    <3>2. rows' = [rows EXCEPT ![<<c, kind>>] = [token |-> token[c], expires |-> now + RefreshLife]]
      BY <2>0 DEF SaveRow
    <3>3. rows[<<c, kind>>] = NoRow
      BY <2>0 DEF WholeInv, RedeemInv, WrittenOnce, Written
    <3>4. [token |-> token[c], expires |-> now + RefreshLife] \in Rows
      BY <2>0, <3>1 DEF Rows
    <3> QED BY <1>0, <3>1, <3>2, <3>3, <3>4, MarkersAssumption DEF RowPart
  <2>2. \A t \in Tokens : Stored(t) # {} => Stored(t)' # {}
    BY <2>1 DEF Stored
  <2>3. \A t : t = token[c] => Stored(t)' # {}
    BY <2>1 DEF Stored
  <2>4. ASSUME NEW t \in Tokens, t # token[c], Shows(b, t)' \/ (Of(c, b)' /\ Carries(c, t)')
        PROVE  Keeps(b, t)
    <3>1. ~Carries(c, t)'
      BY <2>0, <2>4 DEF Carries
    <3>2. CASE pc'[c] = "refreshed"
      <4>1. Of(c, b)'
        BY <1>0, <1>b, <3>2 DEF CallLocal, Of, InFlight, Refreshing
      <4> QED BY <2>4, <3>1, <3>2, <4>1 DEF Shows, Rotated
    <3>3. CASE pc'[c] = "ok"
      <4>1. pc[c] \notin Rotated
        BY <1>0, <1>9, <2>0, <3>3 DEF Rotated, NoRefresh, Rotate, Step, CallTypes
      <4> QED BY <1>shown, <2>0, <2>4, <3>1, <4>1 DEF Keeps
    <3> QED BY <2>0, <3>2, <3>3
  <2>5. ASSUME NEW d \in Browsers, NEW t \in Tokens, Keeps(d, t)', d # b \/ t # token[c]
        PROVE  Keeps(d, t)
    <3>1. CASE d # b
      BY <1>b, <2>5, <3>1, KeptByOthers
    <3>2. CASE d = b
      BY <1>b, <2>4, <2>5, <3>2, KeptByCaller
    <3> QED BY <3>1, <3>2
  <2>6. ASSUME NEW d \in Browsers, d # b, NEW t \in Tokens, t = token[c], Keeps(d, t)'
        PROVE  Gone(t.user)
    <3>1. Keeps(d, t)
      BY <2>5, <2>6
    <3>2. Stored(token[c]) = {}
      BY <2>0 DEF Storable
    <3> QED BY <2>6, <3>1, <3>2 DEF KeptIsStored
  <2>7. \A t \in Tokens : Gone(t.user) => Gone(t.user)'
    BY <1>next, GoneForGood DEF WholeInv, RedeemInv, Tokens
  <2>8. KeptIsStored'
    <3> SUFFICES ASSUME NEW d \in Browsers, NEW t \in Tokens, Keeps(d, t)', ~Gone(t.user)'
                 PROVE  Stored(t)' # {}
        BY DEF KeptIsStored
    <3>1. CASE t = token[c]
      BY <2>3, <3>1
    <3>2. CASE t # token[c]
      BY <2>2, <2>5, <2>7, <3>2 DEF KeptIsStored
    <3> QED BY <3>1, <3>2
  <2>9. KeptByOne'
    BY <2>0, <2>5, <2>6, <2>7 DEF KeptByOne
  <2> QED BY <2>8, <2>9
<1> QED
  <2>1. "CUSTOMER" \in Roles
    BY DEF Roles
  <2> QED BY <1>1, <1>2, <1>3, <1>4, <1>5, <1>6, <1>7, <1>8, <1>9, <2>1 DEF CallAct, CallStep
LEMMA RowFoundStep ==
  ASSUME WholeInv, Orderly, KeptByOne, RowFound, NEW c \in Calls, CallAct(c)
  PROVE  RowFound'
<1>0. /\ CallTypes /\ RowPart /\ CallLocal(c) /\ Solo /\ FoundPast
      /\ \A d \in Calls : CallKnows(d)
  BY CallActs DEF WholeInv, RedeemInv, SessionInv, CallPart, CallsFit
<1>next. [Next]_vars
  BY DEF Next, CallAct
<1> SUFFICES ASSUME NEW d \in Calls, pc'[d] = "deleting"
             PROVE  \/ Gone(token[d].user)'
                    \/ rows'[row'[d]] # NoRow /\ rows'[row'[d]].token.user = token'[d].user
    BY DEF RowFound
<1>1. CASE d = c
  <2>1. FindRow(c)
    BY <1>0, <1>1
       DEF CallAct, CallStep, Login, Register, Save, Authorize, CreateUser, RemoveUser, UpdateRole,
           Succeed, Refused, Unauthorized, DeleteRow, Rotate, Refreshed, RefreshFailed,
           CallFault, RefreshFault, Step, Settle, Reject, CallTypes
  <2>2. PICK r \in Stored(token[c]) : row'[c] = r /\ token'[c] = Mint(token[c].user)
    BY <1>0, <1>1, <2>1 DEF FindRow, Step, CallTypes
  <2>3. rows' = rows
    BY <2>1 DEF FindRow
  <2> QED BY <1>1, <2>2, <2>3 DEF Stored, Mint
<1>2. CASE d # c
  <2>1. pc[d] = "deleting" /\ row'[d] = row[d] /\ token'[d] = token[d] /\ row[d] \in RowIds
        /\ token[d] \in Tokens
    BY <1>0, <1>2 DEF CallLocal, OnlyMoves, CallKnows, Signed
  <2>2. CASE Gone(token[d].user)
    <3>1. token[d].user \in Ids
      BY <2>1 DEF Tokens
    <3>2. Gone(token[d].user)'
      BY <1>next, <2>1, <2>2, <3>1, GoneForGood DEF WholeInv, RedeemInv, Gone
    <3> QED BY <3>2
  <2>3. CASE ~Gone(token[d].user) /\ rows'[row[d]] = rows[row[d]]
    BY <2>1, <2>3 DEF RowFound
  <2>4. CASE ~Gone(token[d].user) /\ rows'[row[d]] # rows[row[d]]
    <3>1. rows[row[d]] # NoRow /\ rows[row[d]].token.user = token[d].user
      BY <2>1, <2>4 DEF RowFound
    <3>2. rows'[row[d]] = NoRow
      BY <1>0, <2>1, <2>4, PastStays DEF FoundPast
    <3>3. DeleteRow(c) \/ \E i \in Ids : RemoveUser(c, i)
      <4>1. ~(Save(c) \/ Rotate(c))
        <5>1. SUFFICES ASSUME Save(c) \/ Rotate(c), SaveRow(<<c, "login">>, token[c])
                                                    \/ SaveRow(<<c, "refresh">>, token[c])
                       PROVE  FALSE
          BY <2>4 DEF Save, Rotate
        <5>2. [token |-> token[c], expires |-> now + RefreshLife] \in Rows
          BY <1>0, <5>1, LivesAssumption DEF Save, Rotate, CallKnows, Signed, RowPart, Rows
        <5> QED BY <1>0, <2>1, <3>1, <3>2, <5>1, <5>2, MarkersAssumption DEF SaveRow, RowPart
      <4> QED BY <2>4, <4>1
              DEF CallAct, CallStep, Login, Register, Authorize, CreateUser, UpdateRole,
                  Succeed, Refused, Unauthorized, FindRow, Refreshed, RefreshFailed,
                  CallFault, RefreshFault
    <3>4. CASE DeleteRow(c)
      <4>1. pc[c] = "deleting" /\ row[c] = row[d]
        BY <1>0, <2>1, <2>4, <3>4 DEF DeleteRow, RowPart
      <4> DEFINE t == rows[row[d]].token
      <4>2. t \in Tokens /\ ~Gone(t.user)
        BY <1>0, <2>1, <2>4, <3>1 DEF RowPart, Rows
      <4>3. Carries(c, t) /\ Carries(d, t)
        BY <2>1, <3>1, <4>1 DEF Carries
      <4>4. /\ Of(c, req[c].by) /\ Of(d, req[d].by)
            /\ req[c].by \in Browsers /\ req[d].by \in Browsers
        BY <1>0, <2>1, <4>1 DEF Of, CallKnows, Requests, InFlight, Refreshing
      <4>5. req[c].by = req[d].by
        BY <4>2, <4>3, <4>4 DEF KeptByOne, Keeps
      <4> QED BY <1>0, <1>2, <4>4, <4>5 DEF Solo, Orderly
    <3>5. ASSUME NEW i \in Ids, RemoveUser(c, i)
          PROVE  Gone(token[d].user)'
      <4>1. /\ account'[i].role = "GONE"
            /\ rows' = [r \in RowIds |->
                          IF rows[r] # NoRow /\ rows[r].token.user = i THEN NoRow ELSE rows[r]]
        BY <1>0, <2>4, <3>5 DEF RemoveUser, RowPart
      <4>2. token[d].user = i
        BY <2>1, <2>4, <3>1, <4>1
      <4> QED BY <2>1, <4>1, <4>2 DEF Gone
    <3> QED BY <3>3, <3>4, <3>5
  <2> QED BY <2>2, <2>3, <2>4
<1> QED BY <1>1, <1>2

LEMMA FailsStep ==
  ASSUME WholeInv, Orderly, KeptIsStored, RowFound, FailsForCause, NEW c \in Calls, CallAct(c)
  PROVE  FailsForCause'
<1>0. /\ CallTypes /\ RowPart /\ store \in [Browsers -> Stores] /\ CallLocal(c)
      /\ Solo /\ SameUser /\ AuthHasTokens /\ AgesFit /\ \A d \in Calls : CallKnows(d)
  BY CallActs DEF WholeInv, RedeemInv, SessionInv, CallPart, ScreenPart, CallsFit
<1>next. [Next]_vars
  BY DEF Next, CallAct
<1> SUFFICES ASSUME NEW b \in Browsers, NEW d \in Calls, Of(d, b)', store'[b].auth,
                    store'[b].tokens # MadeUp
             PROVE  /\ pc'[d] = "absent" => Gone(store[b].user)'
                    /\ pc'[d] = "expired" => now' > store'[b].tokens.iat + RefreshLife
    BY DEF FailsForCause
<1>of. Of(d, b) /\ Of(c, req[c].by) /\ req[c].by \in Browsers
  BY <1>0 DEF CallLocal, OnlyMoves, Of, InFlight, Serving, Answered, Refreshing, NoRefresh,
     CallKnows, Requests
<1>gone. \A i \in Ids : Gone(i) => Gone(i)'
  BY <1>next, GoneForGood DEF WholeInv, RedeemInv
<1>1. CASE d # c
  <2>1. b # req[c].by
    BY <1>0, <1>1, <1>of DEF Solo, Orderly
  <2>2. store'[b] = store[b] /\ pc'[d] = pc[d] /\ now' = now
    BY <1>0, <1>1, <2>1 DEF CallLocal, OnlyMoves
  <2>3. Gone(store[b].user) => Gone(store[b].user)'
    <3>1. store[b].user \in Ids
      <4>1. store[b].tokens \in Tokens
        BY <1>0, <2>2 DEF AuthHasTokens, Stores
      <4> QED BY <1>0, <2>2, <4>1 DEF SameUser, Orderly, Tokens
    <3> QED BY <1>gone, <2>2, <3>1 DEF Gone
  <2> QED BY <1>of, <2>2, <2>3 DEF FailsForCause
<1>2. CASE d = c
  <2>0. b = req[c].by
    BY <1>2, <1>of DEF Of
  <2>1. ASSUME pc'[c] \in {"absent", "expired"}
        PROVE  (FindRow(c) \/ DeleteRow(c)) /\ store' = store
    <3>1. FindRow(c) \/ DeleteRow(c)
      BY <1>0, <2>1
         DEF CallAct, CallStep, Login, Register, Save, Authorize, CreateUser, RemoveUser, UpdateRole,
             Succeed, Refused, Unauthorized, Rotate, Refreshed, RefreshFailed,
             CallFault, RefreshFault, Step, Settle, Reject, CallTypes
    <3> QED BY <3>1 DEF FindRow, DeleteRow
  <2> SUFFICES ASSUME pc'[c] \in {"absent", "expired"}
               PROVE  /\ pc'[c] = "absent" => Gone(store[b].user)'
                      /\ pc'[c] = "expired" => now' > store'[b].tokens.iat + RefreshLife
      BY <1>2
  <2>2. /\ store' = store /\ now' = now /\ store[b].auth
        /\ store[b].tokens \in Tokens /\ store[b].user \in Ids
        /\ store[b].tokens.user = store[b].user
        /\ pc[c] = "refreshing" => token[c] = store[b].tokens
        /\ pc[c] = "deleting" => token[c].user = store[b].user
    <3>1. store' = store /\ now' = now
      BY <1>0, <2>1 DEF CallLocal
    <3>2. store[b].tokens \in Tokens
      BY <1>0, <3>1 DEF AuthHasTokens, Stores
    <3> QED BY <1>0, <1>of, <2>0, <3>1, <3>2 DEF SameUser, Orderly, Tokens
  <2>3. CASE FindRow(c)
    <3>1. pc[c] = "refreshing" /\ token[c] = store[b].tokens
      BY <2>2, <2>3 DEF FindRow
    <3>2. CASE pc'[c] = "absent"
      <4>1. Stored(token[c]) = {}
        BY <1>0, <2>3, <3>2 DEF FindRow, Step, CallTypes
      <4>2. Keeps(b, token[c])
        BY <1>of, <2>0, <3>1 DEF Keeps, Carries
      <4>3. Gone(store[b].user)
        BY <2>2, <3>1, <4>1, <4>2 DEF KeptIsStored
      <4> QED BY <1>gone, <2>2, <3>2, <4>3 DEF Gone
    <3>3. CASE pc'[c] = "expired"
      <4>1. PICK r \in Stored(token[c]) : rows[r].expires < now
        BY <1>0, <2>3, <3>3 DEF FindRow, Step, CallTypes
      <4>2. /\ rows[r] \in Rows /\ rows[r].token = token[c]
            /\ rows[r].expires >= rows[r].token.iat + RefreshLife
        BY <1>0, <4>1 DEF Stored, AgesFit, RowPart
      <4> QED BY <1>0, <2>2, <3>1, <3>3, <4>1, <4>2, LivesAssumption DEF RowPart, Rows, Tokens
    <3> QED BY <3>2, <3>3
  <2>4. CASE DeleteRow(c)
    <3>1. pc[c] = "deleting" /\ pc'[c] = "absent" /\ rows[row[c]] = NoRow
      BY <1>0, <2>4 DEF DeleteRow, Deletable, Step, CallTypes
    <3>2. Gone(store[b].user)
      BY <2>2, <3>1 DEF RowFound
    <3> QED BY <1>gone, <2>2, <3>1, <3>2 DEF Gone
  <2> QED BY <2>1, <2>3, <2>4
<1> QED BY <1>1, <1>2
(* Sending, logging out and waiting. *)
LEMMA IdleSteps ==
  ASSUME WholeInv, RedeemInv', RefreshesAgain',
         \/ Tick \/ UNCHANGED vars
         \/ \E b \in Browsers : Logout(b)
         \/ \E c \in Calls, b \in Browsers, kind \in Kinds, e \in Emails, good \in BOOLEAN :
              Send(c, b, kind, e, good)
  PROVE  WholeInv'
<1>0. /\ CallTypes /\ RowPart /\ store \in [Browsers -> Stores] /\ calm \in [Browsers -> BOOLEAN]
      /\ CallsFit /\ Solo /\ SameUser /\ \A d \in Calls : CallKnows(d)
  BY DEF WholeInv, RedeemInv, SessionInv, CallPart, ScreenPart, HistoryPart
<1>1. CASE Tick \/ UNCHANGED vars
  <2>1. now <= now' /\ now \in Nat /\ now' \in Nat
        /\ UNCHANGED <<account, rows, store, calls, history>>
    BY <1>0, <1>1 DEF Tick, vars, calls, history, RowPart
  <2>2. /\ UNCHANGED <<account, rows, store, pc, req, token, row, again, calm>>
        /\ \A b \in Browsers : \A t : Keeps(b, t)' <=> Keeps(b, t)
        /\ \A t : Stored(t)' = Stored(t) /\ \A i : Gone(i)' <=> Gone(i)
    BY <2>1 DEF calls, history, Keeps, Shows, Carries, Of, Stored, Gone
  <2>3. CallsFit'
    <3>1. \A c \in Calls : pc[c] \in {"saving", "deleting", "rotating"} => token[c].iat <= now'
      BY <1>0, <2>1 DEF CallsFit, AgesFit, CallKnows, Signed, Tokens
    <3> QED BY <1>0, <2>2, <3>1
            DEF CallsFit, AgesFit, FoundPast, ActingAdmin, AuthHasTokens, Past
  <2>4. Solo' /\ SameUser'
    BY <1>0, <2>2 DEF Solo, SameUser, Of
  <2>5. Orderly' => KeptIsStored' /\ KeptByOne' /\ RowFound'
    BY <2>2 DEF WholeInv, Orderly, KeptIsStored, KeptByOne, RowFound, Gone
  <2>6. Orderly' => FailsForCause'
    <3> SUFFICES ASSUME Orderly, NEW b \in Browsers, NEW c \in Calls, Of(c, b), store[b].auth,
                        store[b].tokens # MadeUp
                 PROVE  /\ pc[c] = "absent" => Gone(store[b].user)
                        /\ pc[c] = "expired" => now' > store[b].tokens.iat + RefreshLife
        BY <2>2 DEF FailsForCause, Orderly, Of, Gone
    <3>1. store[b].tokens \in Tokens
      BY <1>0 DEF CallsFit, AuthHasTokens, Stores
    <3>2. store[b].tokens.iat + RefreshLife \in Nat
      BY <3>1, LivesAssumption DEF Tokens
    <3> QED BY <2>1, <3>2 DEF WholeInv, FailsForCause
  <2> QED BY <2>3, <2>4, <2>5, <2>6 DEF WholeInv
<1>2. ASSUME NEW b \in Browsers, Logout(b)
      PROVE  WholeInv'
  <2>1. /\ UNCHANGED <<now, account, rows, pc, req, token, row, again, calm>>
        /\ store' = [store EXCEPT ![b] = LoggedOut]
    BY <1>2 DEF Logout, calls, history, SetStore
  <2>2. store'[b] = LoggedOut /\ \A d \in Browsers : d # b => store'[d] = store[d]
    BY <1>0, <2>1
  <2>3. \A d \in Browsers : \A t \in Tokens : Keeps(d, t)' => Keeps(d, t)
    BY <2>1, <2>2, MarkersAssumption DEF Keeps, Shows, Carries, Of, LoggedOut
  <2>4. CallsFit'
    BY <1>0, <2>1, <2>2 DEF CallsFit, AgesFit, FoundPast, ActingAdmin, AuthHasTokens, Past, LoggedOut
  <2>5. Solo' /\ SameUser'
    BY <1>0, <2>1, <2>2 DEF Solo, SameUser, Of, LoggedOut
  <2>6. Orderly' => KeptIsStored' /\ KeptByOne' /\ RowFound' /\ FailsForCause'
    BY <2>1, <2>2, <2>3
       DEF WholeInv, Orderly, KeptIsStored, KeptByOne, RowFound, FailsForCause, Stored, Gone, Of,
           LoggedOut
  <2> QED BY <2>4, <2>5, <2>6 DEF WholeInv
<1>3. ASSUME NEW c \in Calls, NEW b \in Browsers, NEW kind \in Kinds, NEW e \in Emails,
             NEW good \in BOOLEAN, Send(c, b, kind, e, good)
      PROVE  WholeInv'
  <2>1. /\ UNCHANGED <<now, account, rows, store, row, again>>
        /\ pc[c] = "idle" /\ pc'[c] = "sent" /\ req'[c].by = b
        /\ \A d \in Calls : d # c => pc'[d] = pc[d] /\ req'[d] = req[d] /\ token'[d] = token[d]
        /\ calm'[b] => calm[b] /\ ~Busy(b)
        /\ \A d \in Browsers : d # b => calm'[d] = calm[d]
    <3>1. /\ UNCHANGED <<now, account, rows, store, row, again>>
          /\ pc[c] = "idle" /\ pc' = [pc EXCEPT ![c] = "sent"]
          /\ \E r : r.by = b /\ req' = [req EXCEPT ![c] = r]
          /\ \E t : token' = [token EXCEPT ![c] = t]
          /\ calm' = [calm EXCEPT ![b] = @ /\ ~Busy(b)]
      BY <1>3 DEF Send
    <3>2. calm'[b] => calm[b] /\ ~Busy(b)
      BY <1>0, <3>1
    <3> QED BY <1>0, <3>1, <3>2 DEF CallTypes
  <2>2. /\ Of(c, b)' /\ \A d \in Browsers : d # b => ~Of(c, d)'
        /\ \A d \in Calls : d # c => \A a \in Browsers : Of(d, a)' <=> Of(d, a)
        /\ \A a \in Browsers : ~Of(c, a)
        /\ Busy(b) <=> \E d \in Calls : Of(d, b)
    BY <2>1 DEF Of, Busy, InFlight, Serving, Answered, Refreshing, NoRefresh
  <2>3. \A d \in Browsers : \A t : Keeps(d, t)' => Keeps(d, t)
    <3>1. \A d \in Browsers : \A t : Shows(d, t)' => Shows(d, t)
      BY <2>1, <2>2 DEF Shows
    <3>2. ~\E t : Carries(c, t)'
      BY <2>1 DEF Carries
    <3>3. \A d \in Calls : \A t : Carries(d, t)' => d # c /\ Carries(d, t)
      BY <2>1, <3>2 DEF Carries
    <3> QED BY <2>2, <3>1, <3>3 DEF Keeps
  <2>4. CallsFit'
    <3>1. \A r \in RowIds : Past(r) => Past(r)'
      BY <2>1 DEF Past, RowIds
    <3> QED BY <1>0, <2>1, <3>1
            DEF CallsFit, AgesFit, FoundPast, ActingAdmin, AuthHasTokens, CallKnows, Past
  <2>5. Solo'
    BY <1>0, <2>1, <2>2 DEF Solo
  <2>6. SameUser'
    BY <1>0, <2>1, <2>2 DEF SameUser
  <2>7. Orderly' => KeptIsStored' /\ KeptByOne' /\ RowFound' /\ FailsForCause'
    <3>1. Orderly' => Orderly
      BY <2>1 DEF Orderly
    <3>2. \A t : Stored(t)' = Stored(t) /\ \A i : Gone(i)' <=> Gone(i)
      BY <2>1 DEF Stored, Gone
    <3>3. Orderly' => KeptIsStored' /\ KeptByOne'
      BY <2>3, <3>1, <3>2 DEF WholeInv, KeptIsStored, KeptByOne, Gone
    <3>4. Orderly' => RowFound' /\ FailsForCause'
      BY <2>1, <2>2, <3>1 DEF WholeInv, RowFound, FailsForCause, Gone
    <3> QED BY <3>3, <3>4
  <2> QED BY <2>4, <2>5, <2>6, <2>7 DEF WholeInv
<1> QED BY <1>1, <1>2, <1>3

LEMMA WholeInit == Init => WholeInv
<1> SUFFICES ASSUME Init PROVE WholeInv
    OBVIOUS
<1>1. RedeemInv /\ RefreshesAgain
  BY RedeemInit
<1>2. /\ \A c \in Calls : pc[c] = "idle"
      /\ \A b \in Browsers : store[b] = LoggedOut
      /\ \A r \in RowIds : rows[r] = NoRow
  BY DEF Init
<1>3. CallsFit /\ Solo /\ SameUser /\ RowFound /\ FailsForCause
  BY <1>2 DEF CallsFit, AgesFit, FoundPast, ActingAdmin, AuthHasTokens, Solo, SameUser, RowFound,
     FailsForCause, Of, LoggedOut, InFlight, Serving, Answered, Refreshing, NoRefresh
<1>4. \A b \in Browsers : \A t \in Tokens : ~Keeps(b, t)
  BY <1>2, MarkersAssumption DEF Keeps, Shows, Of, LoggedOut, InFlight, Serving, Answered,
     Refreshing, NoRefresh
<1> QED BY <1>1, <1>3, <1>4 DEF WholeInv, KeptIsStored, KeptByOne

LEMMA WholeStep == WholeInv /\ [Next]_vars => WholeInv'
<1> SUFFICES ASSUME WholeInv, [Next]_vars PROVE WholeInv'
    OBVIOUS
<1>1. RedeemInv' /\ RefreshesAgain'
  BY RedeemStep, AgainStep DEF WholeInv, RedeemInv
<1>2. ASSUME NEW c \in Calls, CallAct(c) PROVE WholeInv'
  <2>1. Orderly' => Orderly
    <3>1. calm' = calm
      BY <1>2, CallActs DEF WholeInv, RedeemInv, CallLocal
    <3> QED BY <3>1 DEF Orderly
  <2>2. CallsFit' /\ Solo' /\ SameUser'
    BY <1>2, CallsFitStep, SoloStep, SameUserStep
  <2>3. Orderly => KeptIsStored' /\ KeptByOne' /\ RowFound' /\ FailsForCause'
    BY <1>2, KeptStep, RowFoundStep, FailsStep DEF WholeInv
  <2> QED BY <1>1, <2>1, <2>2, <2>3 DEF WholeInv
<1> QED BY <1>1, <1>2, IdleSteps DEF Next, CallAct

LEMMA WholeAlways == Spec => []WholeInv
BY WholeInit, WholeStep, PTL DEF Spec

LEMMA WholeShows ==
  ASSUME WholeInv, NEW b \in Browsers, calm[b], store[b].auth, store[b].tokens # MadeUp
  PROVE  /\ store[b].tokens \in Tokens /\ store[b].tokens.user = store[b].user
         /\ store[b].user \in Ids
<1>1. store \in [Browsers -> Stores]
  BY DEF WholeInv, RedeemInv, SessionInv, ScreenPart
<1>2. store[b].tokens \in Tokens
  BY <1>1 DEF WholeInv, CallsFit, AuthHasTokens, Stores
<1> QED BY <1>2 DEF WholeInv, SameUser, Tokens

(* What a browser shows is what it has: tokens of the user that it shows,  *)
(* and, unless calls of one browser overlapped somewhere, tokens that the  *)
(* server still knows, whatever answers were lost and whoever else logged  *)
(* in or out.                                                              *)
THEOREM SessionsStayWhole == Spec => []SessionIntact
<1>1. WholeInv => SessionIntact
  <2> SUFFICES ASSUME WholeInv, NEW b \in Browsers, calm[b], ~Busy(b), store[b].auth,
                      store[b].tokens # MadeUp
               PROVE  /\ store[b].tokens.user = store[b].user
                      /\ Orderly /\ Live(store[b].user) => Stored(store[b].tokens) # {}
      BY DEF SessionIntact
  <2>1. store[b].tokens \in Tokens /\ store[b].tokens.user = store[b].user
    BY WholeShows
  <2>2. Keeps(b, store[b].tokens)
    BY DEF Busy, Keeps, Shows, Of
  <2> QED BY <2>1, <2>2 DEF WholeInv, KeptIsStored, Gone, Live, Roles
<1> QED BY <1>1, WholeAlways, PTL

(* The only answers that end a login.                                      *)
LEMMA WhoLogsOut ==
  ASSUME store \in [Browsers -> Stores], NEW c \in Calls, CallAct(c), NEW b \in Browsers,
         b = req[c].by, store[b].auth, ~store'[b].auth
  PROVE  RefreshFailed(c) \/ (Unauthorized(c) /\ store[b].tokens = NoToken)
<1>0. store'[b] # store[b]
  OBVIOUS
<1>1. CASE \/ Login(c) \/ Register(c) \/ Save(c) \/ Authorize(c)
           \/ \E i \in Ids : CreateUser(c, i) \/ RemoveUser(c, i)
           \/ \E i \in Ids, role \in Roles : UpdateRole(c, i, role)
           \/ FindRow(c) \/ DeleteRow(c) \/ Rotate(c) \/ RefreshFault(c)
  <2>1. UNCHANGED store
    BY <1>1 DEF Login, Register, Save, Authorize, CreateUser, RemoveUser, UpdateRole, FindRow,
       DeleteRow, Rotate, RefreshFault
  <2> QED BY <1>0, <2>1
<1>2. CASE Succeed(c)
  BY <1>0, <1>2 DEF Succeed, SetStore, LoggedInAs
<1>3. CASE Refused(c) \/ CallFault(c)
  BY <1>0, <1>3 DEF Refused, CallFault, Reject, SetStore, StandIn
<1>4. CASE Unauthorized(c)
  BY <1>0, <1>4 DEF Unauthorized
<1>5. CASE Refreshed(c)
  <2>1. PICK s : s = [store[b] EXCEPT !.tokens = token[c]]
    OBVIOUS
  <2>2. s.auth = store[b].auth
    BY <2>1 DEF Stores
  <2>3. store' = [store EXCEPT ![b] = s]
    BY <1>5, <2>1 DEF Refreshed, SetStore
  <2> QED BY <2>2, <2>3
<1> QED BY <1>1, <1>2, <1>3, <1>4, <1>5 DEF CallAct, CallStep

(* A login is lost only for one of the causes that LogoutHasACause lists:  *)
(* a refresh that answers that the token is unknown or too old speaks the  *)
(* truth.                                                                  *)
THEOREM NoLogoutWithoutCause == Spec => LogoutHasACause
<1> DEFINE Cause(b) ==
       store[b].auth /\ ~store'[b].auth =>
         \/ Logout(b)
         \/ ~Orderly
         \/ store[b].tokens = MadeUp
         \/ ~Live(store[b].user)
         \/ now > store[b].tokens.iat + RefreshLife
         \/ \E c \in Calls : pc[c] \in {"clash", "broken"} /\ req[c].by = b
<1>1. WholeInv /\ [Next]_vars => [\A b \in Browsers : Cause(b)]_vars
  <2> SUFFICES ASSUME WholeInv, Next, NEW b \in Browsers, store[b].auth, ~store'[b].auth, Orderly,
                      store[b].tokens # MadeUp
               PROVE  Cause(b)
      OBVIOUS
  <2>0. store[b].tokens \in Tokens /\ store[b].tokens.user = store[b].user
    BY WholeShows DEF Orderly
  <2>1. ASSUME NEW c \in Calls, CallAct(c) PROVE Cause(b)
    <3>0. CallLocal(c) /\ store \in [Browsers -> Stores] /\ CallKnows(c)
      BY <2>1, CallActs DEF WholeInv, RedeemInv, SessionInv, ScreenPart, CallPart
    <3>1. b = req[c].by
      BY <3>0 DEF CallLocal
    <3>2. RefreshFailed(c) \/ (Unauthorized(c) /\ store[b].tokens = NoToken)
      BY <2>1, <3>0, <3>1, WhoLogsOut
    <3>3. pc[c] \in NoRefresh /\ Of(c, b)
      BY <2>0, <3>1, <3>2, MarkersAssumption DEF RefreshFailed, Of, InFlight
    <3>4. CASE pc[c] = "absent"
      BY <3>3, <3>4 DEF WholeInv, FailsForCause, Gone, Live, Roles
    <3>5. CASE pc[c] = "expired"
      BY <3>3, <3>5 DEF WholeInv, FailsForCause
    <3> QED BY <3>1, <3>3, <3>4, <3>5 DEF NoRefresh
  <2>2. ASSUME NEW d \in Browsers, Logout(d) PROVE Cause(b)
    <3>1. d = b
      BY <2>2 DEF Logout, SetStore, WholeInv, RedeemInv, SessionInv, ScreenPart
    <3> QED BY <2>2, <3>1
  <2>3. store' # store
    OBVIOUS
  <2> QED BY <2>1, <2>2, <2>3 DEF Next, CallAct, Send, Tick
<1> QED BY <1>1, WholeAlways, PTL DEF Spec, LogoutHasACause
=============================================================================
