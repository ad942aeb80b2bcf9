------------------------------ MODULE Sessions ------------------------------
(***************************************************************************)
(* Accounts and sessions: AuthService (register, login, rotating refresh), *)
(* the guards of authenticated calls, the admin's user management, and the *)
(* browser's side of it: the persisted auth store, the axios interceptors  *)
(* that refresh and retry after a 401, the login and register forms.       *)
(*                                                                         *)
(* A call is one use of the shared axios instance.  One step is one        *)
(* database statement with the code up to the next await, or the client's  *)
(* reaction to one answer.  JWTs carry user, role and issue time in        *)
(* seconds and no id, so two tokens of a user minted in one second are     *)
(* equal; access and refresh token are signed from one payload and stand   *)
(* here for one another.  `now` counts coarse ticks.  Tokens cannot be     *)
(* forged; the register form's stand-in account has the token MadeUp.      *)
(*                                                                         *)
(* Definitions named ...Bug are slips that mutation runs put in place of   *)
(* the definition that follows them.                                       *)
(***************************************************************************)
EXTENDS Integers, FiniteSets

CONSTANTS
  MaxIds,       \* bound on the identities of user rows
  Emails,
  Browsers,
  MaxCalls,     \* bound on the uses of the API
  NoUser, Stranger,   \* nobody; the account that only the browser knows
  NoToken, MadeUp,
  NoRow, NoRequest,
  AccessLife, RefreshLife,  \* lifetimes in ticks
  MaxTime                   \* bound on the clock

ASSUME LivesAssumption == AccessLife \in Nat /\ RefreshLife \in Nat
ASSUME BoundsAssumption == {MaxIds, MaxCalls, MaxTime} \subseteq Nat

Ids == 1..MaxIds       \* numbered as they are created
Calls == 1..MaxCalls   \* numbered as they are made

VARIABLES
  now,       \* the clock
  account,   \* account[i]: the row of users with id i; FREE and GONE are no rows
  rows,      \* refresh_tokens: rows[r] or NoRow
  store,     \* store[b]: the auth store of browser b
  pc,        \* pc[c]: where call c is
  req,       \* req[c]: what was asked, and by which browser
  token,     \* token[c]: the token the call carries, redeems or was given
  row,       \* row[c]: the refresh token row that the refresh of c found
  again,     \* again[c]: _retry
  redeemers, \* history: redeemers[r] are the calls that redeemed row r
  calm       \* history: calm[b] unless two calls of b were under way at once

vars == <<now, account, rows, store, pc, req, token, row, again,
          redeemers, calm>>
calls == <<pc, req, token, row, again>>
history == <<redeemers, calm>>

Roles == {"CUSTOMER", "ADMIN"}   \* SCANNER is to admin calls what CUSTOMER is
Kinds == {"login", "register", "query", "admin"}
Tokens == [user : Ids, role : Roles, iat : Nat]

(* A call mints at most one row by logging in and one by refreshing. *)
RowIds == Calls \X {"login", "refresh"}

Serving    == {"sent", "creating", "saving", "acting"}
Answered   == {"ok", "unauthorized", "refused"}
Refreshing == {"refreshing", "deleting", "rotating", "refreshed"}
NoRefresh  == {"absent", "expired", "clash", "broken"}   \* why a refresh failed
InFlight   == Serving \cup Answered \cup Refreshing \cup NoRefresh

LoggedOut == [user |-> NoUser, role |-> "CUSTOMER", tokens |-> NoToken, auth |-> FALSE]
LoggedInAs(t) == [user |-> t.user, role |-> t.role, tokens |-> t, auth |-> TRUE]
StandIn == [user |-> Stranger, role |-> "CUSTOMER", tokens |-> MadeUp, auth |-> TRUE]

Live(i) == account[i].role \in Roles
Has(e) == \E i \in Ids : Live(i) /\ account[i].email = e
MintBug(i) == [user |-> i, role |-> account[i].role, iat |-> now - AccessLife]
Mint(i) == [user |-> i, role |-> account[i].role, iat |-> now]
Stored(t) == {r \in RowIds : rows[r] # NoRow /\ rows[r].token = t}

Requests == [kind : Kinds, by : Browsers, email : Emails,
             good : BOOLEAN]   \* the password of a login is right
Accounts == [role : Roles \cup {"FREE", "GONE"}, email : Emails]
Rows == [token : Tokens, expires : Nat]
ASSUME MarkersAssumption ==
  NoToken # MadeUp /\ NoToken \notin Tokens /\ MadeUp \notin Tokens /\ NoRow \notin Rows
Stores == [user : Ids \cup {NoUser, Stranger}, role : Roles,
           tokens : Tokens \cup {NoToken, MadeUp}, auth : BOOLEAN]

Init ==
  /\ now = 0
  /\ account \in [Ids -> Accounts]
  /\ \A i \in Ids : account[i].role # "GONE"
  /\ \A i \in Ids : Live(i) => \A j \in 1..(i - 1) : Live(j)
  /\ \A i, j \in Ids : Live(i) /\ Live(j) /\ account[i].email = account[j].email => i = j
  /\ rows = [r \in RowIds |-> NoRow]
  /\ store = [b \in Browsers |-> LoggedOut]
  /\ pc = [c \in Calls |-> "idle"]
  /\ req = [c \in Calls |-> NoRequest]
  /\ token = [c \in Calls |-> NoToken]
  /\ row = [c \in Calls |-> NoRow]
  /\ again = [c \in Calls |-> FALSE]
  /\ redeemers = [r \in RowIds |-> {}]
  /\ calm = [b \in Browsers |-> TRUE]
-----------------------------------------------------------------------------
(* Sending: the request interceptor attaches the token of the store.       *)

(* The pages that send authenticated calls ask for isAuthenticated, the    *)
(* admin pages for the role in the store; the register page leaves when    *)
(* somebody is logged in.                                                  *)
MaySend(b, kind) ==
  CASE kind = "login"    -> TRUE
    [] kind = "register" -> ~store[b].auth
    [] kind = "query"    -> store[b].auth
    [] kind = "admin"    -> store[b].auth /\ store[b].role = "ADMIN"

(* Bound: there is an identity left for every registration under way. *)
IdLeft ==
  Cardinality({c \in Calls : req[c] # NoRequest /\ req[c].kind = "register"})
    < Cardinality({i \in Ids : account[i].role = "FREE"})

Busy(b) == \E c \in Calls : pc[c] \in InFlight /\ req[c].by = b

Send(c, b, kind, e, good) ==
  /\ pc[c] = "idle" /\ \A d \in 1..(c - 1) : pc[d] # "idle"
  /\ MaySend(b, kind)
  /\ kind = "register" => IdLeft
  /\ good \/ kind = "login"
  /\ pc' = [pc EXCEPT ![c] = "sent"]
  /\ req' = [req EXCEPT ![c] = [kind |-> kind, by |-> b, email |-> e, good |-> good]]
  /\ token' = [token EXCEPT ![c] = store[b].tokens]
  /\ calm' = [calm EXCEPT ![b] = @ /\ ~Busy(b)]
  /\ UNCHANGED <<now, account, rows, store, row, again, redeemers>>

-----------------------------------------------------------------------------
(* The server's side of a call *)

Step(c, to, t) ==
  /\ pc' = [pc EXCEPT ![c] = to]
  /\ token' = [token EXCEPT ![c] = t]

Asked(c, kinds) == pc[c] = "sent" /\ req[c].kind \in kinds

(* login: the user is read, the password compared, the tokens signed. *)
Login(c) ==
  /\ Asked(c, {"login"})
  /\ \/ /\ ~(Has(req[c].email) /\ req[c].good)
        /\ Step(c, "unauthorized", token[c])
     \/ \E i \in Ids : /\ Live(i) /\ account[i].email = req[c].email /\ req[c].good
                       /\ Step(c, "saving", Mint(i))
  /\ UNCHANGED <<now, account, rows, store, req, row, again, history>>

(* register looks for the e-mail address first; *)
Register(c) ==
  /\ Asked(c, {"register"})
  /\ Step(c, IF Has(req[c].email) THEN "refused" ELSE "creating", token[c])
  /\ UNCHANGED <<now, account, rows, store, req, row, again, history>>

(* then creates the user, which the unique address may refuse. *)
CreateUser(c, i) ==
  /\ pc[c] = "creating"
  /\ \/ /\ Has(req[c].email)
        /\ Step(c, "refused", token[c])
        /\ UNCHANGED account
     \/ /\ ~Has(req[c].email)
        /\ account[i].role = "FREE" /\ \A j \in 1..(i - 1) : account[j].role # "FREE"
        /\ Step(c, "saving", [user |-> i, role |-> "CUSTOMER", iat |-> now])
        /\ account' = [account EXCEPT ![i] = [role |-> "CUSTOMER", email |-> req[c].email]]
  /\ UNCHANGED <<now, rows, store, req, row, again, history>>

SaveRowBug(r, t) ==
  rows' = [rows EXCEPT ![r] = [token |-> t, expires |-> now]]

SaveRow(r, t) ==
  rows' = [rows EXCEPT ![r] = [token |-> t, expires |-> now + RefreshLife]]

StorableBug(t) == Stored(t) = {}

(* A row needs its user (foreign key) and a token no other row has.        *)
Storable(t) == Stored(t) = {} /\ Live(t.user)

(* saveRefreshToken of login and register *)
Save(c) ==
  /\ pc[c] = "saving"
  /\ IF Storable(token[c])
     THEN Step(c, "ok", token[c]) /\ SaveRow(<<c, "login">>, token[c])
     ELSE Step(c, "refused", token[c]) /\ UNCHANGED rows
  /\ UNCHANGED <<now, account, store, req, row, again, history>>

(* JwtStrategy: the signature and age of the token, then its user's row.   *)
Accepted(t) == t \in Tokens /\ now < t.iat + AccessLife /\ Live(t.user)

(* RolesGuard compares the role of the row, not the one in the token.      *)
IsAdmin(t) == account[t.user].role = "ADMIN"

Authorize(c) ==
  /\ Asked(c, {"query", "admin"})
  /\ Step(c,
          IF ~Accepted(token[c]) THEN "unauthorized"
          ELSE IF req[c].kind = "query" THEN "ok"
          ELSE IF IsAdmin(token[c]) THEN "acting" ELSE "refused",
          token[c])
  /\ UNCHANGED <<now, account, rows, store, req, row, again, history>>

(* UsersService.updateRole *)
UpdateRole(c, i, role) ==
  /\ pc[c] = "acting"
  /\ IF Live(i)
     THEN /\ Step(c, "ok", token[c])
          /\ account' = [account EXCEPT ![i] = [role |-> role, email |-> account[i].email]]
     ELSE Step(c, "refused", token[c]) /\ UNCHANGED account
  /\ UNCHANGED <<now, rows, store, req, row, again, history>>

(* UsersService.remove: the rows of refresh_tokens go with the user. *)
RemoveUser(c, i) ==
  /\ pc[c] = "acting"
  /\ IF Live(i)
     THEN /\ Step(c, "ok", token[c])
          /\ account' = [account EXCEPT ![i] = [role |-> "GONE", email |-> account[i].email]]
          /\ rows' = [r \in RowIds |->
                        IF rows[r] # NoRow /\ rows[r].token.user = i THEN NoRow ELSE rows[r]]
     ELSE Step(c, "refused", token[c]) /\ UNCHANGED <<account, rows>>
  /\ UNCHANGED <<now, store, req, row, again, history>>

-----------------------------------------------------------------------------
(* The client's reaction to an answer *)

(* The promise of the call settles; its locals are gone. *)
Settle(c) ==
  /\ pc' = [pc EXCEPT ![c] = "done"]
  /\ req' = [req EXCEPT ![c] = NoRequest]
  /\ token' = [token EXCEPT ![c] = NoToken]
  /\ row' = [row EXCEPT ![c] = NoRow]
  /\ again' = [again EXCEPT ![c] = FALSE]

SetStore(b, s) == store' = [store EXCEPT ![b] = s]

(* The forms of login, its demo buttons included, and of registration      *)
Forms == {"login", "register"}

(* Their answers: setAuth.  Other calls leave the store.                   *)
Succeed(c) ==
  /\ pc[c] = "ok"
  /\ IF req[c].kind \in Forms
     THEN SetStore(req[c].by, LoggedInAs(token[c]))
     ELSE UNCHANGED store
  /\ Settle(c)
  /\ UNCHANGED <<now, account, rows, history>>

(* A rejected call.  The register form makes up an account on any error.   *)
Reject(c) ==
  /\ IF req[c].kind = "register" THEN SetStore(req[c].by, StandIn) ELSE UNCHANGED store
  /\ Settle(c)

Refused(c) ==
  /\ pc[c] = "refused" \/ (pc[c] = "unauthorized" /\ again[c])
  /\ Reject(c)
  /\ UNCHANGED <<now, account, rows, history>>

(* Only the first 401 of a call is worth a refresh. *)
Retries(c) == ~again[c]

(* The response interceptor meets a 401. *)
Unauthorized(c) ==
  LET b == req[c].by IN
  /\ pc[c] = "unauthorized" /\ Retries(c)
  /\ IF store[b].tokens = NoToken
     THEN SetStore(b, LoggedOut) /\ Settle(c)
     ELSE /\ pc' = [pc EXCEPT ![c] = "refreshing"]
          /\ token' = [token EXCEPT ![c] = store[b].tokens]
          /\ again' = [again EXCEPT ![c] = TRUE]
          /\ UNCHANGED <<store, req, row>>
  /\ UNCHANGED <<now, account, rows, history>>

-----------------------------------------------------------------------------
(* refreshToken: find the row, sign, delete the row, save the new one      *)

FindRow(c) ==
  /\ pc[c] = "refreshing"
  /\ \/ /\ Stored(token[c]) = {}
        /\ Step(c, "absent", token[c])
        /\ UNCHANGED row
     \/ \E r \in Stored(token[c]) :
          IF rows[r].expires < now
          THEN Step(c, "expired", token[c]) /\ UNCHANGED row
          ELSE /\ Step(c, "deleting", Mint(token[c].user))
               /\ row' = [row EXCEPT ![c] = r]
  /\ UNCHANGED <<now, account, rows, store, req, again, history>>

DeletableBug(r) == TRUE

(* The row is deleted by its id; when it is gone the request fails. *)
Deletable(r) == rows[r] # NoRow

DeleteRow(c) ==
  /\ pc[c] = "deleting"
  /\ IF Deletable(row[c])
     THEN /\ Step(c, "rotating", token[c])
          /\ rows' = [rows EXCEPT ![row[c]] = NoRow]
          /\ redeemers' = [redeemers EXCEPT ![row[c]] = @ \cup {c}]
     ELSE Step(c, "absent", token[c]) /\ UNCHANGED <<rows, redeemers>>
  /\ UNCHANGED <<now, account, store, req, row, again, calm>>

Rotate(c) ==
  /\ pc[c] = "rotating"
  /\ IF Storable(token[c])
     THEN Step(c, "refreshed", token[c]) /\ SaveRow(<<c, "refresh">>, token[c])
     ELSE Step(c, "clash", token[c]) /\ UNCHANGED rows
  /\ UNCHANGED <<now, account, store, req, row, again, history>>

RefreshedBug(c) ==
  /\ pc[c] = "refreshed"
  /\ Step(c, "sent", token[c])
  /\ UNCHANGED <<now, account, rows, store, req, row, again, history>>

(* setTokens, and the call is sent again with the new token. *)
Refreshed(c) ==
  /\ pc[c] = "refreshed"
  /\ Step(c, "sent", token[c])
  /\ SetStore(req[c].by, [store[req[c].by] EXCEPT !.tokens = token[c]])
  /\ UNCHANGED <<now, account, rows, req, row, again, history>>

RefreshFailedBug(c) ==
  /\ pc[c] \in NoRefresh
  /\ Step(c, "refreshing", store[req[c].by].tokens)
  /\ UNCHANGED <<now, account, rows, store, req, row, again, history>>

(* Whatever the refresh failed of: logout, and the call is rejected. *)
RefreshFailed(c) ==
  /\ pc[c] \in NoRefresh
  /\ SetStore(req[c].by, LoggedOut)
  /\ Settle(c)
  /\ UNCHANGED <<now, account, rows, history>>

-----------------------------------------------------------------------------
(* The user, the network, the clock *)

Logout(b) ==
  /\ store[b] # LoggedOut
  /\ SetStore(b, LoggedOut)
  /\ UNCHANGED <<now, account, rows, calls, history>>

(* A request or its answer is lost, or the server fails without a 401:     *)
(* the call is rejected.  What the server has done stays done.             *)
CallFault(c) ==
  /\ pc[c] \in Serving \cup Answered
  /\ Reject(c)
  /\ UNCHANGED <<now, account, rows, history>>

RefreshFault(c) ==
  /\ pc[c] \in Refreshing
  /\ pc' = [pc EXCEPT ![c] = "broken"]
  /\ UNCHANGED <<now, account, rows, store, req, token, row, again, history>>

Tick ==
  /\ now < MaxTime
  /\ now' = now + 1
  /\ UNCHANGED <<account, rows, store, calls, history>>

-----------------------------------------------------------------------------
CallStep(c) ==
  \/ Login(c) \/ Register(c) \/ Save(c) \/ Authorize(c)
  \/ \E i \in Ids : CreateUser(c, i) \/ RemoveUser(c, i)
  \/ \E i \in Ids, role \in Roles : UpdateRole(c, i, role)
  \/ Succeed(c) \/ Refused(c) \/ Unauthorized(c)
  \/ FindRow(c) \/ DeleteRow(c) \/ Rotate(c) \/ Refreshed(c) \/ RefreshFailed(c)

Next ==
  \/ \E c \in Calls : CallStep(c) \/ CallFault(c) \/ RefreshFault(c)
  \/ \E c \in Calls, b \in Browsers, kind \in Kinds, e \in Emails, good \in BOOLEAN :
       Send(c, b, kind, e, good)
  \/ \E b \in Browsers : Logout(b)
  \/ Tick

(* Every request is answered and every answer handled; nobody has to log   *)
(* in or out.                                                              *)
Fairness == \A c \in Calls : WF_vars(CallStep(c))

Spec == Init /\ [][Next]_vars /\ Fairness

-----------------------------------------------------------------------------
(* Properties *)

TypeOK ==
  /\ now \in Nat
  /\ account \in [Ids -> Accounts]
  /\ rows \in [RowIds -> Rows \cup {NoRow}]
  /\ store \in [Browsers -> Stores]
  /\ pc \in [Calls -> {"idle", "done"} \cup InFlight]
  /\ req \in [Calls -> Requests \cup {NoRequest}]
  /\ token \in [Calls -> Tokens \cup {NoToken, MadeUp}]
  /\ row \in [Calls -> RowIds \cup {NoRow}]
  /\ again \in [Calls -> BOOLEAN]
  /\ redeemers \in [RowIds -> SUBSET Calls]
  /\ calm \in [Browsers -> BOOLEAN]

(* Rotation: of all refreshes that find one row of refresh_tokens, at most *)
(* one gets new tokens for it, although nothing locks the row between      *)
(* finding and deleting it.                                                *)
RedeemedOnce == \A r \in RowIds : \A c, d \in redeemers[r] : c = d

(* A removed user keeps no refresh token, not even one whose login or      *)
(* rotation was under way when the user was removed.                       *)
NoSessionOfRemoved == \A r \in RowIds : rows[r] # NoRow => Live(rows[r].token.user)

(* No browser ever had two calls under way at once. *)
Orderly == \A b \in Browsers : calm[b]

(* The session that a browser shows is the session it has: when its calls  *)
(* never overlapped and none is under way, its tokens belong to the user   *)
(* it shows and the server still knows them, whatever answers were lost.   *)
(* The latter needs all browsers to be orderly: a token that two calls of  *)
(* one browser redeem may meanwhile be minted again, by a login of the     *)
(* same user in the same second, and the later call then takes that row.   *)
SessionIntact ==
  \A b \in Browsers :
    calm[b] /\ ~Busy(b) /\ store[b].auth /\ store[b].tokens # MadeUp =>
      /\ store[b].tokens.user = store[b].user
      /\ Orderly /\ Live(store[b].user) => Stored(store[b].tokens) # {}

(* Nobody is thrown out without a cause: unless calls of one browser       *)
(* overlapped somewhere, a browser loses its login only by the user's own  *)
(* logout, because the account is gone or was made up, after the whole     *)
(* life of the refresh token, by a failing refresh, or because a second    *)
(* login of the user in the same second took the only possible token.      *)
LogoutHasACause ==
  [][\A b \in Browsers :
       store[b].auth /\ ~store'[b].auth =>
         \/ Logout(b)
         \/ ~Orderly
         \/ store[b].tokens = MadeUp
         \/ ~Live(store[b].user)
         \/ now > store[b].tokens.iat + RefreshLife
         \/ \E c \in Calls : pc[c] \in {"clash", "broken"} /\ req[c].by = b]_vars

(* Every call comes to an end: no 401 sends a call round in circles, so    *)
(* that again and again none is under way.                                 *)
EveryCallEnds == []<>(\A c \in Calls : pc[c] \notin InFlight)
=============================================================================
