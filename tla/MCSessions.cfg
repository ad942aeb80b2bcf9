\* One browser with three calls, one of which a second browser may use to log
\* in; accounts come and go.
CONSTANTS
  e1 = e1  b1 = b1  b2 = b2
  MaxIds = 2
  Emails = {e1}
  Browsers = {b1, b2}
  MaxCalls = 3
  NoUser = NoUser
  Stranger = Stranger
  NoToken = NoToken
  MadeUp = MadeUp
  NoRow = NoRow
  NoRequest = NoRequest
  AccessLife = 1
  RefreshLife = 1
  MaxTime = 2
SPECIFICATION MCSpec
INVARIANTS TypeOK RedeemedOnce NoSessionOfRemoved SessionIntact
PROPERTIES LogoutHasACause EveryCallEnds
CHECK_DEADLOCK FALSE
