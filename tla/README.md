# TrueTix: specifications and proofs

TLA+ modules for TrueTix (NestJS backend, PostgreSQL through Prisma, Redis,
Socket.IO; Next.js frontend), TLC configurations that check them on small instances,
and TLAPS proofs of the results that must hold for every size. Paths below are relative
to the repository; `backend/` and `frontend/` stand for `src/backend/src/modules/` and
`src/frontend/src/`.

## 1. The system

| Component | Code | State | Operations |
|---|---|---|---|
| Seat locks | `backend/redis/redis.service.ts` | Redis keys `lock:seat:{showtime}:{seat}` holding a reservation token, TTL 600 s | `SET NX EX`, compare-and-delete script, `DEL`, `GET`, expiry (with an optional notification) |
| Booking | `backend/booking/booking.service.ts` | `bookings`, `tickets` (created together); one process per request | `holdSeats`, `releaseSeats`, `checkout` |
| Payment | `backend/payment/*` | `bookings.status`, `showtime_seats.status` | `processSuccessfulPayment`, `processFailedPayment`, both called by the signed callback URL |
| Seat board | `backend/websocket/websocket.gateway.ts`, `getShowtimeSeats`, `frontend/app/booking/seats/page.tsx` | rooms of sockets; the page's `seats` | `broadcastSeatState`, expiry callback, `join:showtime`, seat map query |
| Turnstile and scanner page | `backend/ticket/ticket.service.ts`, `frontend/app/admin/tickets/scan/page.tsx` | `tickets.status`; what the page shows | `verifyQrTicket`; camera, typed token, reset |
| Browser session | `frontend/store/useBookingStore.ts`, `booking/*`, `payment/mock-gateway` pages | selection, reservation (persisted), pages | select, hold, check out, pay, countdown, reload |
| Sessions | `backend/auth/auth.service.ts`, `frontend/lib/axios.ts`, `useAuthStore.ts`, login and register pages | `users`, `refresh_tokens`, tokens in the browser | register, login, rotating refresh, retry after 401, roles, removal of users |
| Catalogue | `backend/city`, `backend/cinema` | `cities`, `cinemas`, `halls` | check-then-insert, updates, cascading deletes, layouts |
| Programme | `backend/movie`, `backend/showtime` | `movies`, `showtimes`, `showtime_seats` | movies with automatic status, `create` with conflict search and seat rows |
| Prices | `showtime.service.ts`, `booking.service.ts`, seat page, seeds | none | four computations of a seat's price |
| Admin pages | `frontend/app/admin/*`, `useMovieStore.ts` | a copy of a table each | fetch, forms, fall-backs |
| Public pages, bootstrap, filters, uploads, seeds | | | reading and formatting |

How they interact: `BookingService` and `PaymentService` call `RedisService` and the
database one await at a time and broadcast through `WebsocketGateway` in the same
synchronous stretch. Redis reports expired keys on a second connection, which the
gateway turns into broadcasts. `ShowtimeService` overlays the locks on the seat rows for
the seat map. The turnstile only sees bookings and tickets. The catalogue's deletions
cascade to the programme. Nothing is shared in process memory: the state is in Redis and
PostgreSQL, and every request is a process that stops at each await while others run.
The browser's pages share persisted stores and one axios instance, and go on handling
answers after they have been left.

What is hard about it:

* a lock may run out, be released, or be deleted by a payment callback between any two
  steps of a request that relies on it, and no database lock replaces it;
* checkout reads (locks, then showtime, then seats) long before it writes;
* the payment provider repeats callbacks, sends success and cancel for one booking, and
  sends them after the hold has run out;
* Redis or the database may fail, or execute a command and lose its reply, at any await;
  the backend may crash at any await and resumes nothing;
* events, expiry notifications and seat maps reach a screen in no common order;
* refresh tokens rotate while several requests use them, and equal tokens are possible;
* handlers of admins search, then write, statement by statement and without a
  transaction, while other admins write and delete;
* answers reach browser pages late, in any order, or not at all, and the pages invent
  what the server did not say.

What makes each part correct: locks are lost only by right, and a refused hold keeps
none; no seat is sold twice; `bookings` and `showtime_seats` agree; an answer given to the
provider stays true; a refused payment stays refused; a screen never claims SOLD for a
seat that can be bought and hears of every sale; no two people are admitted to a seat
and nobody who has not paid is; a refresh token is redeemed once and nobody is logged
out without a cause; rows have their parents, halls are free for cleaning between
showtimes and showtimes have their seats, except where overlapping requests or a failure
explain it; a browser pays for what it holds and is told what is so; prices agree.

## 2. Modules

| Module | Models | Rests on |
|---|---|---|
| `SeatLocks` | the lock table and the Redis commands on it | |
| `SeatSale` | abstract: what selling the seats of one showtime promises | |
| `BookingFlow` | hold, release, checkout, payment callbacks, failures, crashes, time | extends `SeatLocks`, implements `SeatSale` |
| `SeatBoard` | events, notifications, seat map, one screen | extends `BookingFlow` |
| `TicketGate` | concurrent scans at the turnstile | extends `SeatSale` |
| `ScanPage` | an usher's page over the turnstile | extends `TicketGate` |
| `BookingSession` | one customer's browser from the seat map to the page of success | |
| `Sessions` | accounts, tokens, guards, the browser's auth store and interceptors | |
| `Catalog` | cities, cinemas, halls, statement by statement | |
| `Schedule` | movies, showtimes, seat rows, cascades, the clock | extends `Catalog` |
| `Pricing` | the four price computations | |
| `AdminPages` | the five pages that maintain a table | |
| `BookingFlowProofs`, `LockProofs` | theorems about `BookingFlow`: tables and answers; locks | |
| `BoardProofs` | theorems about `SeatBoard` | `LockProofs` |
| `TicketGateProofs` | theorems about the turnstile and the scanner page | |
| `BookingSessionProofs` | theorems about the browser and the prices it shows | |
| `SessionsProofs`, `ScheduleProofs`, `AdminPagesProofs` | theorems about these modules (`ScheduleProofs` also about `Catalog`) | |
| `MC...` | instances for TLC, with their symmetry sets | |

### State and code: booking, payment, screens, turnstile

`lock[s]` is the value under the key of seat `s`. A token is identified with the hold
request that minted it (`crypto.randomUUID`), so `hold[r]` is that request: where it is
(`pc`), the `seatIds` it asked for (`want`) and `lockedSeats` (`got`). `check[b]` is the
checkout that creates booking `b`, `booking[b]` the row together with the seats of its
tickets, which are created in the same transaction. `cb[k]` is one delivery of a callback
URL; two deliveries for one booking are duplicates. `seat[s]` is
`showtime_seats.status`; the code never writes HOLDING or RESERVED, so these values do
not occur. `started` is "startTime has passed".

One action is one Redis command or one statement or transaction, with the synchronous
code up to the next await. The payment transaction is one action: it consists of
conditional updates whose row locks PostgreSQL holds until the commit. The checkout
transaction reads without locks under READ COMMITTED, so it is three actions. A loop
over seats takes them in any order, which covers every order of `seatIds` and of ticket
rows. `releaseSeats` is a sequence of independent rounds and therefore one action that
may be repeated.

The TTL is not counted: a lock *may* run out at any moment after it was taken. Since a
request may take arbitrarily long between two awaits, this adds no interleaving that a
clock would forbid, except that locks may also run out early. `gone[r]` is a history
variable: the seats whose lock ran out under token `r` or was given back with it. No
action reads it; it lets `LocksLostOnlyByRight` say how a lock was lost.

Failures (`HoldFault`, `CheckoutFault`, `CommitFault`, `CleanupFault`, `ScanFault`,
`MapFault`): a command fails without effect, or takes effect and its reply is lost.
ioredis repeats a command once on a new connection, so a `SET NX` can be refused by its
own first copy. `Crash` ends every request in flight; nothing resumes them.

Amounts and signatures appear as "right or wrong": a callback that fits neither is
refused without effect. The HMAC is taken to be unforgeable. The callback is not
limited to the provider; whoever has the URL may send it any number of times.

`ScanPage` adds the page: the camera's callback and the form for typed tokens both wait
while a token is verified, the first by a ref, the second because its button is disabled;
the reset is there only beside a verdict; an answer that is lost looks like a refusal; and
the usher may leave the page and come back while a call is under way.

### State and code: browser, sessions, catalogue, admin pages

`BookingSession`: `selected` and `reservation` are the persisted store, `page`, `at`,
`busy` where the browser is and which answer its page awaits, `own` and `old` the seat
maps that the open page and left pages still await. The server answers in one step and
with every answer it may give, since locks and sales are the subject of `BookingFlow`;
in exchange the module keeps what pages do with answers: every map that arrives empties
the store (`setShowtime`), the countdown drops the selection but not the hold, the
checkout page's effect and its navigation race, the sandbox sends callbacks twice, the
page of success takes a booking that it cannot read for paid.

`Sessions`: a call is one use of the shared axios instance; it walks through the server
(`Login`, `Register`/`CreateUser`, `Save`, `Authorize`, the admin's `UpdateRole` and
`RemoveUser`) and back through the interceptors (`Unauthorized`, `FindRow`, `DeleteRow`,
`Rotate`, `Refreshed`, `RefreshFailed`). A JWT carries user, role and issue time in
seconds and nothing random, so two tokens of a user minted in one second are equal and
the unique column refuses the second (`Storable`). `UpdateRole` and `RemoveUser` look
the user up and write in one step: a user who vanishes in between gives the same
refusal.

`Catalog` and `Schedule`: request `q` is one use of a route, a row that it inserts has
its identity, and one step is one statement. `met[q]` (the requests that were under way
when `q` arrived), `namers`, `laid` and `styled` are history variables that let a
property say "only because these two overlapped". `Break` is a failure between two
statements; what was written stays.

`Pricing` has the creation of a row from a layout's cell, the price on the map, the one
added up on a click, and the one charged. Factors are in hundredths.

`AdminPages`: `fetches` is the sequence of fetches under way, each answered (`served`)
with the table at some moment, and settled in any order. A form that fails for whatever
reason is then done by the page in its own list, except on the page of cities. The page
of films shows the browser's copy of films after a failure (`FallBack`) and also when the
server sends an empty list (`ShowStored`); the history variables `failed` and `foundNone`
keep the two apart. `halls` is the list in the dialog of a cinema, which a new hall joins
whichever cinema the dialog shows by then.

A definition named `...Bug` is a plausible slip (a dropped owner check, a swapped
status, a missing condition). It is used only to show that the properties notice it.

## 3. What is checked

| Run | Instance | Shows | States |
|---|---|---|---|
| `holds` | 2 seats, 2 holds, 2 bookings, 2 callbacks | `TypeOK`, `NoDoubleSale`, `BookedSeatsWereHeld`, `RefusedHoldHoldsNothing`, `LocksLostOnlyByRight` | 1 665 945 |
| `payments` | 2 seats, 1 hold, 2 bookings, 3 callbacks | `SoldIffPaid`, `ConflictIsFinal`, `RefinesSeatSale` | 213 025 |
| `live` | 2 seats, 1 hold, 1 booking, 2 callbacks, 1 failure, with fairness | `SoldIffPaid`, `PaidAnswersStayTrue`, `RefinesSeatSale`, `EveryRequestAnswered` | 62 839 |
| `board` | 2 seats, 1 hold, 1 booking, 1 callback, 1 failure, one screen, with fairness | `BoardTypeOK`, `SoldShownIsSold`, `SaleReachesScreen` | 1 118 780 |
| `gate` | 2 seats, 2 bookings, 2 scans, 1 failure, one scanner page | `TypeOK`, `OneAdmissionPerSeat`, `AdmittedHasPaid`, `RefusalHasACause`, `VerdictFitsToken` | 46 838 |
| `sessions` | 2 identities, 1 address, 1 browser and the login of another, 3 calls, 2 ticks, with fairness | `TypeOK`, `RedeemedOnce`, `NoSessionOfRemoved`, `SessionIntact`, `LogoutHasACause`, `EveryCallEnds` | 777 065 |
| `schedule` | 3 requests of one of four groups of routes, seeded rows, 2 moments | `ScheduleTypeOK`, `ReferencesHold`, `NamesCollideOnlyByRace`, `OverlapOnlyByRace`, `SeatlessOnlyByFailure`, `OldLayoutOnlyByUpdate`, `DeletedForGood`, `StatusLostOnlyByRace` | 844 030 |
| `browser` | 2 seats, 2 holds, 1 order, 2 callbacks, 1 map under way | `TypeOK`, `ConfirmedIsPaid`, `CheckoutMatchesHold`; prices for bases up to 60 | 1 575 703 |
| `adminpages` | each page, 2 rows, 2 forms, 3 fetches under way | `TypeOK`, `InventedHasACause`, `CurrentAtRest` | 1 214 356 |
| `foreign`, `permanent`, `expired` | smallest instances | the divergences below | |

Deadlock is checked in `browser` and `adminpages`, where somebody can always do
something. In the other runs requests are single use and bounded in number, so the model
stops when all of them are done and the cfg says `CHECK_DEADLOCK FALSE`. Symmetry sets
are used in safety runs only. `SaleReachesScreen` is `SaleReaches(s)` for one of the two
seats, which stands for both: no definition tells seats apart.

Why these bounds. Two seats are the smallest batch with a partial acquisition and with
overlapping but different bookings; two holds are needed to contend for a lock, and a
third would only repeat the second's role, since the lock table knows owner and others.
Two bookings are needed for a double sale. Two callbacks are a success and a cancel, a
duplicate of either, or one for each booking. The third is the one that comes after a
refusal: a conflict takes one callback that sells (or cancels) and one that is refused,
and only a later one could sell what was refused. In `payments` one hold is enough,
because both checkouts may name its token, in either order and with different seats. One failure puts a crash or a lost reply
at every await. Two scans are two turnstiles with one ticket, or with the two tickets of
one seat. Three calls of one browser are two that overlap and one before or after them;
lifetimes of one tick let tokens run out, be equal, and be minted anew; the login of a
second browser may be signed the token that the first one has. Three requests
are a race of two with one that prepares or observes it; the groups of routes are those
that work on the same rows, and a request of another group would not touch what they
check. Where a theorem of section 4 states the property, it holds for all bounds.

Fairness. `Fairness` of `BookingFlow` gives weak fairness to each request's own next
step (the event loop reaches every accepted request, and a Redis or database call
returns or throws). Clients, the provider, failures, the expiry of locks and the clock
are never forced. `BoardFairness` asks for
less: only that the post-commit loop of a callback goes on. A screen hears of a sale
only while it is in the room and has a map, and as long as the loop is not cut short by a
failure, which `SaleReachesScreen` says. `Fairness`
of `Sessions` gives weak fairness to each call's next step: every request is answered or
fails (axios waits for it) and every answer is handled; nobody has to log in or out.

### Where documentation and code differ

Each of these is a run with one property that TLC refutes.

* `foreign` (`NoForeignRelease`). `processFailedPayment` deletes locks by seat, not by
  owner, so cancelling a booking whose hold is gone deletes another customer's lock.
  `src/docs/DECISIONS.md` (decision 3) and the comment of `forceReleaseSeatLock` exclude
  this. No seat is sold twice by it (that is `NoDoubleSale`), but the other customer's
  checkout is refused.
* `permanent` (`SoldStaysShown`). A late `releaseSeats`, or an expiry after a failed
  cleanup, paints a sold seat AVAILABLE. `src/README.md` says SOLD is permanent on all
  screens. The seat map query, which asks PostgreSQL, stays right.
* `expired` (`ExpiredIsPrompted`). The checkout page looks for the code of an expired
  hold one level above where the error filter puts it, and stays where it is;
  `src/docs/LEARN_THIS_PROJECT.md` says it sends the customer back to the seats.

Read in the code and not made into runs, because one line shows them: an exception
inside the acquisition loop of `holdSeats` skips the rollback, and only the TTL frees
what was locked; the rollback broadcasts AVAILABLE whether or not it released the lock,
and may overpaint another customer's HOLDING; the losing one of two success callbacks
repeats the lock deletion and the broadcast; a cancel that loses against a success
answers "Booking marked as cancelled"; a booking whose total is zero can never be paid,
since the callback refuses amounts that are not positive; the page of users sends changes
of memberships to an address that no controller serves, and reports success; the page of
films says "Loading" until a fetch fails or finds no films, and in either case shows
invented ones; a hall that was added late is listed in the dialog of whichever cinema is
open; the public film pages prefer the browser's own list of films to the server's; most
admin pages show rows that only they know after a failure, which `InventedHasACause`
delimits; seeded VIP and couple seats with a factor of 1.0 are shown and charged by
different rules unless `SeededPricesAgree`'s condition holds.

## 4. What is proved

The theorems hold for every value of the constants: any number of seats, reservations,
bookings, callbacks, scans, calls, requests, times and failures. Assumed are only the
named assumptions of the modules: markers such as `NoRes`, `NoRow` or `NoRequest` are no
members of the sets they stand apart from, bounds and times are natural numbers (the
bound on an admin page's fetches is not zero: opening the page sends one), the keys that
an admin page makes up are no keys of a table or of its built-in rows, and the seeded
rows are rows.

| Module | Theorem | Statement |
|---|---|---|
| `BookingFlowProofs` | `TypeCorrect` | `Spec => []TypeOK` |
| | `NeverSoldTwice` | `Spec => []NoDoubleSale` |
| | `TablesAgree` | `Spec => []SoldIffPaid` |
| | `FlowImplementsSale` | `Spec => RefinesSeatSale` |
| | `AnswersStayTrue` | `Spec => []PaidAnswersStayTrue` |
| | `RefusedForGood` | `Spec => []ConflictIsFinal` |
| `LockProofs` | `RefusalReleasesEverything` | `Spec => []RefusedHoldHoldsNothing` |
| | `BookingsFollowHolds` | `Spec => []BookedSeatsWereHeld` |
| | `LocksKept` | `Spec => []LocksLostOnlyByRight` |
| `BoardProofs` | `GreySeatsAreSold` | `BoardSpec => []SoldShownIsSold` |
| | `BoardTypeCorrect` | `BoardSpec => []BoardTypeOK` |
| | `WatchedFlowImplementsSale` | `BoardSpec => RefinesSeatSale` |
| `TicketGateProofs` | `GateTypeCorrect` | `Spec => []TypeOK` |
| | `NobodySharesASeat` | `Spec => []OneAdmissionPerSeat` |
| | `OnlyPaidAdmitted` | `Spec => []AdmittedHasPaid` |
| | `NobodyTurnedAwayForNothing` | `Spec => []RefusalHasACause` |
| | `ColourIsRight` | `ScreenSpec => []VerdictFitsToken` |
| `SessionsProofs` | `SessionsTypeCorrect` | `Spec => []TypeOK` |
| | `RowsHaveUsers` | `Spec => []NoSessionOfRemoved` |
| | `RowsRedeemedOnce` | `Spec => []RedeemedOnce` |
| | `SessionsStayWhole` | `Spec => []SessionIntact` |
| | `NoLogoutWithoutCause` | `Spec => LogoutHasACause` |
| `ScheduleProofs` | `ScheduleTypeCorrect` | `ScheduleSpec => []ScheduleTypeOK` |
| | `NoOrphans` | `ScheduleSpec => []ReferencesHold` |
| | `OverlapsAreRaces` | `ScheduleSpec => []OverlapOnlyByRace` |
| | `ConfirmedHasSeats` | `ScheduleSpec => []SeatlessOnlyByFailure` |
| | `NameCollisionsAreRaces` | `ScheduleSpec => []NamesCollideOnlyByRace` |
| | `DeletionsAreFinal` | `ScheduleSpec => DeletedForGood` |
| | `OldLayoutsAreRaces` | `ScheduleSpec => []OldLayoutOnlyByUpdate` |
| | `LostStatusIsRace` | `ScheduleSpec => StatusLostOnlyByRace` |
| `AdminPagesProofs` | `PageTypeCorrect` | `Spec => []TypeOK` |
| | `RowsAreGenuine` | `Spec => []InventedHasACause` |
| | `PagesCatchUp` | `Spec => []CurrentAtRest` |
| `BookingSessionProofs` | `SessionTypeCorrect` | `Spec => []TypeOK` |
| | `ConfirmationsAreTrue` | `Spec => []ConfirmedIsPaid` |
| | `CheckoutIsWhatWasHeld` | `Spec => []CheckoutMatchesHold` |
| | `PricesAgree` | shown, clicked and charged price are equal for every base but zero and every cell of a layout |
| | `SeededPricesAgree` | the same for seeded seats, unless a type with a surcharge has no factor of its own |

The tables of the sale. `TypeInv` is `TypeOK` and "a callback that has arrived names a
booking", without which a callback's commit could not be typed. The lemma `RowSteps`
classifies every step of the system by what it does to the tables: nothing, or create
one booking, or sell one booking whose seats are all AVAILABLE, or cancel one PENDING
booking. All that locks and interleavings can do to the tables is in that lemma; the
later proofs use it and no action. `SaleInv` is the inductive invariant behind
`NoDoubleSale` and `SoldIffPaid`. Neither is inductive alone: a sale turns seats SOLD,
and for no double sale one must know that seats of a PAID booking are SOLD already and
so not AVAILABLE; and a checkout could overwrite a PAID row, unless it is known
(`NoRowYet`) that a checkout which has not committed has no row. `SaleStepRefined` maps
the three kinds of table steps to `Sell`, `Cancel` and `Open`, and every other step to a
stutter. `AnswerInv` adds what each state of a callback knows of its booking; its hard
part is a refused payment, which stays refused because its booking is CANCELLED, or
because one of its seats is not AVAILABLE and no step makes a seat AVAILABLE again
(`GoneIsGone`).

The locks. `OwnerInv`: a lock belongs to a hold that asked for its seat
(`OwnersAsked`), and while nothing has failed a hold that works or was refused has
recorded every lock it has (`OwnersRecorded`); the rollback walks through what is
recorded, so a refused hold is left with nothing. Failures break the second part, which
is why the property is about runs without one. `CoverInv` says of a checkout that every
seat it has crossed off was asked for by the hold of its token, whatever happened to the
lock since. `CleanInv` says that the post-commit loop visits only seats of its booking,
which is decided. `KeptInv` is `CleanInv` with `LocksLostOnlyByRight`: a seat enters
`got` only with its lock (`GotStep`); a lock in somebody's hands changes only when it runs
out or is given back with the owner's token, which `gone` records, or in a post-commit
loop (`LossStep`); and what `gone` records and bookings have decided stays so
(`GoneGrows`, `DecidedStays`).

The screens. `ScreenInv` is `CleanInv` and "every picture, on a screen or on its way to
one, says SOLD only of seats that are sold". It survives late maps because no step
unsells a seat, and the announcement of a sale because its loop runs after the commit.
`ScreenTypes` adds that pictures carry statuses and nothing else: a broadcast names a
status, and a map is made from the statuses of seats and locks. Every step of the board
is one of the flow, or a failed seat map that changes nothing of the flow but the count
of failures (`BoardStepsFlow`), so the watched flow still implements `SeatSale`.

The turnstile. `GateInv` is the inductive invariant. `OneAdmissionPerSeat` is not
inductive: it follows from `OneAdmissionPerTicket` when the two tickets are of one
booking, and from `SoldOnce` (paid orders share no seat) when they are of two. To use
the latter one must know what a scan knows (`ScanKnows`): its ticket is issued, and paid
from the moment the transaction has read it, which stays so because the sale only grows
(`SaleOnlyGrows`). `CauseInv` adds that a used ticket was used by a scan that was
admitted or failed. Nothing of `BookingFlow` is used but that it implements `SeatSale`.
`PageInv` carries this to the page: at most one answer is awaited, and it is about the
token shown (`OneAtATime`), since neither camera nor form starts a call while one is under
way; a verdict that is shown is that of a call no longer awaited (`ShownWasAnswered`). The
latter keeps it when other scanners go on, because an admitted scan stays what it is
(`ScansGoOn`); that nobody else was admitted with the ticket is `OneAdmissionPerTicket`.

Sessions. `SessionInv` is the types with what a call at each step knows (`CallKnows`:
which token it carries, which row it found) and `NoSessionOfRemoved`, which needs
`Storable`'s foreign key. `RedeemInv` adds that a row is written at most once
(`WrittenOnce`: a login ends with its write, and a call refreshes only on its second
attempt, `RefreshesAgain`) and that a redeemed row is gone; a second redemption would
have to find it again.

`SessionIntact` and `LogoutHasACause` rest on `WholeInv`: the calls of a calm browser (no two
of its calls ever overlapped) work one at a time, for the user it shows and with its
tokens (`Solo`, `SameUser`); and while every browser is calm, each token that is in use,
in a store or on its way to one, is a row (`KeptIsStored`) that only one browser uses
(`KeptByOne`), the row that a refresh has found waits for it (`RowFound`), and a refresh
is refused only when its user is gone or its row expired (`FailsForCause`). An attempt to prove the
second half of `SessionIntact` for each browser by itself failed for a good reason, which
TLC then showed with two browsers: two overlapping calls of one browser are to
redeem one token; once the first has, another browser of that user logs in within the
same second and is given that token again; the second refresh takes its row. The property
therefore speaks of the server's rows only while the calls of no browser overlap
(`Orderly`). The counterexample takes four calls within one second (`MaxIds = 1`,
`MaxCalls = 4`, `MaxTime = 0`, both browsers unrestricted); in the run `sessions` the
second browser only logs in (`MCSpec`). `WhoLogsOut` lists the steps
that log a browser out; the refusal of a refresh is the one that needs `WholeInv`.

The programme. `ProgrammeInv` is the types, `ReferencesHold`, and "a new showtime knows
a layout from reading the hall on". `SlotInv` proves `OverlapOnlyByRace`: a request that
had ended when another arrived (`Ahead`) stays ended and inserts nothing more, so the
later one's search has seen its row; slots of rows never change. The lemma `SlotSteps`
says that only one step writes a slot and only a search leads to it. `NameInv` says the
same of names: a request that has searched for a name, and not found it, has met every
request that gave a row that name since (`namers`), because a request that is over when
another arrives gives no more names; `HallInv` is its counterpart for the halls of a
cinema. `LayoutInv` ties the layout that a request has read to the last writer of the
hall (`laid`), `StatusInv` ties the films that it found due to the last writer of their
status (`styled`): whoever wrote after the read has met the reader. `DeletedForGood`
follows from `RowsAdded`: a row appears only under the identity of the request that is
at its insert, and an update writes only rows that are still there.

The browser. `SuccessIsPaid` is the invariant behind `ConfirmedIsPaid`: an answer that
leads to the page of success is about an order that is paid, and so is the page. It
needs `PaidIsFinal` (callbacks change pending orders only, a checkout is served before
there is anything to pay) and `GoesToSuccess` (nothing else leads to that page).
`StoreFollowsHold` is the one behind `CheckoutMatchesHold`: while a hold is under way and
nothing was clicked, the selection is what the hold asked for or empty; the same of the
hold that became the reservation; and while the map can be clicked there is no
reservation, since the map that ends "loading" has just emptied the store
(`LoadingEnds`). What late maps and the countdown do is to empty, which no checkout
accepts.

The admin pages. `FetchesGenuine` (what the server sends are rows of the table) gives
`InventedHasACause`, together with what the browser's copy of films may hold while no call
has failed (`Causes`). `CurrentAtRest` says nothing while a fetch is under way, so
it is not inductive; `Fresh` is: unless something went wrong or an answer has not been
looked at, the fetch that was sent *last* has the table as it is, or has not been served
yet, and if no fetch is left the page has it (or the browser's copy, on the page of films
with an empty table). Only a served form makes that fetch
stale, and handling its answer sends another one.

Model-checked only: liveness (`EveryRequestAnswered`, `SaleReachesScreen`,
`EveryCallEnds`), which is out of the prover's reach, as are
ENABLED, induction over data and recursive operators (none is used). Every invariant and
every action property of a passing run is proved.

## 5. Plan

Done: all modules of section 2, and proofs of all safety properties of the passing runs.
What remains, the most useful first:

1. The catalogue's deletions as an environment of `BookingFlow`: the cascade from a
   movie or hall to bookings and tickets under a running checkout or callback. A
   deletion takes the showtime with all that hangs on it, so the requests end with an
   error; the locks that stay run out.
2. `BookingSession` over `BookingFlow`: the server's answers, which the former takes from
   everywhere, are those that the latter gives.
3. The abstract promise of sessions (one live row for each calm browser, handed on by
   refreshes) as a module of its own that `Sessions` implements.

## 6. Not modelled

* Token bytes, HMAC, JWT and bcrypt: cryptographic functions, taken as ideal.
* Read-only queries (`getUserBookings`, `getBookingById`, `home`, lists): no state.
* Public pages: they read once, when opened, and change nothing.
* The settings page (its save only waits and reports success) and the dashboard (reads).
* Filters, interceptors, DTO validation beyond what decides a step, formatting.
* Uploads, bootstrap, UI components; seeds beyond the rows that models start from;
  migrations; the scripts in `src/backend/*.js`; the agent skills in `src/.agents`,
  which the program does not use.
* Deletion of movies, halls and cinemas under a running booking (plan, 1).
* Several backend instances need nothing new: requests share no memory.
* Deadlocks of PostgreSQL transactions: the database aborts one of them, which is
  `CommitFault` without effect.
