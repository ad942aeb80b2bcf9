---------------------------- MODULE ScheduleProofs ----------------------------
(***************************************************************************)
(* Proofs about Schedule, for any number of requests, times and rows: the  *)
(* tables are well typed, every row has its parents, what was deleted      *)
(* stays deleted, a confirmed showtime has its seats; and equal names,     *)
(* overlapping showtimes, outdated layouts and lost statuses come from     *)
(* requests that were under way together, and from nothing else.           *)
(***************************************************************************)
EXTENDS Schedule, TLAPS

Steps == {"sent", "found", "placed", "named", "inserting", "scanned", "promoting", "free",
          "seating"}
Ends == {"ok", "refused"}
AnyRequest == CatalogRequests(Ids, Ids, Ids) \cup ProgrammeRequests(Ids, Ids, Ids)
Values == Names \cup Matrices \cup {NoRow}

TableTypes ==
  /\ cities \in [Ids -> CityRows \cup {NoRow}]
  /\ cinemas \in [Ids -> CinemaRows \cup {NoRow}]
  /\ halls \in [Ids -> HallRows \cup {NoRow}]
  /\ movies \in [Ids -> MovieRows \cup {NoRow}]
  /\ showtimes \in [Ids -> ShowtimeRows \cup {NoRow}]

HandlerTypes ==
  /\ menu \in Menus
  /\ pc \in [Requests -> Idle \cup Steps]
  /\ req \in [Requests -> AnyRequest \cup {NoRequest}]
  /\ \A q \in Requests : req[q] = NoRequest <=> q \notin UnderWay
  /\ read \in [Requests -> Values]
  /\ met \in [Requests -> SUBSET Requests]

OtherTypes ==
  /\ now \in Nat
  /\ listed \in [Requests -> SUBSET Ids]
  /\ promotes \in [Requests -> BOOLEAN]
  /\ laid \in [Ids -> Ids] /\ styled \in [Ids -> Ids]

LEMMA TypeParts == ScheduleTypeOK <=> TableTypes /\ HandlerTypes /\ OtherTypes
BY DEF ScheduleTypeOK, TableTypes, HandlerTypes, OtherTypes, Steps, AnyRequest, Values

LEMMA IdsOfRequests == Requests \subseteq Ids /\ 0 \in Ids /\ Ids \subseteq Nat /\ 0 \notin Requests
BY MaxRequestsAssumption DEF Requests, Ids

(* What a request under way carries, by its operation. *)
LEMMA Arguments ==
  ASSUME NEW r \in AnyRequest
  PROVE  /\ r.op = "createCity" => r.code \in Codes
         /\ r.op = "updateCity" => r.id \in Ids /\ r.code \in Codes \cup {Unset}
         /\ r.op \in {"removeCity", "deleteCinema", "deleteHall", "removeMovie", "findMovie"}
              => r.id \in Ids
         /\ r.op = "createCinema" => r.city \in Ids /\ r.name \in Names
         /\ r.op = "updateCinema" => /\ r.id \in Ids /\ r.city \in Ids \cup {Unset}
                                     /\ r.name \in Names \cup {Unset}
         /\ r.op = "createHall" => r.cinema \in Ids /\ r.name \in Names /\ r.matrix \in Matrices
         /\ r.op = "updateHallMatrix" => r.id \in Ids /\ r.matrix \in Matrices
         /\ r.op = "createMovie" => r.status \in Statuses \cup {Unset}
         /\ r.op = "updateMovie" => r.id \in Ids /\ r.status \in Statuses \cup {Unset}
         /\ r.op = "createShowtime" => /\ r.movie \in Ids /\ r.cinema \in Ids /\ r.hall \in Ids
                                       /\ r.start \in Times /\ r.length \in Lengths
BY DEF AnyRequest, CatalogRequests, CityRequests, CinemaRequests, HallRequests, MatrixRequests,
   ProgrammeRequests, MovieRequests, ShowtimeRequests

-----------------------------------------------------------------------------
(* How handlers move *)

(* Request q goes on to its next statement, or ends. *)
Moves(q) ==
  /\ q \in UnderWay
  /\ UNCHANGED <<menu, met>>
  /\ \/ \E to \in Steps : pc' = [pc EXCEPT ![q] = to] /\ UNCHANGED req
     \/ \E to \in Ends : /\ pc' = [pc EXCEPT ![q] = to]
                         /\ req' = [req EXCEPT ![q] = NoRequest]
  /\ read' \in [Requests -> Values]
  /\ \A p \in Requests \ {q} : read'[p] = read[p]

LEMMA MovesKeepTypes ==
  ASSUME HandlerTypes, NEW q \in Requests, Moves(q)
  PROVE  HandlerTypes'
<1>1. CASE \E to \in Steps : pc' = [pc EXCEPT ![q] = to] /\ UNCHANGED req
  BY <1>1 DEF HandlerTypes, Moves, UnderWay, Steps, Idle
<1>2. CASE \E to \in Ends : pc' = [pc EXCEPT ![q] = to] /\ req' = [req EXCEPT ![q] = NoRequest]
  BY <1>2 DEF HandlerTypes, Moves, UnderWay, Ends, Idle
<1> QED BY <1>1, <1>2 DEF Moves

LEMMA AtUnderWay ==
  ASSUME HandlerTypes, NEW q \in Requests, NEW s \in Steps, pc[q] = s
  PROVE  q \in UnderWay /\ req[q] \in AnyRequest
BY DEF HandlerTypes, UnderWay, Steps, Idle

LEMMA LookMoves ==
  ASSUME HandlerTypes, NEW q \in UnderWay, NEW fine, NEW step \in Steps, Look(q, fine, step)
  PROVE  Moves(q)
BY DEF HandlerTypes, UnderWay, Look, GoTo, Finish, Moves, Ends, Values

LEMMA FinishMoves ==
  ASSUME HandlerTypes, NEW q \in UnderWay, NEW answer \in Ends, Finish(q, answer)
  PROVE  Moves(q)
BY DEF HandlerTypes, UnderWay, Finish, Moves, Ends, Values

-----------------------------------------------------------------------------
(* Steps of the catalogue *)

CatalogTypes ==
  /\ cities \in [Ids -> CityRows \cup {NoRow}]
  /\ cinemas \in [Ids -> CinemaRows \cup {NoRow}]
  /\ halls \in [Ids -> HallRows \cup {NoRow}]

CatalogRefs ==
  /\ \A m \in RowsOf(cinemas) : cities[cinemas[m].city] # NoRow
  /\ \A h \in RowsOf(halls) : cinemas[halls[h].cinema] # NoRow

CatalogOps == {"createCity", "updateCity", "removeCity", "createCinema", "updateCinema",
               "deleteCinema", "createHall", "deleteHall", "updateHallMatrix"}

CatalogInv == CatalogTypes /\ CatalogRefs

LEMMA RowsAreRecords ==
  /\ \A x : x \in CityRows => x # NoRow
  /\ \A x : x \in CinemaRows => x # NoRow
  /\ \A x : x \in HallRows => x # NoRow
  /\ \A x : x \in MovieRows => x # NoRow
  /\ \A x : x \in ShowtimeRows => x # NoRow
  /\ \A x : x \in Matrices => x # NoRow
BY NoRowAssumption, NoProgrammeRowAssumption

LEMMA CatalogLooks ==
  ASSUME HandlerTypes, CatalogInv, NEW q \in Requests,
         \/ CreateCity(q) \/ FindCity(q) \/ CreateCinema(q) \/ FindCinemaName(q) \/ FindCinema(q)
         \/ FindNewCity(q) \/ FindNewName(q) \/ CreateHall(q) \/ FindHallName(q)
         \/ FindHall(q) \/ GetHallMatrix(q)
  PROVE  /\ Moves(q) /\ req[q].op \in CatalogOps
         /\ UNCHANGED tables
<1> USE DEF CatalogOps
<1>0. \A s \in Steps : pc[q] = s => q \in UnderWay /\ req[q] \in AnyRequest
  BY AtUnderWay
<1>1. {"inserting", "found", "placed", "named", "sent"} \subseteq Steps /\ "refused" \in Ends
  BY DEF Steps, Ends
<1>2. CASE CreateCity(q)
  BY <1>0, <1>1, <1>2, LookMoves DEF CreateCity, At, Look
<1>3. CASE FindCity(q)
  BY <1>0, <1>1, <1>3, LookMoves DEF FindCity, At, Look
<1>4. CASE CreateCinema(q)
  BY <1>0, <1>1, <1>4, LookMoves DEF CreateCinema, At, Look
<1>5. CASE FindCinemaName(q)
  BY <1>0, <1>1, <1>5, LookMoves DEF FindCinemaName, At, Look
<1>6. CASE FindCinema(q)
  <2>1. q \in UnderWay /\ req[q] \in AnyRequest /\ req[q].op \in {"updateCinema", "deleteCinema"}
        /\ UNCHANGED tables
    BY <1>0, <1>1, <1>6 DEF FindCinema, At
  <2>2. CASE cinemas[req[q].id] = NoRow
    BY <1>1, <1>6, <2>1, <2>2, FinishMoves DEF FindCinema
  <2>3. CASE cinemas[req[q].id] # NoRow
    <3>1. cinemas[req[q].id].name \in Values
      BY <2>1, <2>3, Arguments DEF CatalogInv, CatalogTypes, CinemaRows, Values
    <3> QED BY <1>1, <1>6, <2>1, <2>3, <3>1 DEF FindCinema, GoTo, Moves, HandlerTypes
  <2> QED BY <2>1, <2>2, <2>3
<1>7. CASE FindNewCity(q)
  BY <1>0, <1>1, <1>7, LookMoves DEF FindNewCity, At, Look
<1>8. CASE FindNewName(q)
  BY <1>0, <1>1, <1>8, LookMoves DEF FindNewName, Placed, At, Look
<1>9. CASE CreateHall(q)
  BY <1>0, <1>1, <1>9, LookMoves DEF CreateHall, At, Look
<1>10. CASE FindHallName(q)
  BY <1>0, <1>1, <1>10, LookMoves DEF FindHallName, At, Look
<1>11. CASE FindHall(q)
  BY <1>0, <1>1, <1>11, LookMoves DEF FindHall, At, Look
<1>12. CASE GetHallMatrix(q)
  BY <1>0, <1>1, <1>12, LookMoves DEF GetHallMatrix, At, Look
<1> QED BY <1>2, <1>3, <1>4, <1>5, <1>6, <1>7, <1>8, <1>9, <1>10, <1>11, <1>12

(* The statements that write: they end their handler. *)
CatalogWrite(q) ==
  \/ InsertCity(q) \/ WriteCity(q) \/ RemoveCity(q) \/ InsertCinema(q) \/ WriteCinema(q)
  \/ DeleteCinema(q) \/ InsertHall(q) \/ DeleteHall(q) \/ WriteMatrix(q)

LEMMA CatalogWrites ==
  ASSUME HandlerTypes, CatalogInv, NEW q \in Requests, CatalogWrite(q)
  PROVE  Moves(q) /\ req[q].op \in CatalogOps /\ CatalogInv'
<1>0. \A s \in Steps : pc[q] = s => q \in UnderWay /\ req[q] \in AnyRequest
  BY AtUnderWay
<1>1. {"inserting", "found", "placed", "named", "sent"} \subseteq Steps /\ {"ok", "refused"} \subseteq Ends
  BY DEF Steps, Ends
<1>2. q \in UnderWay /\ req[q] \in AnyRequest /\ req[q].op \in CatalogOps
  BY <1>0, <1>1 DEF CatalogWrite, InsertCity, WriteCity, RemoveCity, InsertCinema, WriteCinema, Placed,
     DeleteCinema, InsertHall, DeleteHall, WriteMatrix, At, CatalogOps
<1>3. Moves(q)
  BY <1>1, <1>2, FinishMoves DEF CatalogWrite, InsertCity, WriteCity, RemoveCity, InsertCinema, WriteCinema,
     DeleteCinema, InsertHall, DeleteHall, WriteMatrix, Refuse
<1> SUFFICES CatalogInv'
    BY <1>2, <1>3
<1>4. ASSUME Refuse(q) PROVE CatalogInv'
  BY <1>4 DEF Refuse, tables, CatalogInv, CatalogTypes, CatalogRefs, RowsOf
<1>5. q \in Ids
  BY IdsOfRequests
<1> USE DEF CatalogInv, CatalogTypes, CatalogRefs, RowsOf, CinemaRows, HallRows
<1>6. CASE InsertCity(q)
  <2>1. [code |-> req[q].code] \in CityRows
    BY <1>2, <1>6, Arguments DEF InsertCity, At, CityRows
  <2> QED BY <1>4, <1>5, <1>6, <2>1, RowsAreRecords DEF InsertCity
<1>7. CASE WriteCity(q)
  <2>1. req[q].code # Unset => [code |-> req[q].code] \in CityRows
    BY <1>2, <1>7, Arguments DEF WriteCity, At, CityRows
  <2> QED BY <1>4, <1>7, <2>1, RowsAreRecords DEF WriteCity
<1>8. CASE RemoveCity(q)
  BY <1>4, <1>8, RowsAreRecords DEF RemoveCity, Without, CinemasOf, HallsOf, CinemaRows, HallRows
<1>9. CASE InsertCinema(q)
  <2>1. [city |-> req[q].city, name |-> req[q].name] \in CinemaRows
    BY <1>2, <1>9, Arguments DEF InsertCinema, At, CinemaRows
  <2> QED BY <1>4, <1>5, <1>9, <2>1, RowsAreRecords DEF InsertCinema
<1>10. CASE WriteCinema(q)
  <2>1. req[q].op = "updateCinema"
    BY <1>10 DEF WriteCinema, Placed, At
  <2>2. CASE cinemas[req[q].id] = NoRow \/ (req[q].city # Unset /\ cities[req[q].city] = NoRow)
    BY <1>4, <1>10, <2>2 DEF WriteCinema
  <2>3. CASE ~(cinemas[req[q].id] = NoRow \/ (req[q].city # Unset /\ cities[req[q].city] = NoRow))
    <3>1. LET row == [city |-> Given(req[q].city, cinemas[req[q].id].city),
                      name |-> Given(req[q].name, cinemas[req[q].id].name)]
          IN row \in CinemaRows /\ cities[row.city] # NoRow
      BY <1>2, <2>1, <2>3, Arguments DEF Given, CinemaRows
    <3> QED BY <1>10, <2>3, <3>1, RowsAreRecords DEF WriteCinema
  <2> QED BY <2>2, <2>3
<1>11. CASE DeleteCinema(q)
  BY <1>4, <1>11, RowsAreRecords DEF DeleteCinema, Without, HallsOf, HallRows
<1>12. CASE InsertHall(q)
  <2>1. [cinema |-> req[q].cinema, name |-> req[q].name, matrix |-> req[q].matrix] \in HallRows
    BY <1>2, <1>12, Arguments DEF InsertHall, At, HallRows
  <2> QED BY <1>4, <1>5, <1>12, <2>1, RowsAreRecords DEF InsertHall
<1>13. CASE DeleteHall(q)
  BY <1>4, <1>13, RowsAreRecords DEF DeleteHall, Without
<1>14. CASE WriteMatrix(q)
  <2>1. CASE halls[req[q].id] = NoRow
    BY <1>4, <1>14, <2>1 DEF WriteMatrix
  <2>2. CASE halls[req[q].id] # NoRow
    <3>1. [cinema |-> halls[req[q].id].cinema, name |-> halls[req[q].id].name,
           matrix |-> req[q].matrix] \in HallRows
      BY <1>2, <1>14, <2>2, Arguments DEF WriteMatrix, At, HallRows
    <3> QED BY <1>14, <2>2, <3>1, RowsAreRecords DEF WriteMatrix
  <2> QED BY <2>1, <2>2
<1> QED BY <1>6, <1>7, <1>8, <1>9, <1>10, <1>11, <1>12, <1>13, <1>14
        DEF CatalogWrite

-----------------------------------------------------------------------------
(* Steps of the programme *)

TableInv == TableTypes /\ ReferencesHold

(* From reading the hall on, a new showtime knows a layout. *)
Layout(q) ==
  pc[q] \in {"inserting", "promoting", "seating"} /\ req[q].op = "createShowtime"
    => read[q] \in Matrices

ProgrammeInv ==
  TableInv /\ HandlerTypes /\ OtherTypes /\ \A q \in Requests : Layout(q)

LEMMA LayoutsKept ==
  ASSUME HandlerTypes, \A p \in Requests : Layout(p), NEW q \in Requests, Moves(q), Layout(q)'
  PROVE  \A p \in Requests : Layout(p)'
BY DEF HandlerTypes, Moves, Layout

LEMMA LayoutOfOther ==
  ASSUME HandlerTypes, NEW q \in Requests, Moves(q), req[q].op # "createShowtime"
  PROVE  Layout(q)'
BY DEF HandlerTypes, Moves, Layout, Ends

LEMMA AnswerMoves ==
  ASSUME HandlerTypes, OtherTypes, NEW q \in UnderWay, NEW answer \in Ends, Answer(q, answer)
  PROVE  /\ Moves(q)
         /\ UNCHANGED <<tables, now, laid>>
         /\ listed' \in [Requests -> SUBSET Ids] /\ promotes' \in [Requests -> BOOLEAN]
BY FinishMoves DEF Answer, Forget, OtherTypes, UnderWay

LEMMA OnToMoves ==
  ASSUME HandlerTypes, NEW q \in UnderWay, NEW step \in Steps, OnTo(q, step),
         read' \in [Requests -> Values], \A p \in Requests \ {q} : read'[p] = read[p]
  PROVE  Moves(q) /\ UNCHANGED <<tables, now, laid>>
BY DEF OnTo, GoTo, Moves

LEMMA RejectKeeps ==
  ASSUME ProgrammeInv, NEW q \in UnderWay, Reject(q)
  PROVE  Moves(q) /\ UNCHANGED <<tables, programme, now, laid>> /\ OtherTypes'
<1>1. "refused" \in Ends
  BY DEF Ends
<1> QED BY <1>1, AnswerMoves DEF Reject, ProgrammeInv, OtherTypes

LEMMA SameTables ==
  ASSUME ProgrammeInv, UNCHANGED <<tables, programme>>
  PROVE  TableInv'
BY DEF ProgrammeInv, TableInv, TableTypes, ReferencesHold, RowsOf, tables, programme

(* A handler that answers or goes on leaves what other handlers hold. *)
ProgrammeLook(q) ==
  ScanMovies(q) \/ ListMovies(q) \/ FindMovie(q) \/ CreateShowtime(q) \/ ReadHall(q)

LEMMA ProgrammeLooks ==
  ASSUME ProgrammeInv, NEW q \in Requests, ProgrammeLook(q)
  PROVE  Moves(q) /\ OtherTypes' /\ UNCHANGED <<tables, programme>>
<1>0. \A s \in Steps : pc[q] = s => q \in UnderWay /\ req[q] \in AnyRequest
  BY AtUnderWay DEF ProgrammeInv
<1>1. {"sent", "scanned", "promoting", "found", "free", "inserting"} \subseteq Steps
      /\ {"ok", "refused"} \subseteq Ends
  BY DEF Steps, Ends
<1>2. HandlerTypes /\ OtherTypes /\ read \in [Requests -> Values]
  BY DEF ProgrammeInv, HandlerTypes
<1>3. q \in UnderWay /\ req[q] \in AnyRequest
  BY <1>0, <1>1 DEF ProgrammeLook, ScanMovies, ListMovies, FindMovie, CreateShowtime, ReadHall, At
<1>4. Reject(q) => Moves(q) /\ OtherTypes' /\ UNCHANGED <<tables, programme>>
  BY <1>3, RejectKeeps
<1>5. CASE ScanMovies(q)
  <2>1. {m \in RowsOf(movies) : Started(m)} \in SUBSET Ids
    BY DEF RowsOf
  <2>2. Moves(q) /\ UNCHANGED <<tables, now, laid>>
    BY <1>1, <1>2, <1>3, <1>5, OnToMoves DEF ScanMovies
  <2> QED BY <1>2, <1>5, <2>1, <2>2 DEF ScanMovies, OtherTypes
<1>6. CASE ListMovies(q)
  BY <1>1, <1>2, <1>3, <1>6, AnswerMoves DEF ListMovies, OtherTypes
<1>7. CASE FindMovie(q)
  <2>1. CASE OnTo(q, "found") /\ UNCHANGED <<read, locals, programme, styled>>
    BY <1>1, <1>2, <1>3, <2>1, OnToMoves DEF OtherTypes, locals
  <2>2. CASE Answer(q, "ok") /\ UNCHANGED <<programme, styled>>
    BY <1>1, <1>2, <1>3, <2>2, AnswerMoves DEF OtherTypes
  <2> QED BY <1>4, <1>7, <2>1, <2>2 DEF FindMovie
<1>8. CASE CreateShowtime(q)
  <2>1. CASE Reject(q)
    BY <1>4, <2>1
  <2>2. CASE ~Reject(q)
    <3>1. /\ OnTo(q, "free") /\ UNCHANGED <<read, listed, programme, styled>>
          /\ promotes' = [promotes EXCEPT ![q] = req[q].start <= now]
      BY <1>8, <2>2 DEF CreateShowtime
    <3>2. promotes' \in [Requests -> BOOLEAN]
      BY <1>2, <3>1 DEF OtherTypes
    <3> QED BY <1>1, <1>2, <1>3, <3>1, <3>2, OnToMoves DEF OtherTypes
  <2> QED BY <2>1, <2>2
<1>9. CASE ReadHall(q)
  <2>1. CASE Reject(q)
    BY <1>4, <2>1
  <2>2. CASE ~Reject(q)
    <3>1. /\ OnTo(q, "inserting") /\ UNCHANGED <<locals, programme, styled>>
          /\ halls[req[q].hall] # NoRow /\ req[q].op = "createShowtime"
          /\ read' = [read EXCEPT ![q] = halls[req[q].hall].matrix]
      BY <1>9, <2>2 DEF ReadHall, At
    <3>2. halls[req[q].hall].matrix \in Values
      BY <1>3, <3>1, Arguments DEF ProgrammeInv, TableInv, TableTypes, HallRows, Values
    <3> QED BY <1>1, <1>2, <1>3, <3>1, <3>2, OnToMoves DEF OtherTypes, locals
  <2> QED BY <2>1, <2>2
<1> QED BY <1>5, <1>6, <1>7, <1>8, <1>9 DEF ProgrammeLook

ProgrammeWrite(q) ==
  \/ PromoteMovies(q) \/ UpdateMovie(q) \/ RemoveMovie(q) \/ CreateMovie(q)
  \/ InsertShowtime(q) \/ PromoteMovie(q) \/ CreateSeats(q)

LEMMA ProgrammeWrites ==
  ASSUME ProgrammeInv, NEW q \in Requests, ProgrammeWrite(q)
  PROVE  Moves(q) /\ OtherTypes' /\ TableInv'
<1>0. \A s \in Steps : pc[q] = s => q \in UnderWay /\ req[q] \in AnyRequest
  BY AtUnderWay DEF ProgrammeInv
<1>1. {"sent", "scanned", "promoting", "found", "seating", "inserting"} \subseteq Steps
      /\ {"ok", "refused"} \subseteq Ends
  BY DEF Steps, Ends
<1>2. HandlerTypes /\ OtherTypes /\ TableInv /\ read \in [Requests -> Values] /\ q \in Ids
  BY IdsOfRequests DEF ProgrammeInv, HandlerTypes
<1>3. q \in UnderWay /\ req[q] \in AnyRequest
  BY <1>0, <1>1 DEF ProgrammeWrite, PromoteMovies, UpdateMovie, RemoveMovie, CreateMovie,
     InsertShowtime, PromoteMovie, CreateSeats, At
<1>4. Reject(q) => Moves(q) /\ OtherTypes' /\ TableInv'
  BY <1>3, RejectKeeps, SameTables
<1>5. ASSUME UNCHANGED <<tables, showtimes>>,
             movies' \in [Ids -> MovieRows \cup {NoRow}],
             \A m \in Ids : movies[m] # NoRow => movies'[m] # NoRow
      PROVE  TableInv'
  BY <1>2, <1>5 DEF TableInv, TableTypes, ReferencesHold, RowsOf, tables, ShowtimeRows
<1>6. \A m \in Ids : movies[m] # NoRow => movies[m].status \in Statuses
  BY <1>2 DEF TableInv, TableTypes, MovieRows
<1>7. [status |-> "NOW_SHOWING"] \in MovieRows
  BY DEF MovieRows, Statuses
<1>8. CASE PromoteMovies(q)
  <2>1. Moves(q) /\ UNCHANGED <<tables, now, laid>>
    BY <1>1, <1>2, <1>3, <1>8, OnToMoves DEF PromoteMovies
  <2>2. TableInv'
    BY <1>2, <1>5, <1>7, <1>8, <2>1, RowsAreRecords
       DEF PromoteMovies, TableInv, TableTypes
  <2> QED BY <1>2, <1>8, <2>1, <2>2 DEF PromoteMovies, OtherTypes, locals
<1>9. CASE UpdateMovie(q)
  <2>1. CASE Reject(q)
    BY <1>4, <2>1
  <2>2. CASE ~Reject(q)
    <3>1. /\ req[q].id \in Ids /\ req[q].status \in Statuses \cup {Unset}
          /\ Answer(q, "ok") /\ UNCHANGED showtimes /\ movies[req[q].id] # NoRow
          /\ movies' = [movies EXCEPT ![req[q].id] =
                          [status |-> Given(req[q].status, movies[req[q].id].status)]]
          /\ styled' \in {styled, [styled EXCEPT ![req[q].id] = q]}
      BY <1>3, <1>9, <2>2, Arguments DEF UpdateMovie, At
    <3>2. /\ Moves(q) /\ UNCHANGED <<tables, now, laid>>
          /\ listed' \in [Requests -> SUBSET Ids] /\ promotes' \in [Requests -> BOOLEAN]
      BY <1>1, <1>2, <1>3, <3>1, AnswerMoves
    <3>3. [status |-> Given(req[q].status, movies[req[q].id].status)] \in MovieRows
      BY <1>6, <3>1 DEF Given, MovieRows
    <3>4. TableInv'
      BY <1>2, <1>5, <3>1, <3>2, <3>3, RowsAreRecords DEF TableInv, TableTypes
    <3> QED BY <1>2, <3>1, <3>2, <3>4 DEF OtherTypes
  <2> QED BY <2>1, <2>2
<1>10. CASE RemoveMovie(q)
  <2>1. CASE Reject(q)
    BY <1>4, <2>1
  <2>2. CASE ~Reject(q)
    <3>1. /\ Answer(q, "ok") /\ UNCHANGED styled /\ Cascade
          /\ movies' = Without(movies, {req[q].id})
      BY <1>10, <2>2 DEF RemoveMovie
    <3>2. /\ Moves(q) /\ UNCHANGED <<tables, now, laid>>
          /\ listed' \in [Requests -> SUBSET Ids] /\ promotes' \in [Requests -> BOOLEAN]
      BY <1>1, <1>2, <1>3, <3>1, AnswerMoves
    <3>3. TableInv'
      BY <1>2, <3>1, <3>2, RowsAreRecords
         DEF TableInv, TableTypes, ReferencesHold, RowsOf, Without, Cascade, Hanging, tables
    <3> QED BY <1>2, <3>1, <3>2, <3>3 DEF OtherTypes
  <2> QED BY <2>1, <2>2
<1>11. CASE CreateMovie(q)
  <2>1. CASE Reject(q)
    BY <1>4, <2>1
  <2>2. CASE ~Reject(q)
    <3>1. /\ req[q].status \in Statuses \cup {Unset}
          /\ Answer(q, "ok") /\ UNCHANGED showtimes
          /\ movies' = [movies EXCEPT ![q] = [status |-> Given(req[q].status, "COMING_SOON")]]
          /\ styled' = [styled EXCEPT ![q] = q]
      BY <1>3, <1>11, <2>2, Arguments DEF CreateMovie, At
    <3>2. /\ Moves(q) /\ UNCHANGED <<tables, now, laid>>
          /\ listed' \in [Requests -> SUBSET Ids] /\ promotes' \in [Requests -> BOOLEAN]
      BY <1>1, <1>2, <1>3, <3>1, AnswerMoves
    <3>3. [status |-> Given(req[q].status, "COMING_SOON")] \in MovieRows
      BY <3>1 DEF Given, MovieRows, Statuses
    <3>4. TableInv'
      BY <1>2, <1>5, <3>1, <3>2, <3>3, RowsAreRecords DEF TableInv, TableTypes
    <3> QED BY <1>2, <3>1, <3>2, <3>4 DEF OtherTypes
  <2> QED BY <2>1, <2>2
<1>12. CASE InsertShowtime(q)
  <2>1. CASE Reject(q)
    BY <1>4, <2>1
  <2>2. CASE ~Reject(q)
    <3>1. /\ req[q].op = "createShowtime"
          /\ movies[req[q].movie] # NoRow /\ cinemas[req[q].cinema] # NoRow
          /\ halls[req[q].hall] # NoRow
          /\ showtimes' = [showtimes EXCEPT ![q] = RowOf(req[q])]
          /\ OnTo(q, IF promotes[q] THEN "promoting" ELSE "seating")
          /\ UNCHANGED <<read, locals, movies, styled>>
      BY <1>12, <2>2 DEF InsertShowtime, At
    <3>2. Moves(q) /\ UNCHANGED <<tables, now, laid>>
      <4>1. (IF promotes[q] THEN "promoting" ELSE "seating") \in Steps
        BY <1>1
      <4> QED BY <1>2, <1>3, <3>1, <4>1, OnToMoves
    <3>3. RowOf(req[q]) \in ShowtimeRows
      BY <1>3, <3>1, Arguments, TimesAssumption DEF RowOf, ShowtimeRows
    <3>4. TableInv'
      BY <1>2, <3>1, <3>2, <3>3
         DEF TableInv, TableTypes, ReferencesHold, RowsOf, tables, RowOf
    <3> QED BY <1>2, <3>1, <3>2, <3>4 DEF OtherTypes, locals
  <2> QED BY <2>1, <2>2
<1>13. CASE PromoteMovie(q)
  <2>1. Moves(q) /\ UNCHANGED <<tables, now, laid>>
    BY <1>1, <1>2, <1>3, <1>13, OnToMoves DEF PromoteMovie
  <2>2. TableInv'
    BY <1>2, <1>5, <1>7, <1>13, <2>1, RowsAreRecords
       DEF PromoteMovie, TableInv, TableTypes
  <2> QED BY <1>2, <1>13, <2>1, <2>2 DEF PromoteMovie, OtherTypes, locals
<1>14. CASE CreateSeats(q)
  <2>1. CASE Reject(q)
    BY <1>4, <2>1
  <2>2. CASE ~Reject(q)
    <3>1. Seats(q) /\ Answer(q, "ok") /\ UNCHANGED <<movies, styled>>
      BY <1>14, <2>2 DEF CreateSeats
    <3>2. /\ Moves(q) /\ UNCHANGED <<tables, now, laid>>
          /\ listed' \in [Requests -> SUBSET Ids] /\ promotes' \in [Requests -> BOOLEAN]
      BY <1>1, <1>2, <1>3, <3>1, AnswerMoves
    <3>3. read[q] \in Matrices
      BY <1>14 DEF ProgrammeInv, Layout, CreateSeats, At
    <3>4. TableInv'
      BY <1>2, <3>1, <3>2, <3>3
         DEF TableInv, TableTypes, ReferencesHold, RowsOf, tables, Seats, ShowtimeRows
    <3> QED BY <1>2, <3>1, <3>2, <3>4 DEF OtherTypes
  <2> QED BY <2>1, <2>2
<1> QED BY <1>8, <1>9, <1>10, <1>11, <1>12, <1>13, <1>14 DEF ProgrammeWrite

LEMMA ProgrammeLayout ==
  ASSUME ProgrammeInv, NEW q \in Requests, Moves(q), ProgrammeLook(q) \/ ProgrammeWrite(q)
  PROVE  Layout(q)'
<1>1. CASE req[q].op # "createShowtime"
  BY <1>1, LayoutOfOther DEF ProgrammeInv
<1>2. CASE req[q].op = "createShowtime"
  <2>0. /\ pc \in [Requests -> Idle \cup Steps] /\ read \in [Requests -> Values]
        /\ TableTypes /\ Layout(q)
    BY DEF ProgrammeInv, HandlerTypes, TableInv
  <2>1. \/ CreateShowtime(q) \/ ReadHall(q) \/ InsertShowtime(q) \/ PromoteMovie(q)
        \/ CreateSeats(q)
    BY <1>2 DEF ProgrammeLook, ProgrammeWrite, ScanMovies, ListMovies, FindMovie, PromoteMovies,
       UpdateMovie, RemoveMovie, CreateMovie, At, ReadsMovies
  <2>2. Reject(q) \/ Answer(q, "ok") => Layout(q)'
    BY <2>0 DEF Reject, Answer, Finish, Layout
  <2>3. CASE CreateShowtime(q)
    BY <2>0, <2>2, <2>3 DEF CreateShowtime, OnTo, GoTo, Layout
  <2>4. CASE ReadHall(q)
    <3>1. req[q].hall \in Ids
      BY <1>2, <2>4, AtUnderWay, Arguments DEF ReadHall, At, Steps, ProgrammeInv
    <3> QED BY <2>0, <2>2, <2>4, <3>1 DEF ReadHall, Layout, TableTypes, HallRows
  <2>5. CASE InsertShowtime(q)
    BY <1>2, <2>0, <2>2, <2>5 DEF InsertShowtime, At, OnTo, GoTo, Layout
  <2>6. CASE PromoteMovie(q)
    BY <1>2, <2>0, <2>2, <2>6 DEF PromoteMovie, At, OnTo, GoTo, Layout
  <2>7. CASE CreateSeats(q)
    BY <2>2, <2>7 DEF CreateSeats
  <2> QED BY <2>1, <2>3, <2>4, <2>5, <2>6, <2>7
<1> QED BY <1>1, <1>2

-----------------------------------------------------------------------------
(* Types and references *)

LEMMA ProgrammeInit == ScheduleInit => ProgrammeInv
<1> SUFFICES ASSUME ScheduleInit PROVE ProgrammeInv
    OBVIOUS
<1> USE IdsOfRequests, SeedAssumption, TimesAssumption, RowsAreRecords
    DEF ScheduleInit, Init, Seeded
<1>1. TableTypes
  <2>1. [code |-> SeedCode] \in CityRows /\ [city |-> 0, name |-> SeedName] \in CinemaRows
        /\ [cinema |-> 0, name |-> SeedName, matrix |-> SeedMatrix] \in HallRows
        /\ [status |-> "COMING_SOON"] \in MovieRows
    BY DEF CityRows, CinemaRows, HallRows, MovieRows, Statuses
  <2>2. [movie |-> 0, cinema |-> 0, hall |-> 0, start |-> SeedStart,
         end |-> SeedStart + SeedLength, seats |-> SeedMatrix] \in ShowtimeRows
    <3>1. 0 \in Ids /\ SeedStart \in Nat /\ SeedLength \in Nat /\ SeedMatrix \in Matrices
      OBVIOUS
    <3>2. SeedStart + SeedLength \in Nat
      BY <3>1
    <3> HIDE SeedAssumption, TimesAssumption, IdsOfRequests, RowsAreRecords
        DEF ScheduleInit, Init, Seeded
    <3> QED BY <3>1, <3>2 DEF ShowtimeRows
  <2> QED BY <2>1, <2>2 DEF TableTypes
<1>2. ReferencesHold
  BY DEF ReferencesHold, RowsOf, CityRows, CinemaRows, HallRows, MovieRows, Statuses
<1>3. HandlerTypes
  BY DEF HandlerTypes, Idle, UnderWay, Values
<1>4. OtherTypes
  BY DEF OtherTypes
<1>5. \A q \in Requests : Layout(q)
  BY DEF Layout
<1> QED BY <1>1, <1>2, <1>3, <1>4, <1>5 DEF ProgrammeInv, TableInv

LEMMA CatalogueSteps ==
  ASSUME ProgrammeInv, NEW q \in Requests, CatalogueStep(q)
  PROVE  Moves(q) /\ req[q].op \in CatalogOps /\ TableInv' /\ OtherTypes'
<1>1. /\ HandlerTypes /\ CatalogInv /\ OtherTypes
      /\ movies \in [Ids -> MovieRows \cup {NoRow}]
      /\ showtimes \in [Ids -> ShowtimeRows \cup {NoRow}]
  BY DEF ProgrammeInv, CatalogInv, TableInv, TableTypes, CatalogTypes, ReferencesHold, CatalogRefs
<1>2. Moves(q) /\ req[q].op \in CatalogOps /\ CatalogInv'
  <2>1. CASE CatalogWrite(q)
    BY <1>1, <2>1, CatalogWrites
  <2>2. CASE ~CatalogWrite(q)
    <3>1. Moves(q) /\ req[q].op \in CatalogOps /\ UNCHANGED tables
      BY <1>1, <2>2, CatalogLooks DEF CatalogueStep, CatalogStep, CatalogWrite
    <3> QED BY <1>1, <3>1 DEF tables, CatalogInv, CatalogTypes, CatalogRefs, RowsOf
  <2> QED BY <2>1, <2>2
<1>3. TableInv'
  <2>1. UNCHANGED movies /\ Cascade
    BY DEF CatalogueStep
  <2> QED BY <1>1, <1>2, <2>1
          DEF TableInv, TableTypes, ReferencesHold, CatalogInv, CatalogTypes, CatalogRefs,
              RowsOf, Cascade, Hanging
<1>4. OtherTypes'
  BY <1>1, IdsOfRequests DEF CatalogueStep, OtherTypes, locals
<1> QED BY <1>2, <1>3, <1>4

LEMMA AskTypes ==
  ASSUME ProgrammeInv, NEW q \in Requests, AskAny(q)
  PROVE  HandlerTypes' /\ OtherTypes' /\ TableInv' /\ \A p \in Requests : Layout(p)'
<1>1. PICK r \in CatalogRequests(RowsOf(cities), RowsOf(cinemas), RowsOf(halls))
                \cup ProgrammeRequests(RowsOf(movies), RowsOf(cinemas), RowsOf(halls)) :
        Ask(q, r)
  BY DEF AskAny
<1>2. RowsOf(cities) \subseteq Ids /\ RowsOf(cinemas) \subseteq Ids /\ RowsOf(halls) \subseteq Ids
      /\ RowsOf(movies) \subseteq Ids
  BY DEF RowsOf
<1>3. r \in AnyRequest
  <2>1. CASE r \in CatalogRequests(RowsOf(cities), RowsOf(cinemas), RowsOf(halls))
    BY <1>2, <2>1 DEF AnyRequest, CatalogRequests, CityRequests, CinemaRequests, HallRequests,
       MatrixRequests
  <2>2. CASE r \in ProgrammeRequests(RowsOf(movies), RowsOf(cinemas), RowsOf(halls))
    BY <1>2, <2>2 DEF AnyRequest, ProgrammeRequests, MovieRequests, ShowtimeRequests
  <2> QED BY <2>1, <2>2
<1>4. r # NoRequest
  BY <1>3, CatalogRequestAssumption, ProgrammeRequestAssumption DEF AnyRequest
<1>5. HandlerTypes'
  BY <1>1, <1>3, <1>4 DEF ProgrammeInv, HandlerTypes, Ask, UnderWay, Idle, Steps
<1>6. UNCHANGED <<tables, programme, now, locals, laid, styled>>
  BY <1>1 DEF AskAny, Ask
<1>7. TableInv'
  BY <1>6, SameTables
<1>8. \A p \in Requests : Layout(p)'
  BY <1>1 DEF ProgrammeInv, HandlerTypes, Ask, Layout
<1> QED BY <1>5, <1>6, <1>7, <1>8 DEF ProgrammeInv, OtherTypes, locals

(* What a step does: a request is made, one goes on, time passes. *)
LEMMA ProgrammeSteps ==
  ASSUME ProgrammeInv, NEW q \in Requests, CatalogueStep(q) \/ ProgrammeStep(q) \/ Break(q)
  PROVE  Moves(q) /\ ProgrammeInv'
<1>1. Moves(q) /\ OtherTypes' /\ TableInv' /\ Layout(q)'
  <2>1. CASE CatalogueStep(q)
    BY <2>1, CatalogueSteps, LayoutOfOther DEF ProgrammeInv, CatalogOps
  <2>2. CASE ProgrammeLook(q)
    BY <2>2, ProgrammeLooks, ProgrammeLayout, SameTables
  <2>3. CASE ProgrammeWrite(q)
    BY <2>3, ProgrammeWrites, ProgrammeLayout
  <2>4. CASE Break(q)
    <3>1. q \in UnderWay /\ Reject(q)
      BY <2>4 DEF Break
    <3>2. Layout(q)'
      BY <3>1 DEF Reject, Answer, Finish, Layout, ProgrammeInv, HandlerTypes
    <3> QED BY <3>1, <3>2, RejectKeeps, SameTables
  <2> QED BY <2>1, <2>2, <2>3, <2>4 DEF ProgrammeStep, ProgrammeLook, ProgrammeWrite
<1> QED BY <1>1, MovesKeepTypes, LayoutsKept DEF ProgrammeInv

LEMMA ProgrammeNext == ProgrammeInv /\ [ScheduleNext]_scheduleVars => ProgrammeInv'
<1> SUFFICES ASSUME ProgrammeInv, [ScheduleNext]_scheduleVars PROVE ProgrammeInv'
    OBVIOUS
<1>1. ASSUME NEW q \in Requests, CatalogueStep(q) \/ ProgrammeStep(q) \/ Break(q)
      PROVE  ProgrammeInv'
  BY <1>1, ProgrammeSteps
<1>2. ASSUME NEW q \in Requests, AskAny(q)
      PROVE  ProgrammeInv'
  BY <1>2, AskTypes DEF ProgrammeInv
<1>3. CASE Tick \/ UNCHANGED scheduleVars
  <2>1. UNCHANGED <<vars, programme, locals, laid, styled>> /\ now' \in Nat
    BY <1>3 DEF Tick, scheduleVars, ProgrammeInv, OtherTypes
  <2>2. TableInv'
    BY <2>1, SameTables DEF vars
  <2>3. HandlerTypes' /\ \A q \in Requests : Layout(q)'
    BY <2>1 DEF vars, ProgrammeInv, HandlerTypes, UnderWay, Layout
  <2> QED BY <2>1, <2>2, <2>3 DEF ProgrammeInv, OtherTypes, locals
<1> QED BY <1>1, <1>2, <1>3 DEF ScheduleNext

LEMMA ProgrammeAlways == ScheduleSpec => []ProgrammeInv
BY ProgrammeInit, ProgrammeNext, PTL DEF ScheduleSpec

(* Tables, requests and handlers stay well typed, whatever overlaps and    *)
(* whatever statement fails.                                               *)
THEOREM ScheduleTypeCorrect == ScheduleSpec => []ScheduleTypeOK
<1>1. ProgrammeInv => ScheduleTypeOK
  BY TypeParts DEF ProgrammeInv, TableInv
<1> QED BY <1>1, ProgrammeAlways, PTL

(* No row is left without its parents: not by a deletion, which takes what *)
(* hangs on the row along, and not by an insert or a move whose parent was *)
(* deleted after the handler had found it.                                 *)
THEOREM NoOrphans == ScheduleSpec => []ReferencesHold
<1>1. ProgrammeInv => ReferencesHold
  BY DEF ProgrammeInv, TableInv
<1> QED BY <1>1, ProgrammeAlways, PTL

-----------------------------------------------------------------------------
(* Overlaps and seats *)

(* Request s had ended when t arrived; identity 0 is the seed's. *)
Ahead(s, t) == s < t /\ s \notin met[t]

SlotOf(row) == <<row.hall, row.start, row.end>>

SlotInv ==
  /\ \A s, t \in Requests : Ahead(s, t) /\ pc[t] # "idle" => pc[s] \in Ends
  /\ \A t \in Requests : showtimes[t] # NoRow => pc[t] # "idle"
  /\ \A t \in Requests, s \in Ids :
       /\ Ahead(s, t) /\ showtimes[s] # NoRow
       /\ pc[t] \in {"free", "inserting"} /\ req[t].op = "createShowtime"
       => ~Conflict(showtimes[s], RowOf(req[t]))
  /\ \A t \in Requests, s \in Ids :
       Ahead(s, t) /\ showtimes[s] # NoRow /\ showtimes[t] # NoRow
       => ~Conflict(showtimes[s], showtimes[t])

SeatInv ==
  \A s \in Ids :
    showtimes[s] # NoRow /\ showtimes[s].seats = NoRow =>
      /\ s \in Requests /\ pc[s] # "ok"
      /\ s \in UnderWay => req[s].op = "createShowtime"

(* Rows may go, their slots do not change. *)
SlotsKept ==
  \A i \in Ids : showtimes'[i] # NoRow =>
    showtimes[i] # NoRow /\ SlotOf(showtimes'[i]) = SlotOf(showtimes[i])

(* Whoever goes on towards his insert keeps or has just made his search. *)
Searched(q) ==
  pc'[q] \in {"free", "inserting"} /\ req'[q].op = "createShowtime" =>
    /\ req'[q] = req[q]
    /\ \/ pc[q] = "free"
       \/ \A s \in Ids : showtimes[s] # NoRow => ~Conflict(showtimes[s], RowOf(req[q]))

LEMMA SlotsOfOthers ==
  ASSUME ProgrammeInv, SlotInv, NEW q \in Requests, Moves(q), SlotsKept, Searched(q)
  PROVE  SlotInv'
<1>0. /\ pc \in [Requests -> Idle \cup Steps] /\ req \in [Requests -> AnyRequest \cup {NoRequest}]
      /\ met' = met /\ pc[q] \notin Idle /\ pc'[q] # "idle"
      /\ \A p \in Requests \ {q} : pc'[p] = pc[p] /\ req'[p] = req[p]
  BY DEF ProgrammeInv, HandlerTypes, Moves, UnderWay, Steps, Ends, Idle
<1>1. \A s, t \in Requests : Ahead(s, t)' /\ pc'[t] # "idle" => pc'[s] \in Ends
  BY <1>0 DEF SlotInv, Ahead, Idle, Ends
<1>2. \A t \in Requests : showtimes'[t] # NoRow => pc'[t] # "idle"
  BY <1>0, IdsOfRequests DEF SlotInv, SlotsKept
<1>3. ASSUME NEW t \in Requests, NEW s \in Ids, Ahead(s, t)', showtimes'[s] # NoRow,
             pc'[t] \in {"free", "inserting"}, req'[t].op = "createShowtime"
      PROVE  ~Conflict(showtimes'[s], RowOf(req'[t]))
  <2>1. req'[t] = req[t] /\ Ahead(s, t) /\ showtimes[s] # NoRow
        /\ SlotOf(showtimes'[s]) = SlotOf(showtimes[s])
    BY <1>0, <1>3 DEF Searched, SlotsKept, Ahead
  <2>2. ~Conflict(showtimes[s], RowOf(req[t]))
    BY <1>0, <1>3, <2>1 DEF SlotInv, Searched
  <2> QED BY <2>1, <2>2 DEF Conflict, SlotOf
<1>4. ASSUME NEW t \in Requests, NEW s \in Ids, Ahead(s, t)', showtimes'[s] # NoRow,
             showtimes'[t] # NoRow
      PROVE  ~Conflict(showtimes'[s], showtimes'[t])
  <2>1. /\ Ahead(s, t) /\ showtimes[s] # NoRow /\ showtimes[t] # NoRow
        /\ SlotOf(showtimes'[s]) = SlotOf(showtimes[s])
        /\ SlotOf(showtimes'[t]) = SlotOf(showtimes[t])
    BY <1>0, <1>4, IdsOfRequests DEF SlotsKept, Ahead
  <2>2. ~Conflict(showtimes[s], showtimes[t])
    BY <2>1 DEF SlotInv
  <2> QED BY <2>1, <2>2 DEF Conflict, SlotOf
<1> QED BY <1>1, <1>2, <1>3, <1>4 DEF SlotInv

(* The insert itself: nobody who counts q among those ahead has come yet. *)
LEMMA SlotsOfInsert ==
  ASSUME ProgrammeInv, SlotInv, NEW q \in Requests, Moves(q), pc[q] = "inserting",
         req[q].op = "createShowtime", pc'[q] \in {"promoting", "seating"},
         showtimes' = [showtimes EXCEPT ![q] = RowOf(req[q])]
  PROVE  SlotInv'
<1>0. /\ pc \in [Requests -> Idle \cup Steps]
      /\ met' = met /\ pc[q] \notin Idle /\ pc'[q] # "idle"
      /\ \A p \in Requests \ {q} : pc'[p] = pc[p] /\ req'[p] = req[p]
  BY DEF ProgrammeInv, HandlerTypes, Moves, UnderWay, Steps, Ends, Idle
<1>1. /\ showtimes \in [Ids -> ShowtimeRows \cup {NoRow}] /\ Requests \subseteq Ids
      /\ \A i \in Ids \ {q} : showtimes'[i] = showtimes[i]
      /\ showtimes'[q] = RowOf(req[q])
  BY IdsOfRequests DEF ProgrammeInv, TableInv, TableTypes
<1>2. \A t \in Requests : Ahead(q, t) => pc[t] = "idle" /\ t # q
  BY <1>0, IdsOfRequests DEF SlotInv, Ends, Idle, Ahead
<1>3. \A s, t \in Requests : Ahead(s, t)' /\ pc'[t] # "idle" => pc'[s] \in Ends
  BY <1>0 DEF SlotInv, Ahead, Idle, Ends
<1>4. \A t \in Requests : showtimes'[t] # NoRow => pc'[t] # "idle"
  BY <1>0, <1>1 DEF SlotInv
<1>5. ASSUME NEW t \in Requests, NEW s \in Ids, Ahead(s, t)', showtimes'[s] # NoRow,
             pc'[t] \in {"free", "inserting"}, req'[t].op = "createShowtime"
      PROVE  ~Conflict(showtimes'[s], RowOf(req'[t]))
  <2>1. t # q /\ s # q /\ Ahead(s, t)
    BY <1>0, <1>2, <1>5 DEF Ahead
  <2> QED BY <1>0, <1>1, <1>5, <2>1 DEF SlotInv
<1>6. ASSUME NEW t \in Requests, NEW s \in Ids, Ahead(s, t)', showtimes'[s] # NoRow,
             showtimes'[t] # NoRow
      PROVE  ~Conflict(showtimes'[s], showtimes'[t])
  <2>1. Ahead(s, t) /\ s # q
    BY <1>0, <1>1, <1>2, <1>6 DEF Ahead, SlotInv
  <2> QED BY <1>1, <1>6, <2>1 DEF SlotInv
<1> QED BY <1>3, <1>4, <1>5, <1>6 DEF SlotInv

(* An arrival: those under way are met, the others have ended. *)
LEMMA SlotsOfArrival ==
  ASSUME ProgrammeInv, SlotInv, SeatInv, NEW q \in Requests, AskAny(q)
  PROVE  SlotInv' /\ SeatInv'
<1>0. /\ pc \in [Requests -> Idle \cup Steps] /\ req \in [Requests -> AnyRequest \cup {NoRequest}]
      /\ met \in [Requests -> SUBSET Requests]
  BY DEF ProgrammeInv, HandlerTypes
<1>1. PICK r : Ask(q, r) /\ showtimes' = showtimes
  BY DEF AskAny, programme
<1>2. /\ pc[q] = "idle" /\ pc'[q] = "sent"
      /\ \A p \in Requests : p < q => pc[p] # "idle"
      /\ \A p \in Requests \ {q} : pc'[p] = pc[p] /\ req'[p] = req[p] /\ met'[p] = met[p]
      /\ met'[q] = UnderWay
  BY <1>0, <1>1, MaxRequestsAssumption DEF Ask, Requests
<1>3. \A s, t \in Requests : Ahead(s, t)' /\ pc'[t] # "idle" => pc'[s] \in Ends
  <2> SUFFICES ASSUME NEW s \in Requests, NEW t \in Requests, Ahead(s, t)', pc'[t] # "idle"
               PROVE  pc'[s] \in Ends
      OBVIOUS
  <2>1. CASE t = q
    BY <1>2, <2>1, IdsOfRequests DEF Ahead, UnderWay, Idle, Ends
  <2>2. CASE t # q
    BY <1>2, <2>2 DEF Ahead, SlotInv, Ends
  <2> QED BY <2>1, <2>2
<1>4. showtimes[q] = NoRow
  BY <1>2 DEF SlotInv
<1>5. SlotInv'
  BY <1>1, <1>2, <1>3, <1>4 DEF SlotInv, Ahead
<1>6. SeatInv'
  BY <1>1, <1>2, <1>4 DEF SeatInv, UnderWay
<1> QED BY <1>5, <1>6

(* Of all steps only one writes a slot, and only a search leads to it. *)
LEMMA SlotSteps ==
  ASSUME ProgrammeInv, NEW q \in Requests, CatalogueStep(q) \/ ProgrammeStep(q) \/ Break(q)
  PROVE  \/ SlotsKept /\ Searched(q)
         \/ /\ pc[q] = "inserting" /\ req[q].op = "createShowtime"
            /\ pc'[q] \in {"promoting", "seating"}
            /\ showtimes' = [showtimes EXCEPT ![q] = RowOf(req[q])]
<1>0. /\ pc \in [Requests -> Idle \cup Steps] /\ req \in [Requests -> AnyRequest \cup {NoRequest}]
      /\ showtimes \in [Ids -> ShowtimeRows \cup {NoRow}] /\ Requests \subseteq Ids
      /\ Moves(q)
  BY ProgrammeSteps, IdsOfRequests DEF ProgrammeInv, TableInv, TableTypes, HandlerTypes
<1>1. UNCHANGED showtimes \/ Cascade \/ Seats(q) => SlotsKept
  BY <1>0 DEF SlotsKept, Cascade, Seats, SlotOf, ShowtimeRows
<1>2. pc'[q] \notin {"free", "inserting"} \/ req'[q].op # "createShowtime" => Searched(q)
  BY DEF Searched
<1>3. Reject(q) \/ Answer(q, "ok") => Searched(q)
  BY <1>0, <1>2 DEF Reject, Answer, Finish
<1>4. Reject(q) => UNCHANGED showtimes
  BY DEF Reject, programme
<1>5. CASE Reject(q)
  BY <1>1, <1>3, <1>4, <1>5
<1>6. CASE CatalogueStep(q)
  <2>1. req[q].op \in CatalogOps
    BY <1>6, CatalogueSteps
  <2>2. Searched(q)
    BY <1>0, <1>2, <2>1 DEF Moves, CatalogOps, Ends
  <2> QED BY <1>1, <1>6, <2>2 DEF CatalogueStep
<1>7. CASE ~Reject(q) /\ ProgrammeStep(q) /\ req[q].op # "createShowtime"
  <2>1. Searched(q)
    BY <1>0, <1>2, <1>7 DEF Moves, Ends
  <2>2. UNCHANGED showtimes \/ Cascade
    BY <1>7 DEF ProgrammeStep, ScanMovies, PromoteMovies, ListMovies, FindMovie, UpdateMovie,
       RemoveMovie, CreateMovie, CreateShowtime, ReadHall, InsertShowtime, PromoteMovie,
       CreateSeats, At, programme
  <2> QED BY <1>1, <2>1, <2>2
<1>8. CASE ~Reject(q) /\ ProgrammeStep(q) /\ req[q].op = "createShowtime"
  <2>1. \/ CreateShowtime(q) \/ ReadHall(q) \/ InsertShowtime(q) \/ PromoteMovie(q)
        \/ CreateSeats(q)
    BY <1>8 DEF ProgrammeStep, ScanMovies, ListMovies, FindMovie, PromoteMovies,
       UpdateMovie, RemoveMovie, CreateMovie, At, ReadsMovies
  <2>2. CASE CreateShowtime(q)
    <3>1. UNCHANGED showtimes
      BY <1>8, <2>2 DEF CreateShowtime, programme
    <3>2. Searched(q)
      BY <1>8, <2>2 DEF CreateShowtime, OnTo, GoTo, Searched, RowsOf
    <3> QED BY <1>1, <3>1, <3>2
  <2>3. CASE ReadHall(q)
    <3>1. UNCHANGED showtimes
      BY <1>8, <2>3 DEF ReadHall, programme
    <3>2. Searched(q)
      BY <1>8, <2>3 DEF ReadHall, At, OnTo, GoTo, Searched
    <3> QED BY <1>1, <3>1, <3>2
  <2>4. CASE InsertShowtime(q)
    BY <1>0, <1>8, <2>4 DEF InsertShowtime, At, OnTo, GoTo
  <2>5. CASE PromoteMovie(q)
    <3>1. UNCHANGED showtimes /\ pc'[q] = "seating"
      BY <1>0, <2>5 DEF PromoteMovie, OnTo, GoTo
    <3> QED BY <1>1, <1>2, <3>1
  <2>6. CASE CreateSeats(q)
    BY <1>1, <1>3, <1>8, <2>6 DEF CreateSeats
  <2> QED BY <2>1, <2>2, <2>3, <2>4, <2>5, <2>6
<1> QED BY <1>5, <1>6, <1>7, <1>8 DEF Break

LEMMA SeatSteps ==
  ASSUME ProgrammeInv, SeatInv, NEW q \in Requests,
         CatalogueStep(q) \/ ProgrammeStep(q) \/ Break(q)
  PROVE  SeatInv'
<1>0. /\ pc \in [Requests -> Idle \cup Steps] /\ req \in [Requests -> AnyRequest \cup {NoRequest}]
      /\ showtimes \in [Ids -> ShowtimeRows \cup {NoRow}] /\ Requests \subseteq Ids
      /\ Moves(q) /\ q \in UnderWay
  BY ProgrammeSteps, IdsOfRequests DEF ProgrammeInv, TableInv, TableTypes, HandlerTypes, Moves
<1>1. /\ \A p \in Requests \ {q} : pc'[p] = pc[p] /\ req'[p] = req[p]
      /\ q \in UnderWay' => req'[q] = req[q]
  BY <1>0 DEF Moves, UnderWay, Ends, Idle
<1>2. ASSUME UNCHANGED showtimes \/ Cascade, pc'[q] # "ok" \/ req[q].op # "createShowtime"
      PROVE  SeatInv'
  <2>1. \A i \in Ids : showtimes'[i] # NoRow => showtimes'[i] = showtimes[i]
    BY <1>2 DEF Cascade
  <2> QED BY <1>0, <1>1, <1>2, <2>1 DEF SeatInv, UnderWay
<1>3. CASE Reject(q)
  BY <1>0, <1>2, <1>3 DEF Reject, Answer, Finish, programme
<1>4. CASE CatalogueStep(q)
  BY <1>2, <1>4, CatalogueSteps DEF CatalogueStep, CatalogOps
<1>5. CASE ~Reject(q) /\ ProgrammeStep(q) /\ req[q].op # "createShowtime"
  <2>1. UNCHANGED showtimes \/ Cascade
    BY <1>5 DEF ProgrammeStep, ScanMovies, PromoteMovies, ListMovies, FindMovie, UpdateMovie,
       RemoveMovie, CreateMovie, CreateShowtime, ReadHall, InsertShowtime, PromoteMovie,
       CreateSeats, At, programme
  <2> QED BY <1>2, <1>5, <2>1
<1>6. CASE ~Reject(q) /\ ProgrammeStep(q) /\ req[q].op = "createShowtime"
  <2>1. \/ CreateShowtime(q) \/ ReadHall(q) \/ InsertShowtime(q) \/ PromoteMovie(q)
        \/ CreateSeats(q)
    BY <1>6 DEF ProgrammeStep, ScanMovies, ListMovies, FindMovie, PromoteMovies,
       UpdateMovie, RemoveMovie, CreateMovie, At, ReadsMovies
  <2>2. CASE CreateShowtime(q) \/ ReadHall(q) \/ PromoteMovie(q)
    <3>1. UNCHANGED showtimes /\ pc'[q] # "ok"
      BY <1>0, <1>6, <2>2 DEF CreateShowtime, ReadHall, PromoteMovie, OnTo, GoTo, programme
    <3> QED BY <1>2, <3>1
  <2>3. CASE InsertShowtime(q)
    <3>1. /\ showtimes' = [showtimes EXCEPT ![q] = RowOf(req[q])]
          /\ pc'[q] \in {"promoting", "seating"}
      BY <1>0, <1>6, <2>3 DEF InsertShowtime, OnTo, GoTo
    <3> QED BY <1>0, <1>1, <1>6, <3>1 DEF SeatInv, UnderWay
  <2>4. CASE CreateSeats(q)
    <3>1. Seats(q) /\ read[q] \in Matrices
      BY <1>6, <2>4 DEF CreateSeats, At, ProgrammeInv, Layout
    <3>2. showtimes'[q] # NoRow => showtimes'[q].seats # NoRow
      BY <1>0, <3>1, RowsAreRecords DEF Seats, ShowtimeRows
    <3>3. \A i \in Ids \ {q} : showtimes'[i] = showtimes[i]
      BY <1>0, <3>1 DEF Seats
    <3> QED BY <1>0, <1>1, <3>2, <3>3 DEF SeatInv, UnderWay
  <2> QED BY <2>1, <2>2, <2>3, <2>4
<1> QED BY <1>3, <1>4, <1>5, <1>6 DEF Break

LEMMA SlotNext ==
  ProgrammeInv /\ SlotInv /\ SeatInv /\ [ScheduleNext]_scheduleVars => SlotInv' /\ SeatInv'
<1> SUFFICES ASSUME ProgrammeInv, SlotInv, SeatInv, [ScheduleNext]_scheduleVars
             PROVE  SlotInv' /\ SeatInv'
    OBVIOUS
<1>1. ASSUME NEW q \in Requests, CatalogueStep(q) \/ ProgrammeStep(q) \/ Break(q)
      PROVE  SlotInv' /\ SeatInv'
  BY <1>1, ProgrammeSteps, SlotSteps, SlotsOfOthers, SlotsOfInsert, SeatSteps
<1>2. ASSUME NEW q \in Requests, AskAny(q)
      PROVE  SlotInv' /\ SeatInv'
  BY <1>2, SlotsOfArrival
<1>3. CASE Tick \/ UNCHANGED scheduleVars
  <2>1. UNCHANGED <<vars, programme>>
    BY <1>3 DEF Tick, scheduleVars
  <2> QED BY <2>1 DEF vars, programme, SlotInv, Ahead, SeatInv, UnderWay
<1> QED BY <1>1, <1>2, <1>3 DEF ScheduleNext

LEMMA SlotAlways == ScheduleSpec => [](ProgrammeInv /\ SlotInv /\ SeatInv)
<1>1. ScheduleInit => SlotInv /\ SeatInv
  BY IdsOfRequests, RowsAreRecords, SeedAssumption
     DEF ScheduleInit, Init, Seeded, SlotInv, SeatInv
<1> QED BY <1>1, ProgrammeInit, ProgrammeNext, SlotNext, PTL DEF ScheduleSpec

(* Two showtimes of a hall lie half an hour apart, unless their requests   *)
(* were under way together: search and insert are not atomic, but whoever  *)
(* came after the other's end has seen his showtime.                       *)
THEOREM OverlapsAreRaces == ScheduleSpec => []OverlapOnlyByRace
<1>1. ASSUME ProgrammeInv, SlotInv PROVE OverlapOnlyByRace
  <2>1. ASSUME NEW s \in RowsOf(showtimes), NEW t \in RowsOf(showtimes), s < t,
               showtimes[s].hall = showtimes[t].hall
        PROVE  \/ Apart(showtimes[s], showtimes[t])
               \/ {s, t} \subseteq Requests /\ Met(s, t)
    <3>1. s \in Ids /\ t \in Requests /\ showtimes[s] # NoRow /\ showtimes[t] # NoRow
      BY <2>1, MaxRequestsAssumption DEF RowsOf, Ids, Requests
    <3>2. CASE Ahead(s, t)
      <4>1. ~Conflict(showtimes[s], showtimes[t])
        BY <1>1, <3>1, <3>2 DEF SlotInv
      <4>2. /\ showtimes[s].start \in Nat /\ showtimes[s].end \in Nat
            /\ showtimes[t].start \in Nat /\ showtimes[t].end \in Nat /\ Buffer \in Nat
        BY <1>1, <3>1, IdsOfRequests, TimesAssumption
           DEF ProgrammeInv, TableInv, TableTypes, ShowtimeRows
      <4> QED BY <2>1, <4>1, <4>2 DEF Conflict, Apart
    <3>3. CASE ~Ahead(s, t)
      BY <1>1, <2>1, <3>1, <3>3 DEF Ahead, Met, ProgrammeInv, HandlerTypes
    <3> QED BY <3>2, <3>3
  <2>2. \A s, t \in RowsOf(showtimes) : s # t => s < t \/ t < s
    BY IdsOfRequests DEF RowsOf
  <2>3. \A s, t : Apart(showtimes[s], showtimes[t]) => Apart(showtimes[t], showtimes[s])
    BY DEF Apart
  <2>4. \A s, t : Met(s, t) => Met(t, s)
    BY DEF Met
  <2> QED BY <2>1, <2>2, <2>3, <2>4 DEF OverlapOnlyByRace
<1> QED BY <1>1, SlotAlways, PTL

(* A showtime that was confirmed has the seats of a layout: only a request *)
(* that is under way or was refused leaves one without.                    *)
THEOREM ConfirmedHasSeats == ScheduleSpec => []SeatlessOnlyByFailure
<1>1. SeatInv => SeatlessOnlyByFailure
  BY DEF SeatInv, SeatlessOnlyByFailure, RowsOf
<1> QED BY <1>1, SlotAlways, PTL
-----------------------------------------------------------------------------
(* Names *)

(* Those who are under way together have met; who has not come, nobody.    *)
AllMet ==
  /\ \A p, q \in UnderWay : p # q => Met(p, q)
  /\ \A q \in Requests : pc[q] = "idle" => met[q] = {}

LEMMA Arrival ==
  ASSUME ProgrammeInv, AllMet, NEW q \in Requests, AskAny(q)
  PROVE  /\ AllMet'
         /\ \A a, b \in Requests : Met(a, b) => Met(a, b)'
         /\ pc[q] = "idle" /\ pc'[q] = "sent" /\ req'[q] # NoRequest
         /\ \A p \in Requests \ {q} : pc'[p] = pc[p] /\ req'[p] = req[p] /\ met'[p] = met[p]
         /\ UNCHANGED <<tables, programme, namers, read, listed, laid, styled>>
<1>0. /\ pc \in [Requests -> Idle \cup Steps] /\ met \in [Requests -> SUBSET Requests]
      /\ req \in [Requests -> AnyRequest \cup {NoRequest}]
  BY DEF ProgrammeInv, HandlerTypes
<1>1. /\ pc[q] = "idle" /\ pc' = [pc EXCEPT ![q] = "sent"]
      /\ met' = [met EXCEPT ![q] = UnderWay]
      /\ \E r : req' = [req EXCEPT ![q] = r]
      /\ UNCHANGED <<tables, programme, namers, read, listed, laid, styled>>
  BY DEF AskAny, Ask, locals
<1>2. UnderWay' \subseteq UnderWay \cup {q} /\ q \notin UnderWay /\ q \in UnderWay'
  BY <1>0, <1>1 DEF UnderWay, Idle
<1>3. /\ met'[q] = UnderWay /\ met[q] = {} /\ pc'[q] = "sent"
      /\ \A p \in Requests \ {q} : pc'[p] = pc[p] /\ req'[p] = req[p] /\ met'[p] = met[p]
  BY <1>0, <1>1 DEF AllMet
<1>4. AllMet'
  BY <1>2, <1>3 DEF AllMet, Met, UnderWay
<1>5. \A a, b \in Requests : Met(a, b) => Met(a, b)'
  BY <1>3 DEF Met
<1>6. req'[q] # NoRequest
  BY <1>2, AskTypes DEF HandlerTypes
<1> QED BY <1>1, <1>3, <1>4, <1>5, <1>6

LEMMA AllMetSteps ==
  ASSUME ProgrammeInv, AllMet, [ScheduleNext]_scheduleVars
  PROVE  AllMet'
<1>0. pc \in [Requests -> Idle \cup Steps]
  BY DEF ProgrammeInv, HandlerTypes
<1>1. ASSUME NEW q \in Requests, CatalogueStep(q) \/ ProgrammeStep(q) \/ Break(q)
      PROVE  AllMet'
  <2>1. Moves(q)
    BY <1>1, ProgrammeSteps
  <2>2. UnderWay' \subseteq UnderWay /\ met' = met
        /\ \A p \in Requests : pc'[p] = "idle" => pc[p] = "idle"
    BY <1>0, <2>1 DEF Moves, UnderWay, Idle, Steps, Ends
  <2>3. \A p, r \in UnderWay' : p # r => Met(p, r)'
    BY <2>2 DEF AllMet, Met
  <2>4. \A p \in Requests : pc'[p] = "idle" => met'[p] = {}
    BY <2>2 DEF AllMet
  <2> QED BY <2>3, <2>4 DEF AllMet
<1>2. CASE Tick \/ UNCHANGED scheduleVars
  BY <1>2 DEF Tick, scheduleVars, vars, AllMet, Met, UnderWay
<1> QED BY <1>1, <1>2, Arrival DEF ScheduleNext

(* Whose name request q writes next, and when it has made sure of it: it   *)
(* has searched the name, or it is the one that it read.                   *)
Target(q) == IF req[q].op = "createCinema" THEN q ELSE req[q].id

MayName(q) ==
  \/ At(q, "inserting", {"createCinema"})
  \/ At(q, "named", {"updateCinema"})
  \/ pc[q] \in {"found", "placed"} /\ req[q].op = "updateCinema" /\ req[q].name = read[q]

Raced(as, bs) == \E a \in as, b \in bs : Met(a, b)

NameInv ==
  /\ namers \in [Ids -> SUBSET Requests]
  /\ \A m, n \in RowsOf(cinemas) :
       m # n /\ cinemas[m].name = cinemas[n].name => Raced(namers[m], namers[n])
  /\ \A q \in Requests, m \in RowsOf(cinemas) :
       MayName(q) /\ m # Target(q) /\ cinemas[m].name = req[q].name
         => Raced(namers[m], namers[Target(q)] \cup {q})

(* Cinema m keeps its name, or q gives it one. *)
KeepsName(m) ==
  cinemas[m] # NoRow /\ cinemas'[m].name = cinemas[m].name

Renamed(q, m) ==
  MayName(q) /\ m = Target(q) /\ cinemas'[m].name = req[q].name /\ namers'[m] = namers[m] \cup {q}

(* Whoever goes on towards writing a name has made sure of it before, or   *)
(* just now: nobody else has the name, or it is that of his cinema.        *)
SureOfName(q) ==
  MayName(q)' =>
    /\ req'[q] = req[q] /\ UNCHANGED <<cinemas, namers>>
    /\ \/ MayName(q)
       \/ \A m \in RowsOf(cinemas) : m # Target(q) => cinemas[m].name # req[q].name
       \/ Target(q) \in RowsOf(cinemas) /\ cinemas[Target(q)].name = req[q].name

Naming(q) ==
  /\ namers' \in [Ids -> SUBSET Requests]
  /\ \A m \in Ids : namers[m] \subseteq namers'[m]
  /\ \A m \in Ids : cinemas'[m] # NoRow => KeepsName(m) \/ Renamed(q, m)
  /\ SureOfName(q)

LEMMA NamingKeeps ==
  ASSUME ProgrammeInv, AllMet, NameInv, NEW q \in Requests, Moves(q), Naming(q)
  PROVE  NameInv'
<1>0. /\ pc \in [Requests -> Idle \cup Steps]
      /\ met' = met /\ q \in UnderWay
      /\ \A p \in Requests \ {q} : pc'[p] = pc[p] /\ req'[p] = req[p] /\ read'[p] = read[p]
      /\ \A p \in Requests : MayName(p) => p \in UnderWay
  BY DEF ProgrammeInv, HandlerTypes, Moves, UnderWay, Idle, MayName, At
<1>1. ASSUME NEW m \in RowsOf(cinemas)', NEW n \in RowsOf(cinemas)', m # n,
             cinemas'[m].name = cinemas'[n].name
      PROVE  Raced(namers[m], namers[n])'
  <2>0. m \in Ids /\ n \in Ids /\ cinemas'[m] # NoRow /\ cinemas'[n] # NoRow
    BY DEF RowsOf
  <2>1. CASE KeepsName(m) /\ KeepsName(n)
    <3>1. Raced(namers[m], namers[n])
      BY <1>1, <2>0, <2>1 DEF NameInv, KeepsName, RowsOf
    <3>2. namers[m] \subseteq namers'[m] /\ namers[n] \subseteq namers'[n]
      BY <2>0 DEF Naming
    <3> QED BY <1>0, <3>1, <3>2 DEF Raced, Met
  <2>2. ASSUME NEW a \in Ids, NEW b \in Ids, a # b, Renamed(q, a), KeepsName(b),
               cinemas'[a].name = cinemas'[b].name
        PROVE  Raced(namers[b], namers[a])'
    <3>1. Raced(namers[b], namers[a] \cup {q})
      BY <2>2 DEF NameInv, Renamed, KeepsName, RowsOf
    <3>2. namers[b] \subseteq namers'[b] /\ namers'[a] = namers[a] \cup {q}
      BY <2>2 DEF Renamed, Naming
    <3> QED BY <1>0, <3>1, <3>2 DEF Raced, Met
  <2>3. CASE Renamed(q, m) /\ KeepsName(n)
    <3>1. Raced(namers[n], namers[m])'
      BY <1>1, <2>0, <2>2, <2>3
    <3> QED BY <3>1 DEF Raced, Met
  <2>4. CASE Renamed(q, n) /\ KeepsName(m)
    BY <1>1, <2>0, <2>2, <2>4
  <2>5. CASE Renamed(q, m) /\ Renamed(q, n)
    BY <1>1, <2>5 DEF Renamed
  <2> QED BY <2>0, <2>1, <2>3, <2>4, <2>5 DEF Naming
<1>2. ASSUME NEW p \in Requests, NEW m \in RowsOf(cinemas)', MayName(p)', m # Target(p)',
             cinemas'[m].name = req'[p].name
      PROVE  Raced(namers[m], namers[Target(p)] \cup {p})'
  <2>0. m \in Ids /\ cinemas'[m] # NoRow
    BY DEF RowsOf
  <2>1. CASE p = q
    <3>1. /\ req'[q] = req[q] /\ UNCHANGED <<cinemas, namers>> /\ m # Target(q)
          /\ m \in RowsOf(cinemas) /\ cinemas[m].name = req[q].name
      BY <1>2, <2>0, <2>1 DEF Naming, SureOfName, Target, RowsOf
    <3>2. Raced(namers[m], namers[Target(q)] \cup {q})
      <4>1. CASE MayName(q)
        BY <3>1, <4>1 DEF NameInv
      <4>2. CASE Target(q) \in RowsOf(cinemas) /\ cinemas[Target(q)].name = req[q].name
        <5>1. Raced(namers[m], namers[Target(q)])
          BY <3>1, <4>2 DEF NameInv
        <5> QED BY <5>1 DEF Raced
      <4> QED BY <1>2, <2>1, <3>1, <4>1, <4>2 DEF Naming, SureOfName
    <3> QED BY <1>0, <2>1, <3>1, <3>2 DEF Raced, Met, Target
  <2>2. CASE p # q
    <3>1. req'[p] = req[p] /\ MayName(p) /\ Target(p)' = Target(p)
      BY <1>0, <1>2, <2>2 DEF MayName, At, Target
    <3>2. CASE KeepsName(m)
      <4>1. Raced(namers[m], namers[Target(p)] \cup {p})
        BY <1>2, <3>1, <3>2 DEF NameInv, KeepsName, RowsOf
      <4>2. Target(p) \in Ids
        BY <1>0, <3>1, AtUnderWay, Arguments, IdsOfRequests
           DEF Target, MayName, At, ProgrammeInv, Steps
      <4>3. namers[m] \subseteq namers'[m] /\ namers[Target(p)] \subseteq namers'[Target(p)]
        BY <2>0, <4>2 DEF Naming
      <4> QED BY <1>0, <3>1, <4>1, <4>3 DEF Raced, Met
    <3>3. CASE Renamed(q, m)
      <4>1. Met(q, p) /\ q \in namers'[m]
        BY <1>0, <2>2, <3>1, <3>3 DEF AllMet, Renamed
      <4> QED BY <1>0, <4>1 DEF Raced, Met
    <3> QED BY <2>0, <3>2, <3>3 DEF Naming
  <2> QED BY <2>1, <2>2
<1> QED BY <1>1, <1>2 DEF NameInv, Naming

LEMMA SameNames ==
  ASSUME UNCHANGED <<cinemas, namers>>, namers \in [Ids -> SUBSET Requests],
         NEW q \in Requests, SureOfName(q)
  PROVE  Naming(q)
BY DEF Naming, KeepsName

LEMMA NamingSteps ==
  ASSUME ProgrammeInv, NameInv, NEW q \in Requests,
         CatalogueStep(q) \/ ProgrammeStep(q) \/ Break(q)
  PROVE  Naming(q)
<1>0. /\ pc \in [Requests -> Idle \cup Steps] /\ req \in [Requests -> AnyRequest \cup {NoRequest}]
      /\ read \in [Requests -> Values]
      /\ cinemas \in [Ids -> CinemaRows \cup {NoRow}] /\ namers \in [Ids -> SUBSET Requests]
      /\ q \in Ids /\ q \in UnderWay /\ req[q] \in AnyRequest /\ Moves(q)
  BY ProgrammeSteps, IdsOfRequests
     DEF ProgrammeInv, TableInv, TableTypes, HandlerTypes, NameInv, Moves, UnderWay
<1>1. pc'[q] \in Ends => SureOfName(q)
  BY DEF SureOfName, MayName, At, Ends
<1>2. CASE ProgrammeStep(q) \/ Break(q)
  <2>1. UNCHANGED <<cinemas, namers>>
    BY <1>2 DEF ProgrammeStep, Break, ScanMovies, PromoteMovies, ListMovies, FindMovie, UpdateMovie,
       RemoveMovie, CreateMovie, CreateShowtime, ReadHall, InsertShowtime, PromoteMovie,
       CreateSeats, Reject, Answer, OnTo, tables
  <2>2. pc'[q] \in Ends \/ req[q].op \notin {"createCinema", "updateCinema"}
    BY <1>0, <1>2
       DEF ProgrammeStep, Break, ScanMovies, PromoteMovies, ListMovies, FindMovie, UpdateMovie,
       RemoveMovie, CreateMovie, CreateShowtime, ReadHall, InsertShowtime, PromoteMovie,
       CreateSeats, Reject, Answer, Finish, At, ReadsMovies, Ends
  <2>3. SureOfName(q)
    BY <1>0, <1>1, <2>2 DEF Moves, SureOfName, MayName, At
  <2> QED BY <1>0, <2>1, <2>3, SameNames
<1>3. CASE /\ CatalogStep(q)
           /\ \/ req[q].op \notin {"createCinema", "updateCinema", "removeCity", "deleteCinema"}
              \/ FindCity(q)
  <2>1. UNCHANGED <<cinemas, namers>>
    BY <1>3 DEF CatalogStep, CreateCity, InsertCity, FindCity, WriteCity, RemoveCity, CreateCinema,
       FindCinemaName, InsertCinema, FindCinema, FindNewCity, FindNewName, WriteCinema, Placed,
       DeleteCinema, CreateHall, FindHallName, InsertHall, FindHall, DeleteHall, GetHallMatrix,
       WriteMatrix, At, Look, Refuse, tables
  <2>2. req[q].op \notin {"createCinema", "updateCinema"}
    BY <1>3 DEF FindCity, At
  <2>3. SureOfName(q)
    BY <1>0, <1>1, <2>2 DEF Moves, SureOfName, MayName, At
  <2> QED BY <1>0, <2>1, <2>3, SameNames
<1>4. CASE RemoveCity(q) \/ DeleteCinema(q)
  <2>1. namers' = namers /\ pc'[q] \in Ends
    BY <1>0, <1>4 DEF RemoveCity, DeleteCinema, Refuse, Finish, Ends
  <2>2. \A m \in Ids : cinemas'[m] # NoRow => cinemas'[m] = cinemas[m]
    BY <1>0, <1>4 DEF RemoveCity, DeleteCinema, Refuse, Without, tables
  <2> QED BY <1>0, <1>1, <2>1, <2>2 DEF Naming, KeepsName
<1>5. CASE CreateCinema(q) \/ FindNewCity(q)
  <2>1. UNCHANGED <<cinemas, namers>>
    BY <1>5 DEF CreateCinema, FindNewCity, Look, tables
  <2>2. pc'[q] \in Ends \/ (MayName(q)' => MayName(q) /\ req'[q] = req[q])
    BY <1>0, <1>5 DEF CreateCinema, FindNewCity, Look, GoTo, Finish, MayName, At, Ends
  <2>3. SureOfName(q)
    BY <1>1, <2>1, <2>2 DEF SureOfName
  <2> QED BY <1>0, <2>1, <2>3, SameNames
<1>6. CASE FindCinemaName(q) \/ FindNewName(q)
  <2>1. UNCHANGED <<cinemas, namers>>
    BY <1>6 DEF FindCinemaName, FindNewName, Look, tables
  <2>2. pc'[q] \in Ends \/ (/\ req'[q] = req[q]
                          /\ \A m \in RowsOf(cinemas) : m # Target(q) => cinemas[m].name # req[q].name)
    BY <1>0, <1>6 DEF FindCinemaName, FindNewName, Placed, At, Look, GoTo, Finish, Ends, NameTaken,
       Target
  <2>3. SureOfName(q)
    BY <1>1, <2>1, <2>2 DEF SureOfName
  <2> QED BY <1>0, <2>1, <2>3, SameNames
<1>7. CASE FindCinema(q)
  <2>1. UNCHANGED <<cinemas, namers>>
    BY <1>7 DEF FindCinema, tables
  <2>2. CASE cinemas[req[q].id] = NoRow
    BY <1>0, <1>1, <1>7, <2>1, <2>2, SameNames DEF FindCinema, Finish, Ends
  <2>3. CASE cinemas[req[q].id] # NoRow
    <3>1. /\ req[q].op \in {"updateCinema", "deleteCinema"} /\ req' = req
          /\ pc'[q] = "found" /\ read'[q] = cinemas[req[q].id].name
      BY <1>0, <1>7, <2>3 DEF FindCinema, At, GoTo
    <3>2. req[q].id \in Ids
      BY <1>0, <3>1, Arguments
    <3>3. SureOfName(q)
      BY <2>1, <2>3, <3>1, <3>2 DEF SureOfName, MayName, At, Target, RowsOf
    <3> QED BY <1>0, <2>1, <3>3, SameNames
  <2> QED BY <2>2, <2>3
<1>8. CASE InsertCinema(q)
  <2>1. CASE Refuse(q)
    BY <1>0, <1>1, <2>1, SameNames DEF Refuse, Finish, Ends, tables
  <2>2. CASE ~Refuse(q)
    <3>1. /\ MayName(q) /\ Target(q) = q /\ pc'[q] = "ok"
          /\ cinemas' = [cinemas EXCEPT ![q] = [city |-> req[q].city, name |-> req[q].name]]
          /\ namers' = [namers EXCEPT ![q] = @ \cup {q}]
      BY <1>0, <1>8, <2>2 DEF InsertCinema, At, MayName, Target, Finish
    <3>2. Renamed(q, q) /\ \A m \in Ids \ {q} : cinemas'[m] = cinemas[m] /\ namers'[m] = namers[m]
      BY <1>0, <3>1 DEF Renamed
    <3> QED BY <1>0, <1>1, <3>1, <3>2 DEF Naming, KeepsName, Ends, Renamed
  <2> QED BY <2>1, <2>2
<1>9. CASE WriteCinema(q)
  <2>1. CASE Refuse(q)
    BY <1>0, <1>1, <2>1, SameNames DEF Refuse, Finish, Ends, tables
  <2>2. CASE ~Refuse(q)
    <3>1. /\ req[q].op = "updateCinema" /\ cinemas[req[q].id] # NoRow /\ pc'[q] = "ok"
          /\ cinemas' = [cinemas EXCEPT ![req[q].id] =
                           [city |-> Given(req[q].city, cinemas[req[q].id].city),
                            name |-> Given(req[q].name, cinemas[req[q].id].name)]]
          /\ namers' = IF req[q].name = Unset THEN namers
                       ELSE [namers EXCEPT ![req[q].id] = @ \cup {q}]
          /\ req[q].name = Unset \/ MayName(q)
      BY <1>0, <1>9, <2>2 DEF WriteCinema, Placed, Renames, At, MayName, Finish
    <3>2. PICK id \in Ids : id = req[q].id
      BY <1>0, <3>1, Arguments
    <3>3. Target(q) = id
      BY <3>1, <3>2 DEF Target
    <3>4. \A m \in Ids \ {id} : cinemas'[m] = cinemas[m] /\ namers'[m] = namers[m]
      BY <1>0, <3>1, <3>2
    <3>5. CASE req[q].name = Unset
      <4>1. namers' = namers /\ cinemas'[id].name = cinemas[id].name
        BY <1>0, <3>1, <3>2, <3>5 DEF Given
      <4> QED BY <1>0, <1>1, <3>1, <3>2, <3>4, <4>1 DEF Naming, KeepsName, Ends
    <3>6. CASE req[q].name # Unset
      <4>1. /\ namers'[id] = namers[id] \cup {q} /\ cinemas'[id].name = req[q].name
            /\ namers' \in [Ids -> SUBSET Requests]
        BY <1>0, <3>1, <3>2, <3>6 DEF Given
      <4>2. Renamed(q, id)
        BY <3>1, <3>3, <3>6, <4>1 DEF Renamed
      <4> QED BY <1>0, <1>1, <3>1, <3>2, <3>4, <4>1, <4>2 DEF Naming, KeepsName, Ends
    <3> QED BY <3>5, <3>6
  <2> QED BY <2>1, <2>2
<1>10. CASE CatalogStep(q)
  BY <1>3, <1>4, <1>5, <1>6, <1>7, <1>8, <1>9, <1>10
     DEF CatalogStep, CreateCity, InsertCity, WriteCity, CreateHall, FindHallName, InsertHall,
         FindHall, DeleteHall, GetHallMatrix, WriteMatrix, At
<1> QED BY <1>2, <1>10 DEF CatalogueStep

(* Halls: only their creation names them. *)
Named(h, q) == halls[h].cinema = req[q].cinema /\ halls[h].name = req[q].name
MakesHall(q) == At(q, "inserting", {"createHall"})

HallInv ==
  /\ \A h, g \in RowsOf(halls) :
       h # g /\ halls[h].cinema = halls[g].cinema /\ halls[h].name = halls[g].name
         => h \in Requests /\ g \in Requests /\ Met(h, g)
  /\ \A q \in Requests, h \in RowsOf(halls) :
       MakesHall(q) /\ h # q /\ Named(h, q) => h \in Requests /\ Met(h, q)

HallNaming(q) ==
  /\ \A h \in Ids : halls'[h] # NoRow =>
       \/ /\ halls[h] # NoRow
          /\ halls'[h].cinema = halls[h].cinema /\ halls'[h].name = halls[h].name
       \/ /\ h = q /\ MakesHall(q)
          /\ halls'[h].cinema = req[q].cinema /\ halls'[h].name = req[q].name
  /\ MakesHall(q)' =>
       /\ req'[q] = req[q] /\ UNCHANGED halls
       /\ \A h \in RowsOf(halls) : ~Named(h, q)

LEMMA HallNamingSteps ==
  ASSUME ProgrammeInv, NEW q \in Requests, CatalogueStep(q) \/ ProgrammeStep(q) \/ Break(q)
  PROVE  HallNaming(q)
<1>0. /\ pc \in [Requests -> Idle \cup Steps] /\ req \in [Requests -> AnyRequest \cup {NoRequest}]
      /\ halls \in [Ids -> HallRows \cup {NoRow}]
      /\ q \in Ids /\ q \in UnderWay /\ req[q] \in AnyRequest /\ Moves(q)
  BY ProgrammeSteps, IdsOfRequests
     DEF ProgrammeInv, TableInv, TableTypes, HandlerTypes, Moves, UnderWay
<1>1. pc'[q] \in Ends \/ req[q].op # "createHall" => ~MakesHall(q)'
  BY <1>0 DEF MakesHall, At, Ends, Moves
<1>2. CASE UNCHANGED halls /\ ~MakesHall(q)'
  BY <1>2 DEF HallNaming
<1>3. CASE ProgrammeStep(q) \/ Break(q)
  <2>1. UNCHANGED halls
    BY <1>3 DEF ProgrammeStep, Break, ScanMovies, PromoteMovies, ListMovies, FindMovie, UpdateMovie,
       RemoveMovie, CreateMovie, CreateShowtime, ReadHall, InsertShowtime, PromoteMovie,
       CreateSeats, Reject, Answer, OnTo, tables
  <2>2. pc'[q] \in Ends \/ req[q].op # "createHall"
    BY <1>0, <1>3
       DEF ProgrammeStep, Break, ScanMovies, PromoteMovies, ListMovies, FindMovie, UpdateMovie,
       RemoveMovie, CreateMovie, CreateShowtime, ReadHall, InsertShowtime, PromoteMovie,
       CreateSeats, Reject, Answer, Finish, At, ReadsMovies, Ends
  <2> QED BY <1>1, <1>2, <2>1, <2>2
<1>4. CASE \/ CreateCity(q) \/ InsertCity(q) \/ FindCity(q) \/ WriteCity(q)
           \/ CreateCinema(q) \/ FindCinemaName(q) \/ InsertCinema(q)
           \/ FindCinema(q) \/ FindNewCity(q) \/ FindNewName(q) \/ WriteCinema(q)
           \/ FindHall(q) \/ GetHallMatrix(q)
  <2>1. UNCHANGED halls /\ req[q].op # "createHall"
    BY <1>4 DEF CreateCity, InsertCity, FindCity, WriteCity, CreateCinema, FindCinemaName,
       InsertCinema, FindCinema, FindNewCity, FindNewName, WriteCinema, Placed, FindHall,
       GetHallMatrix, At, Look, Refuse, tables
  <2> QED BY <1>1, <1>2, <2>1
<1>5. CASE RemoveCity(q) \/ DeleteCinema(q) \/ DeleteHall(q) \/ WriteMatrix(q)
  <2>1. req[q].op # "createHall"
    BY <1>5 DEF RemoveCity, DeleteCinema, DeleteHall, WriteMatrix, At
  <2>2. \A h \in Ids : halls'[h] # NoRow =>
          /\ halls[h] # NoRow
          /\ halls'[h].cinema = halls[h].cinema /\ halls'[h].name = halls[h].name
    BY <1>0, <1>5 DEF RemoveCity, DeleteCinema, DeleteHall, WriteMatrix, Without, Refuse, tables
  <2> QED BY <1>1, <2>1, <2>2 DEF HallNaming
<1>6. CASE CreateHall(q)
  <2>1. UNCHANGED halls /\ pc'[q] # "inserting"
    BY <1>0, <1>6 DEF CreateHall, Look, GoTo, Finish, tables
  <2> QED BY <1>2, <2>1 DEF MakesHall, At
<1>7. CASE FindHallName(q)
  <2>1. UNCHANGED halls
    BY <1>7 DEF FindHallName, Look, tables
  <2>2. pc'[q] \in Ends \/ (req'[q] = req[q] /\ \A h \in RowsOf(halls) : ~Named(h, q))
    BY <1>0, <1>7 DEF FindHallName, HallNameTaken, HallsOf, Look, GoTo, Finish, Ends, Named
  <2> QED BY <1>1, <2>1, <2>2 DEF HallNaming
<1>8. CASE InsertHall(q)
  <2>1. pc'[q] \in Ends
    BY <1>0, <1>8 DEF InsertHall, Refuse, Finish, Ends
  <2>2. CASE Refuse(q)
    BY <1>1, <1>2, <2>1, <2>2 DEF Refuse, tables
  <2>3. CASE ~Refuse(q)
    BY <1>0, <1>1, <1>8, <2>1, <2>3 DEF InsertHall, MakesHall, At, HallNaming
  <2> QED BY <2>2, <2>3
<1> QED BY <1>3, <1>4, <1>5, <1>6, <1>7, <1>8 DEF CatalogueStep, CatalogStep

LEMMA HallNamingKeeps ==
  ASSUME ProgrammeInv, AllMet, HallInv, NEW q \in Requests, Moves(q), HallNaming(q)
  PROVE  HallInv'
<1>0. /\ pc \in [Requests -> Idle \cup Steps]
      /\ met' = met /\ q \in UnderWay
      /\ \A p \in Requests \ {q} : pc'[p] = pc[p] /\ req'[p] = req[p]
      /\ \A p \in Requests : MakesHall(p) => p \in UnderWay
  BY DEF ProgrammeInv, HandlerTypes, Moves, UnderWay, Idle, MakesHall, At
<1>1. ASSUME NEW h \in RowsOf(halls)', NEW g \in RowsOf(halls)', h # g,
             halls'[h].cinema = halls'[g].cinema, halls'[h].name = halls'[g].name
      PROVE  h \in Requests /\ g \in Requests /\ Met(h, g)'
  BY <1>0, <1>1 DEF HallNaming, HallInv, Named, RowsOf, Met
<1>2. ASSUME NEW p \in Requests, NEW h \in RowsOf(halls)', MakesHall(p)', h # p, Named(h, p)'
      PROVE  h \in Requests /\ Met(h, p)'
  <2>1. CASE p = q
    BY <1>2, <2>1 DEF HallNaming, Named, RowsOf
  <2>2. CASE p # q
    <3>1. req'[p] = req[p] /\ MakesHall(p) /\ p \in UnderWay
      BY <1>0, <1>2, <2>2 DEF MakesHall, At
    <3> QED BY <1>0, <1>2, <2>2, <3>1 DEF HallNaming, HallInv, Named, RowsOf, AllMet, Met
  <2> QED BY <2>1, <2>2
<1> QED BY <1>1, <1>2 DEF HallInv

(* An arrival names nothing yet, and time changes nothing. *)
LEMMA NamesNext ==
  ASSUME ProgrammeInv, AllMet, NameInv, HallInv, [ScheduleNext]_scheduleVars
  PROVE  NameInv' /\ HallInv'
<1>1. ASSUME NEW q \in Requests, CatalogueStep(q) \/ ProgrammeStep(q) \/ Break(q)
      PROVE  NameInv' /\ HallInv'
  BY <1>1, ProgrammeSteps, NamingSteps, NamingKeeps, HallNamingSteps, HallNamingKeeps
<1>2. ASSUME NEW q \in Requests, AskAny(q)
      PROVE  NameInv' /\ HallInv'
  <2>1. /\ \A a, b \in Requests : Met(a, b) => Met(a, b)'
        /\ pc'[q] = "sent" /\ UNCHANGED <<cinemas, halls, namers, read>>
        /\ \A p \in Requests \ {q} : pc'[p] = pc[p] /\ req'[p] = req[p]
    BY <1>2, Arrival DEF tables
  <2>2. /\ RowsOf(cinemas)' = RowsOf(cinemas) /\ RowsOf(cinemas) \subseteq Ids
        /\ RowsOf(halls)' = RowsOf(halls)
    BY <2>1 DEF RowsOf
  <2>3. ASSUME NEW m \in RowsOf(cinemas), NEW n \in RowsOf(cinemas), m # n,
               cinemas[m].name = cinemas[n].name
        PROVE  Raced(namers[m], namers[n])'
    <3>1. Raced(namers[m], namers[n]) /\ m \in Ids /\ n \in Ids
      BY <2>2, <2>3 DEF NameInv
    <3> QED BY <2>1, <3>1 DEF NameInv, Raced
  <2>4. ASSUME NEW p \in Requests, NEW m \in RowsOf(cinemas), MayName(p)', m # Target(p)',
               cinemas[m].name = req'[p].name
        PROVE  Raced(namers[m], namers[Target(p)] \cup {p})'
    <3>1. p # q
      BY <2>1, <2>4 DEF MayName, At
    <3>2. req'[p] = req[p] /\ MayName(p) /\ Target(p)' = Target(p)
      BY <2>1, <2>4, <3>1 DEF MayName, At, Target
    <3>3. Target(p) \in Ids /\ m \in Ids
      BY <2>2, <3>2, AtUnderWay, Arguments, IdsOfRequests
         DEF Target, MayName, At, ProgrammeInv, Steps
    <3>4. Raced(namers[m], namers[Target(p)] \cup {p})
      BY <2>4, <3>2 DEF NameInv
    <3> QED BY <2>1, <3>2, <3>3, <3>4 DEF NameInv, Raced
  <2>5. NameInv'
    BY <2>1, <2>2, <2>3, <2>4 DEF NameInv
  <2>6. ASSUME NEW p \in Requests, NEW h \in RowsOf(halls), MakesHall(p)', h # p, Named(h, p)'
        PROVE  h \in Requests /\ Met(h, p)'
    <3>1. p # q
      BY <2>1, <2>6 DEF MakesHall, At
    <3>2. MakesHall(p) /\ Named(h, p)
      BY <2>1, <2>6, <3>1 DEF MakesHall, At, Named
    <3> QED BY <2>1, <2>6, <3>2 DEF HallInv
  <2>7. \A h, g \in RowsOf(halls)' :
          h # g /\ halls'[h].cinema = halls'[g].cinema /\ halls'[h].name = halls'[g].name
            => h \in Requests /\ g \in Requests /\ Met(h, g)'
    BY <2>1, <2>2 DEF HallInv
  <2>8. HallInv'
    BY <2>2, <2>6, <2>7 DEF HallInv
  <2> QED BY <2>5, <2>8
<1>3. CASE Tick \/ UNCHANGED scheduleVars
  <2>1. UNCHANGED <<cinemas, halls, pc, req, read, met, namers>>
    BY <1>3 DEF Tick, scheduleVars, vars, tables
  <2>2. NameInv'
    BY <2>1 DEF NameInv, MayName, At, Target, Raced, Met, RowsOf
  <2>3. HallInv'
    BY <2>1 DEF HallInv, MakesHall, At, Named, Met, RowsOf
  <2> QED BY <2>2, <2>3
<1> QED BY <1>1, <1>2, <1>3 DEF ScheduleNext

LEMMA NamesAlways == ScheduleSpec => [](ProgrammeInv /\ AllMet /\ NameInv /\ HallInv)
<1>1. ScheduleInit => AllMet /\ NameInv /\ HallInv
  BY IdsOfRequests
     DEF ScheduleInit, Init, Seeded, AllMet, UnderWay, Idle, NameInv, HallInv, RowsOf, MayName,
         MakesHall, At
<1> QED BY <1>1, ProgrammeInit, ProgrammeNext, AllMetSteps, NamesNext, PTL DEF ScheduleSpec

(* Two cinemas, or two halls of a cinema, come to one name only through    *)
(* requests that were under way together: the search of the one came too   *)
(* early to see what the other wrote.                                      *)
THEOREM NameCollisionsAreRaces == ScheduleSpec => []NamesCollideOnlyByRace
<1>1. NameInv /\ HallInv => NamesCollideOnlyByRace
  BY DEF NameInv, HallInv, NamesCollideOnlyByRace, Raced
<1> QED BY <1>1, NamesAlways, PTL
-----------------------------------------------------------------------------
(* Deletion *)

(* The only row that a step of q can add is its own. *)
OnlyAdds(q, old, new) == \A i \in Ids : old[i] = NoRow /\ new[i] # NoRow => i = q

LEMMA RowsAdded ==
  ASSUME ProgrammeInv, NEW q \in Requests, CatalogueStep(q) \/ ProgrammeStep(q) \/ Break(q)
  PROVE  /\ OnlyAdds(q, cities, cities') /\ OnlyAdds(q, cinemas, cinemas')
         /\ OnlyAdds(q, halls, halls') /\ OnlyAdds(q, movies, movies')
<1>0. TableTypes
  BY DEF ProgrammeInv, TableInv
<1>1. CASE CatalogueStep(q)
  <2>1. UNCHANGED movies /\ CatalogStep(q)
    BY <1>1 DEF CatalogueStep
  <2>2. CASE /\ CatalogStep(q)
             /\ ~(\/ InsertCity(q) \/ WriteCity(q) \/ RemoveCity(q) \/ InsertCinema(q)
                  \/ WriteCinema(q) \/ DeleteCinema(q) \/ InsertHall(q) \/ DeleteHall(q)
                  \/ WriteMatrix(q))
    <3>1. UNCHANGED tables
      BY <2>2 DEF CatalogStep, CreateCity, FindCity, CreateCinema, FindCinemaName, FindCinema,
         FindNewCity, FindNewName, CreateHall, FindHallName, FindHall, GetHallMatrix, Look
    <3> QED BY <2>1, <3>1 DEF tables, OnlyAdds
  <2>3. CASE Refuse(q)
    BY <2>1, <2>3 DEF Refuse, tables, OnlyAdds
  <2>4. CASE ~Refuse(q) /\ (InsertCity(q) \/ WriteCity(q))
    BY <1>0, <2>1, <2>4 DEF InsertCity, WriteCity, TableTypes, OnlyAdds
  <2>5. CASE ~Refuse(q) /\ (InsertCinema(q) \/ WriteCinema(q))
    BY <1>0, <2>1, <2>5 DEF InsertCinema, WriteCinema, TableTypes, OnlyAdds
  <2>6. CASE ~Refuse(q) /\ (InsertHall(q) \/ WriteMatrix(q))
    BY <1>0, <2>1, <2>6 DEF InsertHall, WriteMatrix, TableTypes, OnlyAdds
  <2>7. CASE ~Refuse(q) /\ (RemoveCity(q) \/ DeleteCinema(q) \/ DeleteHall(q))
    BY <1>0, <2>1, <2>7 DEF RemoveCity, DeleteCinema, DeleteHall, Without, TableTypes, OnlyAdds
  <2> QED BY <2>1, <2>2, <2>3, <2>4, <2>5, <2>6, <2>7
<1>2. CASE ProgrammeStep(q) \/ Break(q)
  <2>1. UNCHANGED tables
    BY <1>2 DEF ProgrammeStep, Break, ScanMovies, PromoteMovies, ListMovies, FindMovie, UpdateMovie,
       RemoveMovie, CreateMovie, CreateShowtime, ReadHall, InsertShowtime, PromoteMovie,
       CreateSeats, Reject, Answer, OnTo
  <2>2. CASE UNCHANGED movies
    BY <2>1, <2>2 DEF tables, OnlyAdds
  <2>3. CASE ~UNCHANGED movies
    <3>1. \/ PromoteMovies(q) \/ UpdateMovie(q) \/ RemoveMovie(q) \/ CreateMovie(q)
          \/ PromoteMovie(q)
      BY <1>2, <2>3 DEF ProgrammeStep, Break, ScanMovies, ListMovies, FindMovie, CreateShowtime,
         ReadHall, InsertShowtime, CreateSeats, Reject, programme
    <3>2. OnlyAdds(q, movies, movies')
      <4>1. CASE PromoteMovies(q)
        BY <1>0, <4>1 DEF PromoteMovies, TableTypes, OnlyAdds
      <4>2. CASE PromoteMovie(q)
        BY <1>0, <4>2 DEF PromoteMovie, TableTypes, OnlyAdds
      <4>3. CASE UpdateMovie(q) \/ CreateMovie(q)
        BY <1>0, <2>3, <4>3 DEF UpdateMovie, CreateMovie, Reject, programme, TableTypes, OnlyAdds
      <4>4. CASE RemoveMovie(q)
        BY <1>0, <2>3, <4>4 DEF RemoveMovie, Without, Reject, programme, TableTypes, OnlyAdds
      <4> QED BY <3>1, <4>1, <4>2, <4>3, <4>4
    <3>3. OnlyAdds(q, cities, cities') /\ OnlyAdds(q, cinemas, cinemas') /\ OnlyAdds(q, halls, halls')
      BY <2>1 DEF tables, OnlyAdds
    <3> QED BY <3>2, <3>3
  <2> QED BY <2>2, <2>3
<1> QED BY <1>1, <1>2

(* A deleted row stays deleted, whoever has read it before: a row appears  *)
(* only by the request that has its identity, while that is under way.     *)
THEOREM DeletionsAreFinal == ScheduleSpec => DeletedForGood
<1>1. ASSUME ProgrammeInv, [ScheduleNext]_scheduleVars
      PROVE  [~(\/ Returns(cities, cities') \/ Returns(cinemas, cinemas')
                \/ Returns(halls, halls') \/ Returns(movies, movies'))]_scheduleVars
  <2>1. ASSUME NEW q \in Requests, CatalogueStep(q) \/ ProgrammeStep(q) \/ Break(q)
        PROVE  ~(\/ Returns(cities, cities') \/ Returns(cinemas, cinemas')
                 \/ Returns(halls, halls') \/ Returns(movies, movies'))
    <3>1. q \in UnderWay /\ q # 0
      BY <1>1, <2>1, ProgrammeSteps, IdsOfRequests DEF Moves
    <3> QED BY <1>1, <2>1, <3>1, RowsAdded DEF OnlyAdds, Returns
  <2>2. ASSUME UNCHANGED <<tables, movies>>
        PROVE  ~(\/ Returns(cities, cities') \/ Returns(cinemas, cinemas')
                 \/ Returns(halls, halls') \/ Returns(movies, movies'))
    BY <2>2 DEF tables, Returns
  <2> QED BY <1>1, <2>1, <2>2
          DEF ScheduleNext, AskAny, Ask, Tick, vars, programme
<1> QED BY <1>1, ProgrammeAlways, PTL DEF ScheduleSpec, DeletedForGood

-----------------------------------------------------------------------------
(* Layouts *)

(* A new showtime knows the layout that its seats will be made from. *)
Laying(s) == pc[s] \in {"inserting", "promoting", "seating"} /\ req[s].op = "createShowtime"

LayoutInv ==
  /\ \A s \in UnderWay : showtimes[s] # NoRow =>
       req[s].op = "createShowtime" /\ showtimes[s].hall = req[s].hall
  /\ \A s \in Requests :
       /\ Laying(s) /\ halls[req[s].hall] # NoRow
       /\ halls[req[s].hall].matrix # read[s]
       => laid[req[s].hall] \in Requests /\ Met(s, laid[req[s].hall])
  /\ OldLayoutOnlyByUpdate

(* What a request does to seats and layouts: it changes layouts and signs  *)
(* for them, *)
LEMMA LayoutsOfCatalogue ==
  ASSUME ProgrammeInv, NEW q \in Requests, CatalogueStep(q)
  PROVE  /\ \A h \in Ids : halls'[h] # NoRow =>
              (halls'[h] = halls[h] /\ laid'[h] = laid[h]) \/ laid'[h] = q
         /\ \A s \in Ids : showtimes'[s] # NoRow => showtimes'[s] = showtimes[s]
BY DEF CatalogueStep, Cascade

(* or deals with its own showtime. *)
LEMMA LayoutsOfProgramme ==
  ASSUME ProgrammeInv, NEW q \in Requests, ProgrammeStep(q) \/ Break(q)
  PROVE  /\ UNCHANGED <<halls, laid>>
         /\ \A s \in Ids \ {q} : showtimes'[s] # NoRow => showtimes'[s] = showtimes[s]
         /\ \/ showtimes'[q] \in {NoRow, showtimes[q]}
            \/ req[q].op = "createShowtime" /\ showtimes'[q] = RowOf(req[q])
            \/ /\ Laying(q) /\ showtimes[q] # NoRow
               /\ showtimes'[q].hall = showtimes[q].hall /\ showtimes'[q].seats = read[q]
         /\ Laying(q)' =>
              /\ req'[q] = req[q]
              /\ (Laying(q) /\ read'[q] = read[q]) \/ read'[q] = halls[req[q].hall].matrix
<1>0. /\ pc \in [Requests -> Idle \cup Steps] /\ req \in [Requests -> AnyRequest \cup {NoRequest}]
      /\ read \in [Requests -> Values] /\ Moves(q) /\ q \in Ids
      /\ showtimes \in [Ids -> ShowtimeRows \cup {NoRow}]
  BY ProgrammeSteps, IdsOfRequests DEF ProgrammeInv, TableInv, TableTypes, HandlerTypes
<1>1. UNCHANGED <<halls, laid>>
  BY DEF ProgrammeStep, Break, ScanMovies, PromoteMovies, ListMovies, FindMovie, UpdateMovie,
     RemoveMovie, CreateMovie, CreateShowtime, ReadHall, InsertShowtime, PromoteMovie,
     CreateSeats, Reject, Answer, OnTo, tables
<1>2. pc'[q] \in Ends \/ req[q].op # "createShowtime" => ~Laying(q)'
  BY <1>0 DEF Laying, Ends, Moves
<1>3. CASE UNCHANGED showtimes \/ Cascade
  <2>1. \A s \in Ids : showtimes'[s] # NoRow => showtimes'[s] = showtimes[s]
    BY <1>3 DEF Cascade
  <2>2. Laying(q)' =>
          /\ req'[q] = req[q]
          /\ (Laying(q) /\ read'[q] = read[q]) \/ read'[q] = halls[req[q].hall].matrix
    <3>1. CASE \/ pc'[q] \in Ends \/ req[q].op # "createShowtime"
      BY <1>2, <3>1
    <3>2. CASE ~(pc'[q] \in Ends \/ req[q].op # "createShowtime")
      <4>0. ~Reject(q) /\ ~Answer(q, "ok")
        BY <1>0, <3>2 DEF Reject, Answer, Finish, Ends
      <4>1. CreateShowtime(q) \/ ReadHall(q) \/ InsertShowtime(q) \/ PromoteMovie(q)
        BY <3>2, <4>0 DEF ProgrammeStep, Break, ScanMovies, ListMovies, FindMovie, PromoteMovies,
           UpdateMovie, RemoveMovie, CreateMovie, CreateSeats, At, ReadsMovies
      <4>2. CASE CreateShowtime(q)
        BY <1>0, <4>0, <4>2 DEF CreateShowtime, OnTo, GoTo, Laying
      <4>3. CASE ReadHall(q)
        BY <1>0, <4>0, <4>3 DEF ReadHall, OnTo, GoTo, Laying
      <4>4. CASE InsertShowtime(q) \/ PromoteMovie(q)
        BY <1>0, <4>0, <4>4 DEF InsertShowtime, PromoteMovie, OnTo, GoTo, Laying, At
      <4> QED BY <4>1, <4>2, <4>3, <4>4
    <3> QED BY <3>1, <3>2
  <2> QED BY <1>0, <1>1, <2>1, <2>2
<1>4. CASE ~(UNCHANGED showtimes \/ Cascade)
  <2>1. ~Reject(q) /\ (InsertShowtime(q) \/ CreateSeats(q))
    BY <1>4 DEF ProgrammeStep, Break, ScanMovies, PromoteMovies, ListMovies, FindMovie, UpdateMovie,
       RemoveMovie, CreateMovie, CreateShowtime, ReadHall, PromoteMovie, Reject, programme
  <2>2. CASE InsertShowtime(q)
    BY <1>0, <1>1, <2>1, <2>2 DEF InsertShowtime, OnTo, GoTo, Laying, At
  <2>3. CASE CreateSeats(q)
    <3>1. Laying(q) /\ Seats(q) /\ Answer(q, "ok")
      BY <2>1, <2>3 DEF CreateSeats, At, Laying
    <3>2. ~Laying(q)'
      BY <1>0, <1>2, <3>1 DEF Answer, Finish, Ends
    <3>3. showtimes[q] # NoRow /\ showtimes' = [showtimes EXCEPT ![q] = [@ EXCEPT !.seats = read[q]]]
      BY <1>4, <3>1 DEF Seats
    <3>4. /\ showtimes'[q].hall = showtimes[q].hall /\ showtimes'[q].seats = read[q]
          /\ \A s \in Ids \ {q} : showtimes'[s] = showtimes[s]
      BY <1>0, <3>3 DEF ShowtimeRows
    <3> QED BY <1>1, <3>1, <3>2, <3>3, <3>4
  <2> QED BY <2>1, <2>2, <2>3
<1> QED BY <1>3, <1>4

LEMMA MovesLeave ==
  ASSUME HandlerTypes, NEW q \in Requests, Moves(q)
  PROVE  /\ q \in UnderWay /\ met' = met
         /\ \A p \in Requests \ {q} : pc'[p] = pc[p] /\ req'[p] = req[p] /\ read'[p] = read[p]
         /\ UnderWay' \subseteq UnderWay
         /\ q \in UnderWay' => req'[q] = req[q]
<1>0. pc \in [Requests -> Idle \cup Steps] /\ req \in [Requests -> AnyRequest \cup {NoRequest}]
  BY DEF HandlerTypes
<1>1. CASE \E to \in Steps : pc' = [pc EXCEPT ![q] = to] /\ UNCHANGED req
  BY <1>0, <1>1 DEF Moves, UnderWay
<1>2. CASE \E to \in Ends : pc' = [pc EXCEPT ![q] = to] /\ req' = [req EXCEPT ![q] = NoRequest]
  BY <1>0, <1>2 DEF Moves, UnderWay, Idle, Ends
<1> QED BY <1>1, <1>2 DEF Moves

LEMMA LayoutNext ==
  ASSUME ProgrammeInv, SlotInv, AllMet, LayoutInv, [ScheduleNext]_scheduleVars
  PROVE  LayoutInv'
<1>0. /\ pc \in [Requests -> Idle \cup Steps] /\ laid \in [Ids -> Ids]
      /\ Requests \subseteq Ids /\ ReferencesHold /\ ReferencesHold'
      /\ showtimes \in [Ids -> ShowtimeRows \cup {NoRow}]
      /\ showtimes' \in [Ids -> ShowtimeRows \cup {NoRow}]
  BY ProgrammeNext, IdsOfRequests
     DEF ProgrammeInv, TableInv, TableTypes, HandlerTypes, OtherTypes
<1>hall. ASSUME NEW s \in Requests, Laying(s) PROVE req[s].hall \in Ids /\ s \in UnderWay
  BY <1>hall, AtUnderWay, Arguments DEF Laying, Steps, ProgrammeInv
<1>1. ASSUME NEW q \in Requests, CatalogueStep(q)
      PROVE  LayoutInv'
  <2>0. /\ q \in UnderWay /\ met' = met /\ req[q].op \in CatalogOps
        /\ \A p \in Requests \ {q} : pc'[p] = pc[p] /\ req'[p] = req[p] /\ read'[p] = read[p]
        /\ UnderWay' \subseteq UnderWay /\ ~Laying(q)'
        /\ q \in UnderWay' => req'[q] = req[q]
    BY <1>0, <1>1, CatalogueSteps
       DEF Moves, UnderWay, Idle, Ends, Laying, CatalogOps, ProgrammeInv, HandlerTypes
  <2>1. \A s \in Ids : showtimes'[s] # NoRow => showtimes'[s] = showtimes[s]
    BY <1>1, LayoutsOfCatalogue
  <2>2. \A h \in Ids : halls'[h] # NoRow =>
          (halls'[h] = halls[h] /\ laid'[h] = laid[h]) \/ laid'[h] = q
    BY <1>1, LayoutsOfCatalogue
  <2>3. \A s \in UnderWay' : showtimes'[s] # NoRow =>
          req'[s].op = "createShowtime" /\ showtimes'[s].hall = req'[s].hall
    BY <1>0, <2>0, <2>1 DEF LayoutInv, UnderWay
  <2>4. ASSUME NEW s \in Requests, Laying(s)', halls'[req'[s].hall] # NoRow,
               halls'[req'[s].hall].matrix # read'[s]
        PROVE  laid'[req'[s].hall] \in Requests /\ Met(s, laid[req[s].hall])'
    <3>1. s # q /\ Laying(s) /\ req'[s] = req[s] /\ read'[s] = read[s]
      BY <2>0, <2>4 DEF Laying
    <3>2. PICK h \in Ids : h = req[s].hall
      BY <1>hall, <3>1
    <3>3. CASE laid'[h] = q
      BY <1>hall, <2>0, <3>1, <3>2, <3>3 DEF AllMet, Met
    <3>4. CASE halls'[h] = halls[h] /\ laid'[h] = laid[h]
      BY <2>0, <2>4, <3>1, <3>2, <3>4 DEF LayoutInv, Met
    <3> QED BY <2>2, <2>4, <3>1, <3>2, <3>3, <3>4
  <2>5. ASSUME NEW s \in Ids, showtimes'[s] # NoRow,
               showtimes'[s].seats \notin {NoRow, halls'[showtimes'[s].hall].matrix}
        PROVE  \/ laid'[showtimes'[s].hall] > s
               \/ {s, laid'[showtimes'[s].hall]} \subseteq Requests
                  /\ Met(s, laid[showtimes[s].hall])'
    <3>1. PICK h \in Ids : h = showtimes[s].hall /\ showtimes'[s] = showtimes[s]
                           /\ halls'[h] # NoRow
      BY <1>0, <2>1, <2>5 DEF ReferencesHold, RowsOf, ShowtimeRows
    <3>2. CASE halls'[h] = halls[h] /\ laid'[h] = laid[h]
      <4>1. laid[h] > s \/ ({s, laid[h]} \subseteq Requests /\ Met(s, laid[h]))
        BY <2>5, <3>1, <3>2 DEF LayoutInv, OldLayoutOnlyByUpdate, RowsOf
      <4> QED BY <2>0, <3>1, <3>2, <4>1 DEF Met
    <3>3. CASE laid'[h] = q
      <4>1. CASE s = 0
        BY <3>1, <3>3, <4>1, MaxRequestsAssumption DEF Requests
      <4>2. CASE s # 0 /\ s < q
        BY <3>1, <3>3, <4>2, IdsOfRequests
      <4>3. CASE s # 0 /\ ~(s < q)
        <5>1. s \in Requests
          BY <4>3, MaxRequestsAssumption DEF Ids, Requests
        <5>2. s # q
          BY <2>0, <2>5, <3>1 DEF LayoutInv, CatalogOps
        <5>3. q < s
          BY <4>3, <5>1, <5>2, IdsOfRequests
        <5>4. pc[s] # "idle" /\ pc[q] \notin Ends
          BY <2>0, <2>5, <3>1, <5>1 DEF SlotInv, UnderWay, Idle, Ends
        <5>5. q \in met[s]
          BY <5>1, <5>3, <5>4 DEF SlotInv, Ahead
        <5> QED BY <2>0, <3>1, <3>3, <5>1, <5>5 DEF Met
      <4> QED BY <4>1, <4>2, <4>3
    <3> QED BY <2>2, <3>1, <3>2, <3>3
  <2>6. OldLayoutOnlyByUpdate'
    BY <2>5 DEF OldLayoutOnlyByUpdate, RowsOf
  <2> QED BY <2>3, <2>4, <2>6 DEF LayoutInv
<1>2. ASSUME NEW q \in Requests, ProgrammeStep(q) \/ Break(q)
      PROVE  LayoutInv'
  <2>0. /\ q \in UnderWay /\ met' = met
        /\ \A p \in Requests \ {q} : pc'[p] = pc[p] /\ req'[p] = req[p] /\ read'[p] = read[p]
        /\ UnderWay' \subseteq UnderWay
        /\ q \in UnderWay' => req'[q] = req[q]
    BY <1>2, ProgrammeSteps, MovesLeave DEF ProgrammeInv
  <2>1. /\ UNCHANGED <<halls, laid>>
        /\ \A s \in Ids \ {q} : showtimes'[s] # NoRow => showtimes'[s] = showtimes[s]
        /\ \/ showtimes'[q] \in {NoRow, showtimes[q]}
           \/ req[q].op = "createShowtime" /\ showtimes'[q] = RowOf(req[q])
           \/ /\ Laying(q) /\ showtimes[q] # NoRow
              /\ showtimes'[q].hall = showtimes[q].hall /\ showtimes'[q].seats = read[q]
        /\ Laying(q)' =>
             /\ req'[q] = req[q]
             /\ (Laying(q) /\ read'[q] = read[q]) \/ read'[q] = halls[req[q].hall].matrix
    BY <1>2, LayoutsOfProgramme
  <2>3. \A s \in UnderWay' : showtimes'[s] # NoRow =>
          req'[s].op = "createShowtime" /\ showtimes'[s].hall = req'[s].hall
    BY <1>0, <2>0, <2>1 DEF LayoutInv, UnderWay, RowOf
  <2>4. ASSUME NEW s \in Requests, Laying(s)', halls'[req'[s].hall] # NoRow,
               halls'[req'[s].hall].matrix # read'[s]
        PROVE  laid'[req'[s].hall] \in Requests /\ Met(s, laid[req[s].hall])'
    <3>1. Laying(s) /\ req'[s] = req[s] /\ read'[s] = read[s]
      BY <2>0, <2>1, <2>4 DEF Laying
    <3> QED BY <2>0, <2>1, <2>4, <3>1 DEF LayoutInv, Met
  <2>5. ASSUME NEW s \in Ids, showtimes'[s] # NoRow,
               showtimes'[s].seats \notin {NoRow, halls'[showtimes'[s].hall].matrix}
        PROVE  \/ laid'[showtimes'[s].hall] > s
               \/ {s, laid'[showtimes'[s].hall]} \subseteq Requests
                  /\ Met(s, laid[showtimes[s].hall])'
    <3>1. CASE showtimes'[s] = showtimes[s]
      <4>1. \/ laid[showtimes[s].hall] > s
            \/ {s, laid[showtimes[s].hall]} \subseteq Requests /\ Met(s, laid[showtimes[s].hall])
        BY <2>1, <2>5, <3>1 DEF LayoutInv, OldLayoutOnlyByUpdate, RowsOf
      <4> QED BY <2>0, <2>1, <3>1, <4>1 DEF Met
    <3>2. CASE /\ s = q /\ Laying(q) /\ showtimes[q] # NoRow
               /\ showtimes'[q].hall = showtimes[q].hall /\ showtimes'[q].seats = read[q]
      <4>1. PICK h \in Ids : h = req[q].hall
        BY <1>hall, <3>2
      <4>2. showtimes[q].hall = h
        BY <2>0, <3>2, <4>1 DEF LayoutInv
      <4>3. halls[h] # NoRow
        BY <1>0, <3>2, <4>2 DEF ReferencesHold, RowsOf
      <4>4. laid[h] \in Requests /\ Met(q, laid[h])
        BY <2>1, <2>5, <3>2, <4>1, <4>2, <4>3 DEF LayoutInv
      <4> QED BY <2>0, <2>1, <3>2, <4>2, <4>4 DEF Met
    <3>3. CASE s = q /\ showtimes'[q] = RowOf(req[q])
      BY <2>5, <3>3 DEF RowOf
    <3> QED BY <2>1, <2>5, <3>1, <3>2, <3>3
  <2>6. OldLayoutOnlyByUpdate'
    BY <2>5 DEF OldLayoutOnlyByUpdate, RowsOf
  <2> QED BY <2>3, <2>4, <2>6 DEF LayoutInv
<1>3. ASSUME NEW q \in Requests, AskAny(q)
      PROVE  LayoutInv'
  <2>1. /\ \A a, b \in Requests : Met(a, b) => Met(a, b)'
        /\ pc[q] = "idle" /\ pc'[q] = "sent" /\ UNCHANGED <<halls, showtimes, read, laid>>
        /\ \A p \in Requests \ {q} : pc'[p] = pc[p] /\ req'[p] = req[p]
    BY <1>3, Arrival DEF tables, programme
  <2>2. showtimes[q] = NoRow
    BY <2>1 DEF SlotInv
  <2>3. \A s \in UnderWay' : showtimes'[s] # NoRow =>
          req'[s].op = "createShowtime" /\ showtimes'[s].hall = req'[s].hall
    BY <2>1, <2>2 DEF LayoutInv, UnderWay
  <2>4. ASSUME NEW s \in Requests, Laying(s)', halls'[req'[s].hall] # NoRow,
               halls'[req'[s].hall].matrix # read'[s]
        PROVE  laid'[req'[s].hall] \in Requests /\ Met(s, laid[req[s].hall])'
    <3>1. s # q /\ Laying(s) /\ req'[s] = req[s]
      BY <2>1, <2>4 DEF Laying
    <3>2. laid[req[s].hall] \in Requests /\ Met(s, laid[req[s].hall])
      BY <2>1, <2>4, <3>1 DEF LayoutInv
    <3>3. PICK l \in Requests : l = laid[req[s].hall]
      BY <3>2
    <3>4. Met(s, l)'
      BY <2>1, <3>2, <3>3
    <3> QED BY <2>1, <3>1, <3>3, <3>4 DEF Met
  <2>5. OldLayoutOnlyByUpdate'
    <3> SUFFICES ASSUME NEW s \in RowsOf(showtimes)',
                        showtimes'[s].seats \notin {NoRow, halls'[showtimes'[s].hall].matrix}
                 PROVE  \/ laid'[showtimes'[s].hall] > s
                        \/ /\ {s, laid'[showtimes'[s].hall]} \subseteq Requests
                           /\ Met(s, laid[showtimes[s].hall])'
        BY DEF OldLayoutOnlyByUpdate
    <3>1. PICK l : l = laid[showtimes[s].hall]
      OBVIOUS
    <3>2. l > s \/ ({s, l} \subseteq Requests /\ Met(s, l))
      BY <2>1, <3>1 DEF LayoutInv, OldLayoutOnlyByUpdate, RowsOf
    <3>3. l > s \/ ({s, l} \subseteq Requests /\ Met(s, l)')
      BY <2>1, <3>2
    <3> QED BY <2>1, <3>1, <3>3 DEF Met
  <2> QED BY <2>3, <2>4, <2>5 DEF LayoutInv
<1>4. CASE Tick \/ UNCHANGED scheduleVars
  <2>1. UNCHANGED <<halls, showtimes, pc, req, read, met, laid>>
    BY <1>4 DEF Tick, scheduleVars, vars, tables, programme
  <2> QED BY <2>1 DEF LayoutInv, Laying, UnderWay, OldLayoutOnlyByUpdate, Met, RowsOf
<1> QED BY <1>1, <1>2, <1>3, <1>4 DEF ScheduleNext

LEMMA LayoutAlways == ScheduleSpec => []LayoutInv
<1>1. ScheduleInit => LayoutInv
  BY IdsOfRequests
     DEF ScheduleInit, Init, Seeded, LayoutInv, Laying, UnderWay, Idle, OldLayoutOnlyByUpdate, RowsOf
<1> QED BY <1>1, SlotAlways, NamesAlways, LayoutNext, PTL DEF ScheduleSpec

(* A showtime has the seats of its hall's layout, unless the layout was    *)
(* changed after the showtime was asked for: it reads the layout some      *)
(* statements before it makes the seats from it.                           *)
THEOREM OldLayoutsAreRaces == ScheduleSpec => []OldLayoutOnlyByUpdate
BY LayoutAlways, PTL DEF LayoutInv

-----------------------------------------------------------------------------
(* The status of a movie *)

Promoting(q) == At(q, "promoting", ReadsMovies)

StatusInv ==
  /\ \A m \in Ids : styled[m] \in Requests => pc[styled[m]] \in Ends
  /\ \A q \in Requests, m \in Ids :
       /\ Promoting(q) /\ m \in listed[q]
       /\ movies[m] # NoRow /\ movies[m].status = "SNEAK_SHOW"
       => styled[m] \in Requests /\ Met(styled[m], q)

(* What a step of q makes of movie m. *)
Kept(m) == movies'[m] = movies[m] /\ styled'[m] = styled[m]
Styled(q, m) == styled'[m] = q /\ pc'[q] \in Ends
Promoted(q, m) ==
  /\ movies[m] # NoRow /\ movies'[m].status = "NOW_SHOWING" /\ styled'[m] = styled[m]
  /\ movies[m].status = "COMING_SOON" \/ (Promoting(q) /\ m \in listed[q] /\ pc'[q] # pc[q])

LEMMA StatusSteps ==
  ASSUME ProgrammeInv, NEW q \in Requests, CatalogueStep(q) \/ ProgrammeStep(q) \/ Break(q)
  PROVE  /\ \A m \in Ids : \/ movies'[m] = NoRow /\ styled'[m] = styled[m]
                          \/ Kept(m) \/ Styled(q, m) \/ Promoted(q, m)
         /\ \A p \in Requests \ {q} : listed'[p] = listed[p]
         /\ Promoting(q)' => /\ UNCHANGED <<movies, styled>>
                             /\ \A m \in listed'[q] : movies[m].status = "COMING_SOON"
<1>0. /\ pc \in [Requests -> Idle \cup Steps] /\ req \in [Requests -> AnyRequest \cup {NoRequest}]
      /\ Moves(q) /\ q \in Ids /\ req[q] \in AnyRequest /\ listed \in [Requests -> SUBSET Ids]
      /\ movies \in [Ids -> MovieRows \cup {NoRow}] /\ styled \in [Ids -> Ids]
  BY ProgrammeSteps, IdsOfRequests
     DEF ProgrammeInv, TableInv, TableTypes, HandlerTypes, OtherTypes, Moves, UnderWay
<1>1. pc'[q] \in Ends \/ req[q].op \notin ReadsMovies => ~Promoting(q)'
  BY <1>0 DEF Promoting, At, Ends, Moves, ReadsMovies
<1>2. Reject(q) \/ Answer(q, "ok") => pc'[q] \in Ends /\ \A p \in Requests \ {q} : listed'[p] = listed[p]
  BY <1>0 DEF Reject, Answer, Finish, Forget, Ends
<1>3. CASE UNCHANGED <<movies, styled>> /\ ~Promoting(q)' /\ \A p \in Requests \ {q} : listed'[p] = listed[p]
  BY <1>3 DEF Kept
<1>4. CASE Reject(q)
  BY <1>1, <1>2, <1>3, <1>4 DEF Reject, programme
<1>5. CASE CatalogueStep(q)
  <2>1. UNCHANGED <<movies, styled, listed>> /\ req[q].op \notin ReadsMovies
    BY <1>5, CatalogueSteps DEF CatalogueStep, CatalogOps, ReadsMovies, locals
  <2> QED BY <1>1, <1>3, <2>1
<1>6. CASE ~Reject(q) /\ (CreateShowtime(q) \/ ReadHall(q) \/ InsertShowtime(q) \/ CreateSeats(q))
  <2>1. /\ UNCHANGED <<movies, styled>> /\ req[q].op \notin ReadsMovies
        /\ \A p \in Requests \ {q} : listed'[p] = listed[p]
    BY <1>2, <1>6 DEF CreateShowtime, ReadHall, InsertShowtime, CreateSeats, At, ReadsMovies, programme,
       locals
  <2> QED BY <1>1, <1>3, <2>1
<1>7. CASE PromoteMovie(q)
  <2>1. /\ UNCHANGED <<listed, styled>> /\ req[q].op \notin ReadsMovies
        /\ \A m \in Ids : Kept(m) \/ Promoted(q, m)
    BY <1>0, <1>7 DEF PromoteMovie, At, ReadsMovies, locals, Kept, Promoted
  <2> QED BY <1>1, <2>1
<1>8. CASE ScanMovies(q)
  <2>1. /\ UNCHANGED <<movies, styled>>
        /\ listed' = [listed EXCEPT ![q] = {m \in RowsOf(movies) : Started(m)}]
    BY <1>8 DEF ScanMovies, programme
  <2>2. \A m \in listed'[q] : movies[m].status = "COMING_SOON"
    BY <1>0, <2>1 DEF Started
  <2> QED BY <1>0, <2>1, <2>2 DEF Kept
<1>9. CASE PromoteMovies(q)
  <2>1. /\ Promoting(q) /\ UNCHANGED <<listed, styled>> /\ pc'[q] = "scanned"
        /\ \A m \in Ids : Kept(m) \/ Promoted(q, m)
    BY <1>0, <1>9 DEF PromoteMovies, At, OnTo, GoTo, locals, Kept, Promoted, Promoting
  <2>2. ~Promoting(q)'
    BY <2>1 DEF Promoting, At
  <2> QED BY <2>1, <2>2
<1>10. CASE ~Reject(q) /\ (ListMovies(q) \/ FindMovie(q))
  <2>1. /\ UNCHANGED <<movies, styled>> /\ pc'[q] # "promoting"
        /\ \A p \in Requests \ {q} : listed'[p] = listed[p]
    BY <1>0, <1>2, <1>10 DEF ListMovies, FindMovie, OnTo, GoTo, programme, locals, Ends
  <2> QED BY <1>3, <2>1 DEF Promoting, At
<1>11. CASE ~Reject(q) /\ (UpdateMovie(q) \/ CreateMovie(q))
  <2>1. Answer(q, "ok")
    BY <1>11 DEF UpdateMovie, CreateMovie
  <2>2. \A m \in Ids : Kept(m) \/ Styled(q, m)
    <3>1. CASE CreateMovie(q)
      BY <1>0, <1>2, <1>11, <2>1, <3>1 DEF CreateMovie, Kept, Styled
    <3>2. CASE UpdateMovie(q) /\ req[q].status # Unset
      BY <1>0, <1>2, <1>11, <2>1, <3>2 DEF UpdateMovie, Kept, Styled
    <3>3. CASE UpdateMovie(q) /\ req[q].status = Unset
      <4>1. /\ movies[req[q].id] # NoRow /\ styled' = styled
            /\ movies' = [movies EXCEPT ![req[q].id] = [status |-> movies[req[q].id].status]]
        BY <1>11, <3>3 DEF UpdateMovie, Given
      <4>2. req[q].id \in Ids
        BY <1>0, <3>3, Arguments DEF UpdateMovie, At
      <4>3. movies[req[q].id] = [status |-> movies[req[q].id].status]
        BY <1>0, <4>1, <4>2 DEF MovieRows
      <4> QED BY <1>0, <4>1, <4>2, <4>3 DEF Kept
    <3> QED BY <1>11, <3>1, <3>2, <3>3
  <2> QED BY <1>1, <1>2, <2>1, <2>2
<1>12. CASE ~Reject(q) /\ RemoveMovie(q)
  <2>1. /\ Answer(q, "ok") /\ styled' = styled
        /\ \A m \in Ids : movies'[m] \in {NoRow, movies[m]}
    BY <1>12 DEF RemoveMovie, Without
  <2> QED BY <1>1, <1>2, <2>1 DEF Kept
<1> QED BY <1>4, <1>5, <1>6, <1>7, <1>8, <1>9, <1>10, <1>11, <1>12 DEF ProgrammeStep, Break

LEMMA StatusNext ==
  ASSUME ProgrammeInv, AllMet, StatusInv, [ScheduleNext]_scheduleVars
  PROVE  StatusInv'
<1>0. /\ pc \in [Requests -> Idle \cup Steps] /\ styled \in [Ids -> Ids]
  BY DEF ProgrammeInv, HandlerTypes, OtherTypes
<1>1. ASSUME NEW q \in Requests, CatalogueStep(q) \/ ProgrammeStep(q) \/ Break(q)
      PROVE  StatusInv'
  <2>0. /\ q \in UnderWay /\ met' = met /\ pc[q] \notin Ends
        /\ \A p \in Requests \ {q} : pc'[p] = pc[p] /\ req'[p] = req[p] /\ listed'[p] = listed[p]
    BY <1>1, ProgrammeSteps, MovesLeave, StatusSteps DEF ProgrammeInv, UnderWay, Idle, Ends
  <2>1. \A m \in Ids : \/ movies'[m] = NoRow /\ styled'[m] = styled[m]
                       \/ Kept(m) \/ Styled(q, m) \/ Promoted(q, m)
    BY <1>1, StatusSteps
  <2>2. Promoting(q)' => /\ UNCHANGED <<movies, styled>>
                         /\ \A m \in listed'[q] : movies[m].status = "COMING_SOON"
    BY <1>1, StatusSteps
  <2>3. \A m \in Ids : styled'[m] \in Requests => pc'[styled'[m]] \in Ends
    BY <2>0, <2>1 DEF StatusInv, Kept, Styled, Promoted
  <2>4. ASSUME NEW p \in Requests, NEW m \in Ids, Promoting(p)', m \in listed'[p],
               movies'[m] # NoRow, movies'[m].status = "SNEAK_SHOW"
        PROVE  styled'[m] \in Requests /\ Met(styled[m], p)'
    <3>1. p # q
      BY <2>2, <2>4
    <3>2. Promoting(p) /\ m \in listed[p] /\ p \in UnderWay
      BY <2>0, <2>4, <3>1 DEF Promoting, At, UnderWay, Idle
    <3>3. CASE Kept(m)
      BY <2>0, <2>4, <3>2, <3>3 DEF StatusInv, Kept, Met
    <3>4. CASE Styled(q, m)
      BY <2>0, <3>1, <3>2, <3>4 DEF Styled, AllMet, Met
    <3> QED BY <2>1, <2>4, <3>3, <3>4 DEF Promoted
  <2> QED BY <2>3, <2>4 DEF StatusInv
<1>2. ASSUME NEW q \in Requests, AskAny(q)
      PROVE  StatusInv'
  <2>1. /\ \A a, b \in Requests : Met(a, b) => Met(a, b)'
        /\ pc[q] = "idle" /\ pc'[q] = "sent" /\ UNCHANGED <<movies, listed, styled>>
        /\ \A p \in Requests \ {q} : pc'[p] = pc[p] /\ req'[p] = req[p]
    BY <1>2, Arrival DEF programme
  <2>2. \A m \in Ids : styled'[m] \in Requests => pc'[styled'[m]] \in Ends
    BY <2>1 DEF StatusInv, Ends
  <2>3. ASSUME NEW p \in Requests, NEW m \in Ids, Promoting(p)', m \in listed'[p],
               movies'[m] # NoRow, movies'[m].status = "SNEAK_SHOW"
        PROVE  styled'[m] \in Requests /\ Met(styled[m], p)'
    <3>1. Promoting(p)
      BY <2>1, <2>3 DEF Promoting, At
    <3>2. styled[m] \in Requests /\ Met(styled[m], p)
      BY <2>1, <2>3, <3>1 DEF StatusInv
    <3>3. PICK s \in Requests : s = styled[m] /\ Met(s, p)
      BY <3>2
    <3>4. Met(s, p)'
      BY <2>1, <3>3
    <3> QED BY <2>1, <3>3, <3>4 DEF Met
  <2> QED BY <2>2, <2>3 DEF StatusInv
<1>3. CASE Tick \/ UNCHANGED scheduleVars
  <2>1. UNCHANGED <<movies, listed, styled, pc, req, met>>
    BY <1>3 DEF Tick, scheduleVars, vars, programme, locals
  <2> QED BY <2>1 DEF StatusInv, Promoting, At, Met
<1> QED BY <1>1, <1>2, <1>3 DEF ScheduleNext

LEMMA StatusAlways == ScheduleSpec => [](ProgrammeInv /\ StatusInv)
<1>1. ScheduleInit => StatusInv
  BY IdsOfRequests DEF ScheduleInit, Init, StatusInv, Promoting, At
<1> QED BY <1>1, NamesAlways, StatusNext, PTL DEF ScheduleSpec

(* A status that an administrator chose gives way to NOW_SHOWING only when *)
(* it says that the movie is to come, or when he chose it between the two  *)
(* statements of the request that overwrites it.                           *)
THEOREM LostStatusIsRace == ScheduleSpec => StatusLostOnlyByRace
<1> DEFINE Lost(m) ==
      /\ movies[m] # NoRow /\ movies[m].status = "SNEAK_SHOW"
      /\ movies'[m] = [status |-> "NOW_SHOWING"] /\ styled'[m] = styled[m]
           Race(m) ==
      \E q \in Requests : /\ pc[q] = "promoting" /\ pc'[q] # pc[q]
                          /\ styled[m] \in Requests /\ Met(styled[m], q)
<1>1. ASSUME ProgrammeInv, StatusInv, [ScheduleNext]_scheduleVars
      PROVE  [\A m \in Ids : Lost(m) => Race(m)]_scheduleVars
  <2> SUFFICES ASSUME ScheduleNext, NEW m \in Ids, Lost(m) PROVE Race(m)
      BY <1>1
  <2>1. ASSUME NEW q \in Requests, CatalogueStep(q) \/ ProgrammeStep(q) \/ Break(q)
        PROVE  Race(m)
    <3>1. Promoting(q) /\ m \in listed[q] /\ pc'[q] # pc[q]
      <4>1. \/ movies'[m] = NoRow /\ styled'[m] = styled[m]
            \/ Kept(m) \/ Styled(q, m) \/ Promoted(q, m)
        BY <1>1, <2>1, StatusSteps
      <4>2. movies'[m] # NoRow /\ movies'[m] # movies[m]
        <5>1. [status |-> "NOW_SHOWING"] # NoRow
          BY RowsAreRecords DEF MovieRows, Statuses
        <5>2. [status |-> "NOW_SHOWING"].status = "NOW_SHOWING"
          OBVIOUS
        <5> QED BY <5>1, <5>2
      <4>3. ~Styled(q, m)
        <5>1. q \in UnderWay
          BY <1>1, <2>1, ProgrammeSteps DEF Moves
        <5> QED BY <1>1, <5>1 DEF StatusInv, Styled, UnderWay, Idle, Ends
      <4> QED BY <4>1, <4>2, <4>3 DEF Kept, Promoted
    <3> QED BY <1>1, <3>1 DEF StatusInv, Promoting, At
  <2>2. movies' # movies
    <3>1. [status |-> "NOW_SHOWING"].status = "NOW_SHOWING"
      OBVIOUS
    <3> QED BY <3>1
  <2> QED BY <2>1, <2>2 DEF ScheduleNext, AskAny, Tick, programme
<1> QED BY <1>1, StatusAlways, PTL DEF ScheduleSpec, StatusLostOnlyByRace
=============================================================================
