-------------------------------- MODULE Catalog -------------------------------
(***************************************************************************)
(* The catalogue that administrators keep: cities (CityService), cinemas   *)
(* and their halls (CinemaService), over the tables of the schema with     *)
(* their foreign keys and cascades.                                        *)
(*                                                                         *)
(* A handler is a sequence of single statements with awaits between them   *)
(* and no transaction, so one step here is one statement with the code up  *)
(* to the next await; handlers interleave between steps.  Request q is one *)
(* use of a route; a row that q inserts has the identity q, and rows of    *)
(* the seed have the identity 0.  Names stand for their classes under      *)
(* trim and upper case.                                                    *)
(*                                                                         *)
(* Definitions named ...Bug are slips that mutation runs put in place of   *)
(* the definition that follows them.                                       *)
(***************************************************************************)
EXTENDS Naturals, FiniteSets

CONSTANTS
  MaxRequests,   \* bound on the requests
  Menus,         \* bound: the sets of routes from which one behaviour draws its requests
  Codes, Names, Matrices,
  SeedCode, SeedName, SeedMatrix,   \* of the seeded rows
  NoRow, NoRequest, Unset

ASSUME MaxRequestsAssumption == MaxRequests \in Nat
ASSUME SeedAssumption ==
  SeedCode \in Codes /\ SeedName \in Names /\ SeedMatrix \in Matrices
ASSUME UnsetAssumption == Unset \notin Nat /\ Unset \notin Names /\ Unset \notin Codes

Requests == 1..MaxRequests
Ids == 0..MaxRequests

VARIABLES
  cities, cinemas, halls,  \* the tables: a row or NoRow for each identity
  menu,    \* the routes that are used
  pc,      \* pc[q]: where request q is
  req,     \* req[q]: its operation and arguments
  read,    \* read[q]: what it has read and will use
  met,     \* history: met[q] were under way when q arrived
  namers   \* history: namers[c] wrote the name of cinema c

tables == <<cities, cinemas, halls>>
vars == <<tables, menu, pc, req, read, met, namers>>

CityRows == [code : Codes]
CinemaRows == [city : Ids, name : Names]
HallRows == [cinema : Ids, name : Names, matrix : Matrices]

RowsOf(table) == {i \in Ids : table[i] # NoRow}

CityRequests(cs) ==
  [op : {"createCity"}, code : Codes]
    \cup [op : {"updateCity"}, id : cs, code : Codes \cup {Unset}]
    \cup [op : {"removeCity"}, id : cs]

CinemaRequests(cs, ms) ==
  [op : {"createCinema"}, city : cs, name : Names]
    \cup [op : {"updateCinema"}, id : ms, city : cs \cup {Unset}, name : Names \cup {Unset}]
    \cup [op : {"deleteCinema"}, id : ms]

HallRequests(ms, hs) ==
  [op : {"createHall"}, cinema : ms, name : Names, matrix : Matrices]
    \cup [op : {"deleteHall"}, id : hs]

MatrixRequests(hs) == [op : {"updateHallMatrix"}, id : hs, matrix : Matrices]

CatalogRequests(cs, ms, hs) ==
  CityRequests(cs) \cup CinemaRequests(cs, ms) \cup HallRequests(ms, hs) \cup MatrixRequests(hs)

ASSUME NoRowAssumption ==
  NoRow \notin CityRows \cup CinemaRows \cup HallRows \cup Matrices
ASSUME CatalogRequestAssumption == NoRequest \notin CatalogRequests(Ids, Ids, Ids)

Seeded(row) == [i \in Ids |-> IF i = 0 THEN row ELSE NoRow]

Init ==
  /\ cities = Seeded([code |-> SeedCode])
  /\ cinemas = Seeded([city |-> 0, name |-> SeedName])
  /\ halls = Seeded([cinema |-> 0, name |-> SeedName, matrix |-> SeedMatrix])
  /\ menu \in Menus
  /\ pc = [q \in Requests |-> "idle"]
  /\ req = [q \in Requests |-> NoRequest]
  /\ read = [q \in Requests |-> NoRow]
  /\ met = [q \in Requests |-> {}]
  /\ namers = [c \in Ids |-> {}]
-----------------------------------------------------------------------------
Idle == {"idle", "ok", "refused"}
UnderWay == {q \in Requests : pc[q] \notin Idle}

(* The admin pages name rows that they have listed; a row may be gone by   *)
(* the time the request is served.                                         *)
Ask(q, r) ==
  /\ pc[q] = "idle" /\ \A p \in 1..(q - 1) : pc[p] # "idle"
  /\ r.op \in menu
  /\ pc' = [pc EXCEPT ![q] = "sent"]
  /\ req' = [req EXCEPT ![q] = r]
  /\ met' = [met EXCEPT ![q] = UnderWay]
  /\ UNCHANGED <<tables, menu, read, namers>>

At(q, step, ops) == pc[q] = step /\ req[q].op \in ops

GoTo(q, step) ==
  /\ pc' = [pc EXCEPT ![q] = step]
  /\ UNCHANGED <<menu, req, met>>

(* The handler returns or throws; its locals are gone. *)
Finish(q, answer) ==
  /\ pc' = [pc EXCEPT ![q] = answer]
  /\ req' = [req EXCEPT ![q] = NoRequest]
  /\ read' = [read EXCEPT ![q] = NoRow]
  /\ UNCHANGED <<menu, met>>

Refuse(q) == Finish(q, "refused") /\ UNCHANGED <<tables, namers>>

(* A statement that only looks: the handler goes on, or throws. *)
Look(q, fine, step) ==
  /\ IF fine THEN GoTo(q, step) /\ UNCHANGED read ELSE Finish(q, "refused")
  /\ UNCHANGED <<tables, namers>>
-----------------------------------------------------------------------------
(* Cities *)

CodeTaken(code, but) == \E c \in RowsOf(cities) \ but : cities[c].code = code

CreateCity(q) ==
  At(q, "sent", {"createCity"}) /\ Look(q, ~CodeTaken(req[q].code, {}), "inserting")

(* The unique code refuses a second city. *)
InsertCity(q) ==
  /\ At(q, "inserting", {"createCity"})
  /\ IF CodeTaken(req[q].code, {})
     THEN Refuse(q)
     ELSE /\ cities' = [cities EXCEPT ![q] = [code |-> req[q].code]]
          /\ Finish(q, "ok")
          /\ UNCHANGED <<cinemas, halls, namers>>

FindCity(q) ==
  /\ At(q, "sent", {"updateCity", "removeCity"})
  /\ Look(q, cities[req[q].id] # NoRow, "found")

WriteCityBug(q) ==
  /\ At(q, "found", {"updateCity"})
  /\ req[q].code # Unset /\ ~CodeTaken(req[q].code, {req[q].id})
  /\ cities' = [cities EXCEPT ![req[q].id] = [code |-> req[q].code]]
  /\ Finish(q, "ok")
  /\ UNCHANGED <<cinemas, halls, namers>>

WriteCity(q) ==
  /\ At(q, "found", {"updateCity"})
  /\ LET code == req[q].code IN
     IF cities[req[q].id] = NoRow \/ (code # Unset /\ CodeTaken(code, {req[q].id}))
     THEN Refuse(q)
     ELSE /\ cities' = IF code = Unset THEN cities
                       ELSE [cities EXCEPT ![req[q].id] = [code |-> code]]
          /\ Finish(q, "ok")
          /\ UNCHANGED <<cinemas, halls, namers>>

CinemasOf(cs) == {m \in RowsOf(cinemas) : cinemas[m].city \in cs}
HallsOf(ms) == {h \in RowsOf(halls) : halls[h].cinema \in ms}
Without(table, is) == [i \in Ids |-> IF i \in is THEN NoRow ELSE table[i]]

RemoveCity(q) ==
  /\ At(q, "found", {"removeCity"})
  /\ IF cities[req[q].id] = NoRow
     THEN Refuse(q)
     ELSE /\ cities' = Without(cities, {req[q].id})
          /\ cinemas' = Without(cinemas, CinemasOf({req[q].id}))
          /\ halls' = Without(halls, HallsOf(CinemasOf({req[q].id})))
          /\ Finish(q, "ok")
          /\ UNCHANGED namers
-----------------------------------------------------------------------------
(* Cinemas *)

NameTaken(name, but) == \E m \in RowsOf(cinemas) \ but : cinemas[m].name = name

CreateCinema(q) ==
  At(q, "sent", {"createCinema"}) /\ Look(q, cities[req[q].city] # NoRow, "found")

FindCinemaName(q) ==
  At(q, "found", {"createCinema"}) /\ Look(q, ~NameTaken(req[q].name, {}), "inserting")

(* Only the foreign key is checked by the database. *)
InsertCinema(q) ==
  /\ At(q, "inserting", {"createCinema"})
  /\ IF cities[req[q].city] = NoRow
     THEN Refuse(q)
     ELSE /\ cinemas' = [cinemas EXCEPT ![q] = [city |-> req[q].city, name |-> req[q].name]]
          /\ namers' = [namers EXCEPT ![q] = @ \cup {q}]
          /\ Finish(q, "ok")
          /\ UNCHANGED <<cities, halls>>

FindCinema(q) ==
  /\ At(q, "sent", {"updateCinema", "deleteCinema"})
  /\ IF cinemas[req[q].id] = NoRow
     THEN Finish(q, "refused")
     ELSE /\ GoTo(q, "found")
          /\ read' = [read EXCEPT ![q] = cinemas[req[q].id].name]
  /\ UNCHANGED <<tables, namers>>

FindNewCity(q) ==
  /\ At(q, "found", {"updateCinema"}) /\ req[q].city # Unset
  /\ Look(q, cities[req[q].city] # NoRow, "placed")

Placed(q) ==
  \/ At(q, "placed", {"updateCinema"})
  \/ At(q, "found", {"updateCinema"}) /\ req[q].city = Unset

FindNewName(q) ==
  /\ Placed(q) /\ req[q].name # Unset
  /\ Look(q, ~NameTaken(req[q].name, {req[q].id}), "named")

RenamesBug(q) == FALSE
(* The name is searched when it differs from the one that was read; a      *)
(* spelling of that one in other letters differs too.                      *)
Renames(q) == req[q].name # Unset /\ req[q].name # read[q]

Given(value, old) == IF value = Unset THEN old ELSE value

WriteCinema(q) ==
  LET id == req[q].id IN
  /\ At(q, "named", {"updateCinema"}) \/ (Placed(q) /\ ~Renames(q))
  /\ IF cinemas[id] = NoRow \/ (req[q].city # Unset /\ cities[req[q].city] = NoRow)
     THEN Refuse(q)
     ELSE /\ cinemas' = [cinemas EXCEPT ![id] =
                           [city |-> Given(req[q].city, cinemas[id].city),
                            name |-> Given(req[q].name, cinemas[id].name)]]
          /\ namers' = IF req[q].name = Unset THEN namers
                       ELSE [namers EXCEPT ![id] = @ \cup {q}]
          /\ Finish(q, "ok")
          /\ UNCHANGED <<cities, halls>>

DeleteCinemaBug(q) ==
  /\ At(q, "found", {"deleteCinema"})
  /\ cinemas' = Without(cinemas, {req[q].id})
  /\ Finish(q, "ok")
  /\ UNCHANGED <<cities, halls, namers>>

DeleteCinema(q) ==
  /\ At(q, "found", {"deleteCinema"})
  /\ IF cinemas[req[q].id] = NoRow
     THEN Refuse(q)
     ELSE /\ cinemas' = Without(cinemas, {req[q].id})
          /\ halls' = Without(halls, HallsOf({req[q].id}))
          /\ Finish(q, "ok")
          /\ UNCHANGED <<cities, namers>>
-----------------------------------------------------------------------------
(* Halls *)

HallNameTaken(m, name) == \E h \in HallsOf({m}) : halls[h].name = name

CreateHall(q) ==
  At(q, "sent", {"createHall"}) /\ Look(q, cinemas[req[q].cinema] # NoRow, "found")

FindHallName(q) ==
  /\ At(q, "found", {"createHall"})
  /\ Look(q, ~HallNameTaken(req[q].cinema, req[q].name), "inserting")

InsertHall(q) ==
  /\ At(q, "inserting", {"createHall"})
  /\ IF cinemas[req[q].cinema] = NoRow
     THEN Refuse(q)
     ELSE /\ halls' = [halls EXCEPT ![q] =
                         [cinema |-> req[q].cinema, name |-> req[q].name,
                          matrix |-> req[q].matrix]]
          /\ Finish(q, "ok")
          /\ UNCHANGED <<cities, cinemas, namers>>

FindHall(q) ==
  At(q, "sent", {"deleteHall"}) /\ Look(q, halls[req[q].id] # NoRow, "found")

DeleteHall(q) ==
  /\ At(q, "found", {"deleteHall"})
  /\ IF halls[req[q].id] = NoRow
     THEN Refuse(q)
     ELSE /\ halls' = Without(halls, {req[q].id})
          /\ Finish(q, "ok")
          /\ UNCHANGED <<cities, cinemas, namers>>

GetHallMatrix(q) ==
  At(q, "sent", {"updateHallMatrix"}) /\ Look(q, halls[req[q].id] # NoRow, "found")

WriteMatrix(q) ==
  LET h == req[q].id IN
  /\ At(q, "found", {"updateHallMatrix"})
  /\ IF halls[h] = NoRow
     THEN Refuse(q)
     ELSE /\ halls' = [halls EXCEPT ![h] =
                         [cinema |-> halls[h].cinema, name |-> halls[h].name,
                          matrix |-> req[q].matrix]]
          /\ Finish(q, "ok")
          /\ UNCHANGED <<cities, cinemas, namers>>
-----------------------------------------------------------------------------
CatalogStep(q) ==
  \/ CreateCity(q) \/ InsertCity(q) \/ FindCity(q) \/ WriteCity(q) \/ RemoveCity(q)
  \/ CreateCinema(q) \/ FindCinemaName(q) \/ InsertCinema(q)
  \/ FindCinema(q) \/ FindNewCity(q) \/ FindNewName(q) \/ WriteCinema(q) \/ DeleteCinema(q)
  \/ CreateHall(q) \/ FindHallName(q) \/ InsertHall(q)
  \/ FindHall(q) \/ DeleteHall(q) \/ GetHallMatrix(q) \/ WriteMatrix(q)

-----------------------------------------------------------------------------
(* Properties *)

Met(p, q) == p \in met[q] \/ q \in met[p]

(* No constraint keeps names apart, only searches before the writes: two   *)
(* cinemas have one name only if a request that named the one and a        *)
(* request that named the other were under way together, and two halls of  *)
(* a cinema only if the requests that created them were.                   *)
NamesCollideOnlyByRace ==
  /\ \A m, n \in RowsOf(cinemas) :
       m # n /\ cinemas[m].name = cinemas[n].name
         => \E p \in namers[m], q \in namers[n] : Met(p, q)
  /\ \A h, g \in RowsOf(halls) :
       h # g /\ halls[h].cinema = halls[g].cinema /\ halls[h].name = halls[g].name
         => h \in Requests /\ g \in Requests /\ Met(h, g)

Returns(old, new) ==
  \E i \in Ids : old[i] = NoRow /\ new[i] # NoRow /\ (i = 0 \/ i \notin UnderWay)
=============================================================================
