------------------------------ MODULE AdminPages ------------------------------
(***************************************************************************)
(* The pages with which an admin maintains a table: showtimes, films,      *)
(* cinemas, users and cities.  They have one pattern.  A page fetches its  *)
(* list, sends a form to the server, and fetches again when the server     *)
(* says yes.  When a call fails, whatever the reason, most of them take    *)
(* the server for switched off: they show a list of their own, or do what  *)
(* was asked in their own copy of the list, and report success.  The page  *)
(* of films keeps such a copy in the browser's storage (useMovieStore).    *)
(* Fetches are not numbered or cancelled, dialogs stay open while a form   *)
(* is sent, so answers come in any order and forms may be sent twice.      *)
(***************************************************************************)
EXTENDS Integers, Sequences, SequencesExt

CONSTANTS
  Ids,         \* keys of rows that the table may hold
  Sample,      \* keys of the rows that a page has built in
  Values,      \* what a row says: for cities its display order, for showtimes its slot
  Absent,      \* "no such row"
  MaxRequests, \* bound on the forms sent
  MaxFetches   \* bound on the fetches under way

ASSUME AdminAssumption ==
  /\ 0 \in Values /\ Absent \notin Values
  /\ Ids \cap Sample = {}
  /\ \A r \in 1..MaxRequests : <<"new", r>> \notin Ids \cup Sample
  /\ MaxRequests \in Nat /\ MaxFetches \in Nat \ {0}

Requests == 1..MaxRequests

VARIABLES
  page,      \* which of the pages is open
  table,     \* server: table[id] is the row, or Absent
  rows,      \* the list that the page holds
  loading,   \* the page shows "Loading" in place of its list
  selected,  \* the row whose dialog was opened last
  halls,     \* the halls that the dialog of a cinema lists
  stored,    \* the films in the browser's storage
  fetches,   \* fetches under way in the order they were sent, with their answers
  request,   \* request[r]: the r-th form that was sent
  failed,    \* history: some call of this page failed
  foundNone, \* history: the page of films was served an empty list
  foreign,   \* history: the table changed while it was not this page's request
  overtaken  \* history: some fetch was answered before an earlier one

history == <<failed, foundNone, foreign, overtaken>>
vars == <<page, table, rows, loading, selected, halls, stored, fetches, request, history>>

(* A row that the page made up for request r has a key of its own. *)
Invented == {<<"new", r>> : r \in Requests}
Keys == Ids \cup Sample \cup Invented
Lists == [Keys -> Values \cup {Absent}]

Pages == {"showtimes", "movies", "cinemas", "users", "cities"}
Of(list) == [k \in Keys |-> IF k \in Ids THEN list[k] ELSE Absent]
Nothing == [k \in Keys |-> Absent]
Form == [pc |-> "idle", form |-> "none", key |-> Absent, value |-> Absent]
Fetch == [served |-> FALSE, list |-> Nothing]
SampleList == [k \in Keys |-> IF k \in Sample THEN 0 ELSE Absent]
Has(list, k) == list[k] # Absent

Init ==
  /\ page \in Pages
  /\ table \in [Ids -> {0, Absent}]
  /\ rows = Nothing /\ loading = TRUE /\ selected = Absent /\ halls = {}
  /\ stored = SampleList
  /\ fetches = << Fetch >>
  /\ request = [r \in Requests |-> Form]
  /\ failed = FALSE /\ foundNone = FALSE /\ foreign = FALSE /\ overtaken = FALSE
-----------------------------------------------------------------------------
(* Fetching the list *)

Fetches(n) == [i \in 1..n |-> Fetch]

ServeFetch(i) ==
  /\ i \in DOMAIN fetches /\ ~fetches[i].served
  /\ fetches' = [fetches EXCEPT ![i] = [served |-> TRUE, list |-> Of(table)]]
  /\ UNCHANGED <<page, table, rows, loading, selected, halls, stored, request, history>>

Arrived(i) == i \in DOMAIN fetches /\ fetches[i].served

(* The promise of the i-th fetch settles. *)
Settled(i) ==
  /\ i \in DOMAIN fetches
  /\ fetches' = RemoveAt(fetches, i)
  /\ UNCHANGED <<page, table, selected, halls, stored, request, foreign>>

Overtakes(i) == overtaken' = (overtaken \/ i > 1)

Show(i) ==
  /\ rows' = fetches[i].list
  /\ Overtakes(i)
  /\ UNCHANGED <<failed, foundNone>>

FallBack(list) == rows' = list /\ failed' = TRUE /\ UNCHANGED <<foundNone, overtaken>>

(* Three pages show a list of their own when the fetch fails. *)
ListOrSample(i) ==
  /\ Settled(i)
  /\ loading' = FALSE
  /\ \/ Arrived(i) /\ Show(i)
     \/ FallBack(SampleList)

fetchData(i) == page = "showtimes" /\ ListOrSample(i)
fetchCinemas(i) == page = "cinemas" /\ ListOrSample(i)
fetchUsers(i) == page = "users" /\ ListOrSample(i)

(* The page of cities keeps what it has. *)
fetchCities(i) ==
  /\ page = "cities"
  /\ Settled(i)
  /\ loading' = FALSE
  /\ \/ Arrived(i) /\ Show(i)
     \/ FallBack(rows)

(* The page of films takes the copy in the browser's storage for the list  *)
(* when the fetch fails, and also when the server says that there are no   *)
(* films.  Only the copy ends the page's "Loading".                        *)
ShowStored(i) ==
  /\ rows' = stored /\ foundNone' = TRUE
  /\ Overtakes(i)
  /\ UNCHANGED failed

fetchMovies(i) ==
  /\ page = "movies"
  /\ Settled(i)
  /\ \/ Arrived(i) /\ fetches[i].list # Nothing /\ Show(i) /\ UNCHANGED loading
     \/ Arrived(i) /\ fetches[i].list = Nothing /\ ShowStored(i) /\ loading' = FALSE
     \/ FallBack(stored) /\ loading' = FALSE
-----------------------------------------------------------------------------
(* Forms *)

Unsent(r) == request[r].pc = "idle" /\ \A q \in Requests : q < r => request[q].pc # "idle"

(* The button of a row opens a dialog on it, which stays whatever happens  *)
(* to the list.  While the list is not shown, neither are its buttons.     *)
Open(key) ==
  /\ page # "showtimes"
  /\ ~loading /\ Has(rows, key)
  /\ selected' = key
  /\ halls' = IF page = "cinemas" THEN {rows[key]} ELSE halls
  /\ UNCHANGED <<page, table, rows, loading, stored, fetches, request, history>>

Submit(r, form, key, value) ==
  /\ Unsent(r)
  /\ request' = [request EXCEPT ![r] = [pc |-> "sent", form |-> form, key |-> key, value |-> value]]
  /\ UNCHANGED <<page, table, rows, loading, selected, halls, stored, fetches, history>>

Add(r, value) == Submit(r, "add", <<"new", r>>, value)
Edit(r, key, value) == key = selected /\ Submit(r, "edit", key, value)
Delete(r, key) == key = selected /\ Submit(r, "delete", key, 0)

(* Two pages look for a conflict in the list they hold: of the slots of    *)
(* showtimes, of the display order of cities, where 0 is no order at all.  *)
Clash(key, value) == \E k \in Keys \ {key} : Has(rows, k) /\ rows[k] = value

handleAddShowtime(r, value) ==
  page = "showtimes" /\ ~Clash(<<"new", r>>, value) /\ Add(r, value)

handleAddMovie(r, value) == page = "movies" /\ Add(r, value)
handleEditMovie(r, key, value) == page = "movies" /\ Edit(r, key, value)
handleDeleteMovie(r, key) == page = "movies" /\ Delete(r, key)

handleAddCinema(r, value) == page = "cinemas" /\ Add(r, value)
(* A new hall is an edit of its cinema. *)
handleAddHall(r, key, value) == page = "cinemas" /\ Edit(r, key, value)

handleSubmitRole(r, key, value) == page = "users" /\ Edit(r, key, value)
handleSubmitMembership(r, key, value) ==
  page = "users" /\ key = selected /\ Submit(r, "membership", key, value)
confirmDeleteUser(r, key) == page = "users" /\ Delete(r, key)

(* The page of cities shows nothing at all while it loads. *)
handleSubmitCity(r, key, value) ==
  /\ page = "cities" /\ ~loading
  /\ value # 0 => ~Clash(key, value)
  /\ IF key = <<"new", r>> THEN Add(r, value) ELSE Edit(r, key, value)
confirmDeleteCity(r, key) == page = "cities" /\ Delete(r, key)

DoneBug(list, form, key, value) ==
  CASE form = "add" -> [list EXCEPT ![key] = value]
    [] form \in {"edit", "membership"} -> [list EXCEPT ![key] = IF @ = Absent THEN @ ELSE key]
    [] form = "delete" -> [list EXCEPT ![key] = Absent]

(* What a form does to a list *)
Done(list, form, key, value) ==
  CASE form = "add" -> [list EXCEPT ![key] = value]
    [] form \in {"edit", "membership"} -> [list EXCEPT ![key] = IF @ = Absent THEN @ ELSE value]
    [] form = "delete" -> [list EXCEPT ![key] = Absent]

Answered(r, pc) == request' = [request EXCEPT ![r].pc = pc]

(* The server does what it is asked if it has the row; nothing serves the  *)
(* form of memberships.  The answer may be lost. *)
Serve(r) ==
  LET q == request[r] IN
  /\ q.pc = "sent"
  /\ \E id \in Ids, pc \in {"yes", "no"} :
       /\ q.form # "membership"
       /\ IF q.form = "add" THEN table[id] = Absent ELSE id = q.key /\ table[id] # Absent
       /\ table' = Done(table, q.form, id, q.value)
       /\ Answered(r, pc)
  /\ UNCHANGED <<page, rows, loading, selected, halls, stored, fetches, history>>

(* The server refuses, or is not there. *)
Refuse(r) ==
  /\ request[r].pc = "sent"
  /\ Answered(r, "no")
  /\ UNCHANGED <<page, table, rows, loading, selected, halls, stored, fetches, history>>

(* useMovieStore's addMovie, updateMovie and deleteMovie *)
Store(form, key, value) == stored' = Done(stored, form, key, value)

RefetchesBug(form) == 0

(* After a success the page fetches its list; the page of films does so    *)
(* once more when its copy has changed, since that triggers its effect.    *)
Refetches(form) == IF page = "movies" /\ form # "add" THEN 2 ELSE 1

(* The page of showtimes hides its list until the answer comes. *)
Send(n) ==
  /\ Len(fetches) + n <= MaxFetches
  /\ fetches' = fetches \o Fetches(n)
  /\ loading' = (loading \/ page = "showtimes")

(* After success and failure alike the dialog lists the new hall,          *)
(* whichever cinema it shows by then.                                      *)
ListHall(form, value) ==
  halls' = IF page = "cinemas" /\ form = "edit" THEN halls \cup {value} ELSE halls

FormDoneBug(r) ==
  LET q == request[r] IN
  /\ q.pc = "yes"
  /\ request' = [request EXCEPT ![r] = [Form EXCEPT !.pc = "done"]]
  /\ Send(Refetches(q.form))
  /\ rows' = Done(rows, q.form, q.key, q.value)
  /\ IF page = "movies" THEN Store(q.form, q.key, q.value) ELSE UNCHANGED stored
  /\ ListHall(q.form, q.value)
  /\ UNCHANGED <<page, table, selected, history>>

FormDone(r) ==
  LET q == request[r] IN
  /\ q.pc = "yes"
  /\ request' = [request EXCEPT ![r] = [Form EXCEPT !.pc = "done"]]
  /\ Send(Refetches(q.form))
  /\ IF page = "movies" /\ q.form # "add" THEN Store(q.form, q.key, q.value) ELSE UNCHANGED stored
  /\ ListHall(q.form, q.value)
  /\ UNCHANGED <<page, table, rows, selected, history>>

(* All pages but that of cities then do it themselves, and report success. *)
FormFails(r) ==
  LET q == request[r] IN
  /\ q.pc = "no"
  /\ request' = [request EXCEPT ![r] = [Form EXCEPT !.pc = "done"]]
  /\ failed' = TRUE
  /\ IF page = "cities" THEN UNCHANGED <<rows, loading, fetches, stored>>
     ELSE /\ rows' = Done(rows, q.form, q.key, q.value)
          /\ IF page = "movies" THEN Store(q.form, q.key, q.value) /\ Send(1)
             ELSE UNCHANGED <<stored, loading, fetches>>
  /\ ListHall(q.form, q.value)
  /\ UNCHANGED <<page, table, selected, foundNone, foreign, overtaken>>

(* Other admins, and for showtimes and films the start of a film's run *)
Elsewhere(id, value) ==
  /\ table' = [table EXCEPT ![id] = value]
  /\ foreign' = TRUE
  /\ UNCHANGED <<page, rows, loading, selected, halls, stored, fetches, request, failed, foundNone, overtaken>>

Fetching(i) ==
  \/ ServeFetch(i)
  \/ fetchData(i) \/ fetchMovies(i) \/ fetchCinemas(i) \/ fetchUsers(i) \/ fetchCities(i)

Adding(r, value) == handleAddShowtime(r, value) \/ handleAddMovie(r, value) \/ handleAddCinema(r, value)

Editing(r, key, value) ==
  \/ handleEditMovie(r, key, value) \/ handleAddHall(r, key, value)
  \/ handleSubmitRole(r, key, value) \/ handleSubmitMembership(r, key, value)
  \/ handleSubmitCity(r, key, value)

Deleting(r, key) == handleDeleteMovie(r, key) \/ confirmDeleteUser(r, key) \/ confirmDeleteCity(r, key)

Next ==
  \/ \E i \in 1..MaxFetches : Fetching(i)
  \/ \E key \in Keys : Open(key)
  \/ \E r \in Requests :
       \/ \E value \in Values : Adding(r, value)
       \/ \E key \in Keys : Deleting(r, key)
       \/ \E key \in Keys, value \in Values : Editing(r, key, value)
       \/ Serve(r) \/ Refuse(r) \/ FormDone(r) \/ FormFails(r)
  \/ \E id \in Ids, value \in Values \cup {Absent} : Elsewhere(id, value)

Spec == Init /\ [][Next]_vars
-----------------------------------------------------------------------------
(* Properties *)

(* Every variable holds a value of its kind. *)
TypeOK ==
  /\ page \in Pages
  /\ table \in [Ids -> Values \cup {Absent}]
  /\ rows \in Lists /\ stored \in Lists /\ loading \in BOOLEAN
  /\ selected \in Keys \cup {Absent} /\ halls \subseteq Values
  /\ Len(fetches) <= MaxFetches
  /\ \A i \in DOMAIN fetches : fetches[i] \in [served : BOOLEAN, list : Lists]
  /\ request \in [Requests -> [pc : {"idle", "sent", "yes", "no", "done"},
                               form : {"none", "add", "edit", "membership", "delete"},
                               key : Keys \cup {Absent}, value : Values \cup {Absent}]]
  /\ failed \in BOOLEAN /\ foundNone \in BOOLEAN /\ foreign \in BOOLEAN /\ overtaken \in BOOLEAN

(* Where rows that no table ever held come from.  One that the page made   *)
(* up for a form is there only after a call failed, and one that it has    *)
(* built in also when the server has no films; the page of cities has      *)
(* neither.                                                                *)
InventedHasACause ==
  /\ (\E k \in Invented : Has(rows, k)) => failed /\ page # "cities"
  /\ (\E k \in Sample : Has(rows, k)) =>
       \/ failed /\ page # "cities"
       \/ foundNone /\ page = "movies"

(* What a page up to date holds *)
Current == IF page = "movies" /\ Of(table) = Nothing THEN stored ELSE Of(table)

(* When nothing is under way, the page holds what the table holds, or the  *)
(* browser's copy where there are no films, unless a call failed, fetches  *)
(* were answered in another order than they were sent, or somebody else    *)
(* changed the table: every success is followed by a fetch that sees it,   *)
(* however forms and fetches overlap.                                      *)
CurrentAtRest ==
  fetches = << >> /\ ~failed /\ ~foreign /\ ~overtaken
    /\ (\A r \in Requests : request[r].pc \in {"idle", "done"})
    => rows = Current
=============================================================================
