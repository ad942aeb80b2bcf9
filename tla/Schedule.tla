------------------------------- MODULE Schedule -------------------------------
(***************************************************************************)
(* The programme: movies (MovieService) and showtimes with their seats     *)
(* (ShowtimeService.create), next to the catalogue whose rows they hang    *)
(* on.  Deleting a city, a cinema, a hall or a movie takes its showtimes   *)
(* with it.  Steps and identities are those of Catalog; `now` is the       *)
(* clock, in units at which two readings of it differ.                     *)
(***************************************************************************)
EXTENDS Catalog

CONSTANTS
  MaxNow,     \* bound on the clock
  Times,      \* when showtimes are asked to start
  Lengths,    \* and for how long to run
  SeedStart, SeedLength,   \* of the seeded showtime
  Buffer,     \* the half hour that cleaning a hall takes
  Bare,       \* the layouts without a seat
  Broken      \* the layouts whose seats cannot be stored: one seat twice, or without a name

ASSUME TimesAssumption == Times \cup Lengths \cup {SeedStart, SeedLength, Buffer, MaxNow} \subseteq Nat
ASSUME LayoutsAssumption == Bare \cup Broken \subseteq Matrices

VARIABLES
  movies, showtimes,  \* the tables
  now,                \* the clock
  listed,    \* listed[q]: the movies that autoUpdateMovieStatuses of q found
  promotes,  \* promotes[q]: the new showtime of q starts by the `now` it read
  laid,      \* history: laid[h] wrote the layout of hall h last
  styled     \* history: styled[m] wrote the status of movie m last

programme == <<movies, showtimes>>
locals == <<listed, promotes>>
scheduleVars == <<vars, programme, now, locals, laid, styled>>

Statuses == {"COMING_SOON", "NOW_SHOWING", "SNEAK_SHOW"}
MovieRows == [status : Statuses]
ShowtimeRows == [movie : Ids, cinema : Ids, hall : Ids, start : Nat, end : Nat,
                 seats : Matrices \cup {NoRow}]   \* the layout they were made from

MovieRequests(fs) ==
  [op : {"createMovie"}, status : Statuses \cup {Unset}]
    \cup [op : {"updateMovie"}, id : fs, status : Statuses \cup {Unset}]
    \cup [op : {"removeMovie", "findMovie"}, id : fs]
    \cup [op : {"listMovies"}]

ShowtimeRequests(fs, ms, hs) ==
  [op : {"createShowtime"}, movie : fs, cinema : ms, hall : hs, start : Times, length : Lengths]

ProgrammeRequests(fs, ms, hs) == MovieRequests(fs) \cup ShowtimeRequests(fs, ms, hs)

ASSUME NoProgrammeRowAssumption == NoRow \notin MovieRows \cup ShowtimeRows
ASSUME ProgrammeRequestAssumption == NoRequest \notin ProgrammeRequests(Ids, Ids, Ids)

ScheduleInit ==
  /\ Init
  /\ movies = Seeded([status |-> "COMING_SOON"])
  /\ showtimes = Seeded([movie |-> 0, cinema |-> 0, hall |-> 0, start |-> SeedStart,
                         end |-> SeedStart + SeedLength, seats |-> SeedMatrix])
  /\ now = 0
  /\ listed = [q \in Requests |-> {}]
  /\ promotes = [q \in Requests |-> FALSE]
  /\ laid = [h \in Ids |-> 0]
  /\ styled = [m \in Ids |-> 0]
-----------------------------------------------------------------------------
(* Showtimes hang on a movie, a cinema and a hall. *)
Hanging(s) ==
  /\ movies'[s.movie] # NoRow /\ cinemas'[s.cinema] # NoRow /\ halls'[s.hall] # NoRow

(* What a deletion leaves of them. *)
Cascade ==
  showtimes' = [i \in Ids |-> IF showtimes[i] # NoRow /\ Hanging(showtimes[i])
                              THEN showtimes[i] ELSE NoRow]

(* Forget what q held; part of its last step. *)
Forget(q) ==
  /\ listed' = [listed EXCEPT ![q] = {}]
  /\ promotes' = [promotes EXCEPT ![q] = FALSE]

Answer(q, answer) ==
  Finish(q, answer) /\ Forget(q) /\ UNCHANGED <<tables, now, namers, laid>>

Reject(q) == Answer(q, "refused") /\ UNCHANGED <<programme, styled>>

OnTo(q, step) == GoTo(q, step) /\ UNCHANGED <<tables, now, namers, laid>>
-----------------------------------------------------------------------------
(* Movies *)

ReadsMovies == {"listMovies", "findMovie", "updateMovie", "removeMovie"}

Started(m) ==
  /\ movies[m].status = "COMING_SOON"
  /\ \E s \in RowsOf(showtimes) : showtimes[s].movie = m /\ showtimes[s].start <= now

(* autoUpdateMovieStatuses, first statement *)
ScanMovies(q) ==
  LET due == {m \in RowsOf(movies) : Started(m)} IN
  /\ At(q, "sent", ReadsMovies)
  /\ OnTo(q, IF due = {} THEN "scanned" ELSE "promoting")
  /\ listed' = [listed EXCEPT ![q] = due]
  /\ UNCHANGED <<read, promotes, programme, styled>>

(* and second: the movies are named by their identities alone. *)
PromoteMovies(q) ==
  /\ At(q, "promoting", ReadsMovies)
  /\ OnTo(q, "scanned")
  /\ movies' = [m \in Ids |-> IF m \in listed[q] /\ movies[m] # NoRow
                              THEN [status |-> "NOW_SHOWING"] ELSE movies[m]]
  /\ UNCHANGED <<read, locals, showtimes, styled>>

ListMovies(q) ==
  At(q, "scanned", {"listMovies"}) /\ Answer(q, "ok") /\ UNCHANGED <<programme, styled>>

(* findOne, on its own and at the head of update and remove. *)
FindMovie(q) ==
  /\ At(q, "scanned", {"findMovie", "updateMovie", "removeMovie"})
  /\ IF movies[req[q].id] = NoRow
     THEN Reject(q)
     ELSE IF req[q].op = "findMovie"
     THEN Answer(q, "ok") /\ UNCHANGED <<programme, styled>>
     ELSE OnTo(q, "found") /\ UNCHANGED <<read, locals, programme, styled>>

UpdateMovieBug(q) ==
  /\ At(q, "found", {"updateMovie"})
  /\ movies' = [movies EXCEPT ![req[q].id] = [status |-> req[q].status]]
  /\ styled' = [styled EXCEPT ![req[q].id] = q]
  /\ Answer(q, "ok")
  /\ UNCHANGED showtimes

(* A release date in the past is refused; so is a movie that is gone.      *)
UpdateMovie(q) ==
  LET m == req[q].id IN
  /\ At(q, "found", {"updateMovie"})
  /\ \/ Reject(q)
     \/ /\ movies[m] # NoRow
        /\ movies' = [movies EXCEPT ![m] = [status |-> Given(req[q].status, movies[m].status)]]
        /\ styled' = IF req[q].status = Unset THEN styled ELSE [styled EXCEPT ![m] = q]
        /\ Answer(q, "ok")
        /\ UNCHANGED showtimes

RemoveMovie(q) ==
  /\ At(q, "found", {"removeMovie"})
  /\ IF movies[req[q].id] = NoRow
     THEN Reject(q)
     ELSE /\ movies' = Without(movies, {req[q].id})
          /\ Answer(q, "ok")
          /\ UNCHANGED styled
          /\ Cascade

CreateMovie(q) ==
  /\ At(q, "sent", {"createMovie"})
  /\ \/ Reject(q)
     \/ /\ movies' = [movies EXCEPT ![q] = [status |-> Given(req[q].status, "COMING_SOON")]]
        /\ styled' = [styled EXCEPT ![q] = q]
        /\ Answer(q, "ok")
        /\ UNCHANGED showtimes
-----------------------------------------------------------------------------
(* Showtimes *)

ConflictBug(a, b) ==
  a.hall = b.hall /\ a.start <= b.start /\ b.start <= a.end + Buffer

(* Both ends of the half hour count. *)
Conflict(a, b) ==
  a.hall = b.hall /\ a.start <= b.end + Buffer /\ a.end + Buffer >= b.start

RowOf(r) == [movie |-> r.movie, cinema |-> r.cinema, hall |-> r.hall,
             start |-> r.start, end |-> r.start + r.length, seats |-> NoRow]

(* create checks the times and searches the hall for conflicts, *)
CreateShowtime(q) ==
  /\ At(q, "sent", {"createShowtime"})
  /\ IF \/ req[q].start < now
        \/ req[q].length = 0
        \/ \E s \in RowsOf(showtimes) : Conflict(showtimes[s], RowOf(req[q]))
     THEN Reject(q)
     ELSE /\ OnTo(q, "free")
          /\ promotes' = [promotes EXCEPT ![q] = req[q].start <= now]
          /\ UNCHANGED <<read, listed, programme, styled>>

ReadHallBug(q) ==
  /\ At(q, "free", {"createShowtime"})
  /\ OnTo(q, "inserting")
  /\ read' = [read EXCEPT ![q] = CHOOSE x \in Bare : TRUE]
  /\ UNCHANGED <<locals, programme, styled>>

(* then reads the hall, *)
ReadHall(q) ==
  /\ At(q, "free", {"createShowtime"})
  /\ IF halls[req[q].hall] = NoRow
     THEN Reject(q)
     ELSE /\ OnTo(q, "inserting")
          /\ read' = [read EXCEPT ![q] = halls[req[q].hall].matrix]
          /\ UNCHANGED <<locals, programme, styled>>

(* inserts the showtime, whose three parents have to exist, *)
InsertShowtime(q) ==
  /\ At(q, "inserting", {"createShowtime"})
  /\ IF movies[req[q].movie] = NoRow \/ cinemas[req[q].cinema] = NoRow
        \/ halls[req[q].hall] = NoRow
     THEN Reject(q)
     ELSE /\ showtimes' = [showtimes EXCEPT ![q] = RowOf(req[q])]
          /\ OnTo(q, IF promotes[q] THEN "promoting" ELSE "seating")
          /\ UNCHANGED <<read, locals, movies, styled>>

PromoteMovieBug(q) ==
  LET m == req[q].movie IN
  /\ At(q, "promoting", {"createShowtime"})
  /\ movies' = IF movies[m] # NoRow /\ movies[m].status = "COMING_SOON"
               THEN [movies EXCEPT ![m] = [status |-> "NOW_SHOWING"]] ELSE movies
  /\ Answer(q, "ok")
  /\ UNCHANGED <<showtimes, styled>>

PromoteAlwaysBug(q) ==
  LET m == req[q].movie IN
  /\ At(q, "promoting", {"createShowtime"})
  /\ movies' = IF movies[m] # NoRow
               THEN [movies EXCEPT ![m] = [status |-> "NOW_SHOWING"]] ELSE movies
  /\ OnTo(q, "seating")
  /\ UNCHANGED <<read, locals, showtimes, styled>>

(* makes a movie that starts at this very instant a current one, *)
PromoteMovie(q) ==
  LET m == req[q].movie IN
  /\ At(q, "promoting", {"createShowtime"})
  /\ movies' = IF movies[m] # NoRow /\ movies[m].status = "COMING_SOON"
               THEN [movies EXCEPT ![m] = [status |-> "NOW_SHOWING"]] ELSE movies
  /\ OnTo(q, "seating")
  /\ UNCHANGED <<read, locals, showtimes, styled>>

Seats(q) ==
  showtimes' = IF showtimes[q] = NoRow THEN showtimes
               ELSE [showtimes EXCEPT ![q] = [@ EXCEPT !.seats = read[q]]]

(* and inserts the seats of the layout that it read, all or none; without  *)
(* seats to insert there is no statement that could fail.                  *)
CreateSeats(q) ==
  /\ At(q, "seating", {"createShowtime"})
  /\ IF read[q] \notin Bare /\ (read[q] \in Broken \/ showtimes[q] = NoRow)
     THEN Reject(q)
     ELSE Seats(q) /\ Answer(q, "ok") /\ UNCHANGED <<movies, styled>>
-----------------------------------------------------------------------------
ProgrammeStep(q) ==
  \/ ScanMovies(q) \/ PromoteMovies(q) \/ ListMovies(q) \/ FindMovie(q)
  \/ UpdateMovie(q) \/ RemoveMovie(q) \/ CreateMovie(q)
  \/ CreateShowtime(q) \/ ReadHall(q) \/ InsertShowtime(q) \/ PromoteMovie(q) \/ CreateSeats(q)

(* A step of the catalogue takes the showtimes of what it deletes along. *)
CatalogueStep(q) ==
  /\ CatalogStep(q)
  /\ UNCHANGED <<movies, now, locals, styled>>
  /\ laid' = [h \in Ids |-> IF halls'[h] \notin {halls[h], NoRow} THEN q ELSE laid[h]]
  /\ Cascade

AskAny(q) ==
  /\ \E r \in CatalogRequests(RowsOf(cities), RowsOf(cinemas), RowsOf(halls))
                \cup ProgrammeRequests(RowsOf(movies), RowsOf(cinemas), RowsOf(halls)) :
       Ask(q, r)
  /\ UNCHANGED <<programme, now, locals, laid, styled>>

(* The connection or the process fails before the next statement. *)
Break(q) == q \in UnderWay /\ Reject(q)

Tick ==
  /\ now < MaxNow
  /\ now' = now + 1
  /\ UNCHANGED <<vars, programme, locals, laid, styled>>

ScheduleNext ==
  \/ \E q \in Requests : AskAny(q) \/ CatalogueStep(q) \/ ProgrammeStep(q) \/ Break(q)
  \/ Tick

ScheduleSpec == ScheduleInit /\ [][ScheduleNext]_scheduleVars
-----------------------------------------------------------------------------
(* Properties *)

(* Types of the programme's tables and of what the handlers hold.          *)
ScheduleTypeOK ==
  /\ cities \in [Ids -> CityRows \cup {NoRow}]
  /\ cinemas \in [Ids -> CinemaRows \cup {NoRow}]
  /\ halls \in [Ids -> HallRows \cup {NoRow}]
  /\ movies \in [Ids -> MovieRows \cup {NoRow}]
  /\ showtimes \in [Ids -> ShowtimeRows \cup {NoRow}]
  /\ now \in Nat
  /\ menu \in Menus
  /\ pc \in [Requests -> Idle \cup {"sent", "found", "placed", "named", "inserting",
                                    "scanned", "promoting", "free", "seating"}]
  /\ req \in [Requests -> CatalogRequests(Ids, Ids, Ids) \cup ProgrammeRequests(Ids, Ids, Ids)
                            \cup {NoRequest}]
  /\ \A q \in Requests : req[q] = NoRequest <=> q \notin UnderWay
  /\ read \in [Requests -> Names \cup Matrices \cup {NoRow}]
  /\ listed \in [Requests -> SUBSET Ids]
  /\ promotes \in [Requests -> BOOLEAN]
  /\ met \in [Requests -> SUBSET Requests]
  /\ laid \in [Ids -> Ids] /\ styled \in [Ids -> Ids]

(* Every row has its parents: a cinema its city, a hall its cinema, a      *)
(* showtime its movie, its cinema and its hall; although handlers look for *)
(* a parent some statements before they insert or move the child, or not   *)
(* at all, while administrators delete.                                    *)
ReferencesHold ==
  /\ \A m \in RowsOf(cinemas) : cities[cinemas[m].city] # NoRow
  /\ \A h \in RowsOf(halls) : cinemas[halls[h].cinema] # NoRow
  /\ \A s \in RowsOf(showtimes) :
       /\ movies[showtimes[s].movie] # NoRow
       /\ cinemas[showtimes[s].cinema] # NoRow
       /\ halls[showtimes[s].hall] # NoRow

(* A deleted row stays deleted: no update that had found it before it went *)
(* brings it back.                                                         *)
DeletedForGood ==
  [][~(\/ Returns(cities, cities') \/ Returns(cinemas, cinemas')
       \/ Returns(halls, halls') \/ Returns(movies, movies'))]_scheduleVars

Apart(a, b) == a.end + Buffer <= b.start \/ b.end + Buffer <= a.start

(* A hall is free for the half hour between two of its showtimes; search   *)
(* and insert are two statements without a lock, so the only exception are *)
(* two showtimes whose requests were under way together.                   *)
OverlapOnlyByRace ==
  \A s, t \in RowsOf(showtimes) :
    s # t /\ showtimes[s].hall = showtimes[t].hall
      => \/ Apart(showtimes[s], showtimes[t])
         \/ {s, t} \subseteq Requests /\ Met(s, t)

(* The seats are inserted after the showtime and not together with it: a   *)
(* showtime that lacks the seats of a layout is one whose request is still *)
(* under way or was refused after the insert, never one that was confirmed.*)
SeatlessOnlyByFailure ==
  \A s \in RowsOf(showtimes) :
    showtimes[s].seats = NoRow => s \in Requests /\ pc[s] # "ok"

(* The seats are those of the hall's layout, unless the layout was written *)
(* last by a request that had not ended when the showtime was asked for.   *)
OldLayoutOnlyByUpdate ==
  \A s \in RowsOf(showtimes) :
    LET h == showtimes[s].hall IN
    showtimes[s].seats \notin {NoRow, halls[h].matrix}
      => laid[h] > s \/ ({s, laid[h]} \subseteq Requests /\ Met(s, laid[h]))

(* The status that an administrator gave a movie gives way to NOW_SHOWING  *)
(* only when it is COMING_SOON or when he gave it while the request that   *)
(* overwrites it was already under way.                                    *)
StatusLostOnlyByRace ==
  [][\A m \in Ids :
       /\ movies[m] # NoRow /\ movies[m].status = "SNEAK_SHOW"
       /\ movies'[m] = [status |-> "NOW_SHOWING"] /\ styled'[m] = styled[m]
       => \E q \in Requests : /\ pc[q] = "promoting" /\ pc'[q] # pc[q]
                              /\ styled[m] \in Requests /\ Met(styled[m], q)]_scheduleVars
=============================================================================
