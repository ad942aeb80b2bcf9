------------------------------ MODULE MCSchedule ------------------------------
(* A small instance of Schedule for TLC.  The requests of a behaviour come   *)
(* from one group of routes that work on the same rows.                      *)
EXTENDS Schedule

CityRoutes == {"createCity", "updateCity", "removeCity", "createCinema", "updateCinema"}
CinemaRoutes == {"updateCinema", "deleteCinema", "createHall"}
MovieRoutes == {"createShowtime", "listMovies", "updateMovie", "removeMovie"}
HallRoutes == {"createShowtime", "createMovie", "deleteHall", "updateHallMatrix"}

MCMenus == {CityRoutes, CinemaRoutes, MovieRoutes, HallRoutes}
=============================================================================
