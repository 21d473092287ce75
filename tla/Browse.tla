------------------------------- MODULE Browse -------------------------------
(***************************************************************************)
(* Finding a film and a show: the home page, the showtimes of a film and   *)
(* the seat map of a show (frontend/src/app), rendered on the server from  *)
(* one or more calls of frontend/src/api/client.ts, or from the fixtures   *)
(* of frontend/src/api/mock.ts; and the catalogue they ask                 *)
(* (backend/src/services/catalogService.js), which changes between two     *)
(* calls.  A call fails, or is answered; an answer whose body cannot be    *)
(* read is an answer with nothing in it (client.ts:73).                    *)
(*                                                                         *)
(* Of the seat picker there is what a fixture seat map does to it; Client  *)
(* models it.  The Redis cache of the catalogue is not modelled: nothing   *)
(* ever connects it (backend/src/config/redis.js:8).                       *)
(***************************************************************************)
EXTENDS FiniteSets

CONSTANTS
    LiveFilms, LiveShows,  \* ids the database gives
    DemoFilms, DemoShows,  \* ids of the fixtures
    FirstFilm,             \* 11111111-..., the film inferMovieId can name
    FilmOf,                \* the film of a show
    LiveSeats, DemoSeats,  \* labels of the hall, and those free in the fixture
    None

Films == LiveFilms \cup DemoFilms
Shows == LiveShows \cup DemoShows

ASSUME BrowseAssumption ==
    /\ LiveFilms \cap DemoFilms = {} /\ LiveShows \cap DemoShows = {}
    /\ FirstFilm \in DemoFilms /\ None \notin Films
    /\ FilmOf \in [Shows -> Films]
    /\ \A s \in Shows : s \in DemoShows <=> FilmOf[s] \in DemoFilms

VARIABLES
    forceMocks,     \* NEXT_PUBLIC_USE_MOCKS, when the site was built
    movies, shows,  \* the catalogue: rows of movies and shows
    missing,        \* history: live films that the catalogue has been without at some
                    \* time since the page was opened
    unread,         \* history: has the body of an answer been lost since then
    load,           \* the page being rendered, and what has been answered so far
    shown,          \* the page on screen
    held            \* history: the last hold granted

catalogue == <<movies, shows>>
sinceOpened == <<missing, unread>>
vars == <<forceMocks, movies, shows, missing, unread, load, shown, held>>

NoLoad == [pc |-> "none"]
Blank == [kind |-> "blank"]
NoHold == [map |-> "none", asked |-> {}, got |-> {}]

LiveShowsOf(film) == {s \in shows : FilmOf[s] = film}

\* getMockShowtimes: those of a fixture film, none of any other.
DemoShowsOf(film) == {s \in DemoShows : FilmOf[s] = film}

Init ==
    /\ forceMocks \in BOOLEAN
    /\ movies = LiveFilms /\ shows = LiveShows
    /\ missing = {} /\ unread = FALSE
    /\ load = NoLoad /\ shown = Blank
    /\ held = NoHold

-----------------------------------------------------------------------------
\* The catalogue.

\* Shows are only ever seeded, so a new film has none.
CreateMovie(m) ==
    /\ m \in LiveFilms \ movies
    /\ movies' = movies \cup {m}
    /\ UNCHANGED <<forceMocks, shows, sinceOpened, load, shown, held>>

\* ON DELETE CASCADE takes the shows, and the bookings and payments of them.
DeleteMovie(m) ==
    /\ m \in movies
    /\ movies' = movies \ {m}
    /\ shows' = shows \ LiveShowsOf(m)
    /\ missing' = missing \cup {m}
    /\ UNCHANGED <<forceMocks, unread, load, shown, held>>

-----------------------------------------------------------------------------
\* Opening a page; the page before it is gone.
Open(request) ==
    /\ load' = request /\ shown' = Blank
    /\ missing' = LiveFilms \ movies /\ unread' = FALSE
    /\ UNCHANGED <<forceMocks, catalogue, held>>

OpenHome == Open([pc |-> "home"])

\* From a link, the address bar or a bookmark: any id.
OpenShowtimes(film) == Open([pc |-> "movies", film |-> film])
OpenSeats(show) == Open([pc |-> "seats", show |-> show])

\* The page is made, of calls whose last body was lost or not.
Show(page, lost) ==
    /\ shown' = page /\ load' = NoLoad
    /\ unread' = (unread \/ lost)
    /\ UNCHANGED <<forceMocks, catalogue, missing, held>>

LoadError == [kind |-> "loadError"]

\* MoviesPage: the live films, or none, or an error; never a fixture, forced or not.
HomeRendered ==
    /\ load.pc = "home"
    /\ \/ Show([kind |-> "home", films |-> movies], FALSE)
       \/ Show([kind |-> "home", films |-> {}], TRUE)
       \/ Show(LoadError, FALSE)

\* Mutant: the label is set before the fixture is looked for.
FromFixtures_AnyFilm(film, movie, times, failed) ==
    /\ movie = None \/ times = {}
    /\ forceMocks \/ failed \/ movie = None

\* Does the page fall back to a fixture: not for a film it has, with no shows yet.
FromFixtures(film, movie, times, failed) ==
    /\ movie = None \/ times = {}
    /\ forceMocks \/ failed \/ movie = None
    /\ film \in DemoFilms

WithoutFilm(film, failed) == IF failed THEN LoadError ELSE [kind |-> "notFound", film |-> film]

\* What ShowtimesPage makes of what it has: movie is the film as the API knows
\* it, times the showtimes it answered, failed whether one of the two calls did.
ShowtimesPage(film, movie, times, failed) ==
    LET demo == FromFixtures(film, movie, times, failed)
        page == [kind |-> "showtimes", film |-> film, demo |-> demo,
                 times |-> IF demo /\ times = {} THEN DemoShowsOf(film) ELSE times]
    IN  IF demo \/ movie # None THEN page ELSE WithoutFilm(film, failed)

\* getMovies, the body of its answer lost or not; the showtimes are asked for
\* whether or not the film is among them.
MoviesAnswered ==
    /\ load.pc = "movies" /\ ~forceMocks
    /\ \E lost \in BOOLEAN :
        /\ load' = [pc |-> "times", film |-> load.film,
                    movie |-> IF load.film \in movies /\ ~lost THEN load.film ELSE None]
        /\ unread' = (unread \/ lost)
    /\ UNCHANGED <<forceMocks, catalogue, missing, shown, held>>

\* Mutant: getMovies().catch(() => []), as the seats page does with getShowtimes.
MoviesSkipped_Caught ==
    /\ load.pc = "movies"
    /\ Show(ShowtimesPage(load.film, None, {}, FALSE), FALSE)

\* getMovies fails, or is not called: everything is as it was declared.
MoviesSkipped ==
    /\ load.pc = "movies"
    /\ Show(ShowtimesPage(load.film, None, {}, ~forceMocks), FALSE)

\* getShowtimes, answered, answered without a body, or both of its calls failed;
\* the film that was found is kept.
TimesAnswered ==
    /\ load.pc = "times"
    /\ \/ Show(ShowtimesPage(load.film, load.movie, LiveShowsOf(load.film), FALSE), FALSE)
       \/ Show(ShowtimesPage(load.film, load.movie, {}, FALSE), TRUE)
       \/ Show(ShowtimesPage(load.film, load.movie, {}, TRUE), FALSE)

\* inferMovieId: the first fixture, unless the id is that of another one's show.
Inferred(show) == IF show \in DemoShows /\ FilmOf[show] # FirstFilm THEN None ELSE FirstFilm

SeatsPage(show, film, back, demo) ==
    [kind |-> "seats", show |-> show, film |-> film, back |-> back, demo |-> demo,
     map |-> IF demo THEN "mock" ELSE "live", selected |-> {}]

\* getSeatMap: the seats of a show, and the show.  One of the bodies may be lost:
\* then no seat is on offer until the next answer, or the film is not named.
SeatMapAnswered ==
    /\ load.pc = "seats" /\ ~forceMocks
    /\ load.show \in shows
    /\ load' = [pc |-> "candidates", show |-> load.show]
    /\ \E lost \in BOOLEAN : unread' = (unread \/ lost)
    /\ UNCHANGED <<forceMocks, catalogue, missing, shown, held>>

\* getShowtimes of every film, for the way back; if it fails there is none.
CandidatesAnswered ==
    /\ load.pc = "candidates"
    /\ \E back \in {None} \cup {FilmOf[s] : s \in shows \cap {load.show}},
          film \in {FilmOf[load.show]} \cup (IF unread THEN {None} ELSE {}) :
          Show(SeatsPage(load.show, film, back, FALSE), FALSE)

\* Unreachable, 404 or not called: the fixture seat map, for any show.
SeatMapSkipped ==
    /\ load.pc = "seats"
    /\ LET film == Inferred(load.show)
           back == IF load.show \in DemoShowsOf(film) THEN film ELSE None
       IN  Show(SeatsPage(load.show, film, back, TRUE), FALSE)

-----------------------------------------------------------------------------
\* The seat picker.

\* The seats a map offers: of the hall any may be free, of the fixture those that
\* are marked AVAILABLE, whatever the show.
Offered(map) == IF map = "mock" THEN DemoSeats ELSE LiveSeats

Toggle(label) ==
    /\ shown.kind = "seats"
    /\ label \in Offered(shown.map)
    /\ shown' = [shown EXCEPT !.selected = IF label \in @ THEN @ \ {label} ELSE @ \cup {label}]
    /\ UNCHANGED <<forceMocks, catalogue, sinceOpened, load, held>>

\* Mutant: the selection is not looked for in the new map.
RefreshAnswered_KeepsSelection ==
    /\ shown.kind = "seats" /\ shown.show \in shows
    /\ shown' = [shown EXCEPT !.map = "live"]
    /\ UNCHANGED <<forceMocks, catalogue, sinceOpened, load, held>>

\* Mutant: a map of fixtures is left alone.
RefreshAnswered_LiveOnly ==
    /\ shown.kind = "seats" /\ shown.show \in shows /\ shown.map = "live"
    /\ \E free \in SUBSET LiveSeats : shown' = [shown EXCEPT !.selected = @ \cap free]
    /\ UNCHANGED <<forceMocks, catalogue, sinceOpened, load, held>>

\* The picker asks the API every few seconds, whatever the page was built from;
\* some seats of the hall are free, none if the body is lost, and of the
\* selection those are kept.
RefreshAnswered ==
    /\ shown.kind = "seats" /\ shown.show \in shows
    /\ \E free \in SUBSET LiveSeats :
          shown' = [shown EXCEPT !.map = "live", !.selected = @ \cap free]
    /\ UNCHANGED <<forceMocks, catalogue, sinceOpened, load, held>>

\* An error message, and the map as it was.
RefreshFails ==
    /\ shown.kind = "seats"
    /\ UNCHANGED vars

\* holdSeats: the labels are looked up in the seat map of the API, and those it
\* does not have are dropped; what is left is held.
HoldGranted ==
    /\ shown.kind = "seats" /\ shown.show \in shows
    /\ shown.selected \cap LiveSeats # {}
    /\ held' = [map |-> shown.map, asked |-> shown.selected, got |-> shown.selected \cap LiveSeats]
    /\ shown' = Blank
    /\ UNCHANGED <<forceMocks, catalogue, sinceOpened, load>>

\* Nothing left to hold, taken, or no such show: every label leaves the selection.
HoldRefused ==
    /\ shown.kind = "seats" /\ shown.selected # {}
    /\ shown' = [shown EXCEPT !.selected = {}]
    /\ UNCHANGED <<forceMocks, catalogue, sinceOpened, load, held>>

Next ==
    \/ \E m \in LiveFilms : CreateMovie(m) \/ DeleteMovie(m)
    \/ OpenHome
    \/ \E film \in Films : OpenShowtimes(film)
    \/ \E show \in Shows : OpenSeats(show)
    \/ HomeRendered
    \/ MoviesAnswered
    \/ MoviesSkipped
    \/ TimesAnswered
    \/ SeatMapAnswered
    \/ CandidatesAnswered
    \/ SeatMapSkipped
    \/ \E label \in LiveSeats \cup DemoSeats : Toggle(label)
    \/ RefreshAnswered
    \/ RefreshFails
    \/ HoldGranted
    \/ HoldRefused

Spec == Init /\ [][Next]_vars

\* The picker keeps asking, and the API is there often enough.
FairSpec == Spec /\ WF_vars(RefreshAnswered)

\* When an answer can change the picker, which the fairness above is of.
RefreshCanConnect ==
    shown.kind = "seats" /\ shown.show \in shows /\ shown.map = "mock"
        => ENABLED <<RefreshAnswered>>_vars

-----------------------------------------------------------------------------
\* The variables have their types.
TypeOK ==
    /\ forceMocks \in BOOLEAN
    /\ movies \in SUBSET LiveFilms /\ shows \in SUBSET LiveShows
    /\ missing \in SUBSET LiveFilms /\ unread \in BOOLEAN
    /\ load \in {NoLoad, [pc |-> "home"]} \cup [pc : {"movies"}, film : Films]
            \cup [pc : {"times"}, film : Films, movie : LiveFilms \cup {None}]
            \cup [pc : {"seats"}, show : Shows] \cup [pc : {"candidates"}, show : LiveShows]
    /\ shown \in {Blank, LoadError}
            \cup [kind : {"home"}, films : SUBSET LiveFilms]
            \cup [kind : {"notFound"}, film : Films]
            \cup [kind : {"showtimes"}, film : Films, demo : BOOLEAN, times : SUBSET Shows]
            \cup [kind : {"seats"}, show : Shows, film : Films \cup {None}, back : Films \cup {None},
                  demo : BOOLEAN, map : {"live", "mock"}, selected : SUBSET (LiveSeats \cup DemoSeats)]
    /\ held \in [map : {"none", "live", "mock"}, asked : SUBSET (LiveSeats \cup DemoSeats),
                 got : SUBSET LiveSeats]

\* No fixture is passed off as the real thing, nor the other way round: a page of
\* showtimes carries the Demo label exactly if its film and every showtime on it
\* are fixtures, whichever of its two calls failed and whatever was deleted
\* between them; and a seat map that is a fixture is on a page with the label
\* (app/showtimes/[movieId]/page.tsx:43-51, app/seats/[showtimeId]/page.tsx:45-49).
DemoIsLabelled ==
    /\ shown.kind = "showtimes" =>
          /\ shown.demo <=> shown.film \in DemoFilms
          /\ \A s \in shown.times : FilmOf[s] = shown.film
    /\ shown.kind = "seats" /\ shown.map = "mock" => shown.demo

\* A film that has been in the catalogue all the time since the page was opened is
\* not said to be off ("That film isn't on this week"), whichever call fails and
\* whatever else comes and goes between the two: but for a site that was built to
\* ask nobody, and an answer whose body was lost, which passes for an empty
\* catalogue (app/showtimes/[movieId]/page.tsx:28-60, client.ts:73).
AbsenceIsTrue ==
    shown.kind = "notFound" /\ shown.film \in LiveFilms \ missing => forceMocks \/ unread

\* A hold is of all the seats that were selected, though holdSeats looks their
\* labels up again and drops without a word those it does not find, unless they
\* were selected on a map of fixtures (client.ts:243-258).
HoldIsWhole == held.got = held.asked \/ held.map = "mock"

\* "Live backend will connect automatically when available": a fixture seat map of
\* a show that exists gives way to the real one, while the page stays open.
DemoConnects ==
    \A s \in LiveShows :
        (shown.kind = "seats" /\ shown.show = s /\ shown.map = "mock")
            ~> (\/ shown.kind # "seats" \/ s \notin shows \/ shown.map = "live")
=============================================================================
