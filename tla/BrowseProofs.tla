---------------------------- MODULE BrowseProofs ----------------------------
(***************************************************************************)
(* Theorems of Browse, for any catalogue, any fixtures and any hall.       *)
(*                                                                         *)
(* What a page says of itself rests on what its loader has kept from the   *)
(* calls that were answered (LoadIsHonest); what a hold is of, on the map  *)
(* the seats were selected on (SelectedIsOffered).                         *)
(***************************************************************************)
EXTENDS Browse, TLAPS

SeatsPages ==
    [kind : {"seats"}, show : Shows, film : Films \cup {None}, back : Films \cup {None},
     demo : BOOLEAN, map : {"live", "mock"}, selected : SUBSET (LiveSeats \cup DemoSeats)]

\* There is, or was since the page was opened, something to take the film away.
MayBeAbsent(film) == film \notin LiveFilms \ missing \/ forceMocks \/ unread

\* The catalogue is of live films and shows, and a page under way is of a film or
\* a show there is; a film the API has answered is the one asked for, and live;
\* one it has not answered may be absent.
LoadIsHonest ==
    /\ movies \in SUBSET LiveFilms /\ shows \in SUBSET LiveShows
    /\ LiveFilms \ movies \subseteq missing /\ unread \in BOOLEAN /\ forceMocks \in BOOLEAN
    /\ load.pc \in {"movies", "times"} => load.film \in Films
    /\ load.pc = "times" => \/ load.movie = None /\ MayBeAbsent(load.film)
                            \/ load.movie = load.film /\ load.film \in LiveFilms
    /\ load.pc = "seats" => load.show \in Shows
    /\ load.pc = "candidates" => load.show \in LiveShows

\* The seats selected are seats of the map on screen.
SelectedIsOffered ==
    shown.kind = "seats" => shown \in SeatsPages /\ shown.selected \subseteq Offered(shown.map)

BrowseInv ==
    LoadIsHonest /\ SelectedIsOffered /\ DemoIsLabelled /\ AbsenceIsTrue /\ HoldIsWhole

LEMMA InitBrowseInv == Init => BrowseInv
<1> SUFFICES ASSUME Init PROVE BrowseInv
  OBVIOUS
<1>1. load.pc = "none" /\ shown.kind = "blank" /\ held.got = held.asked
  BY DEF Init, NoLoad, Blank, NoHold
<1>2. unread \in BOOLEAN /\ forceMocks \in BOOLEAN
  BY DEF Init
<1>3. LoadIsHonest
  BY <1>1, <1>2 DEF Init, LoadIsHonest
<1>4. SelectedIsOffered /\ DemoIsLabelled /\ AbsenceIsTrue /\ HoldIsWhole
  BY <1>1 DEF SelectedIsOffered, DemoIsLabelled, AbsenceIsTrue, HoldIsWhole
<1> QED BY <1>3, <1>4 DEF BrowseInv

\* A page of showtimes says what it is, of what its calls have left it with.
LEMMA ShowtimesPageIsHonest ==
    ASSUME NEW film \in Films, NEW movie, NEW times, NEW failed \in BOOLEAN,
           movie = None \/ (movie = film /\ film \in LiveFilms),
           times = {} \/ (times = LiveShowsOf(film)),
           NEW page, page = ShowtimesPage(film, movie, times, failed)
    PROVE  /\ page.kind \in {"showtimes", "notFound", "loadError"}
           /\ page.kind = "notFound" => page.film = film /\ movie = None /\ ~failed
           /\ page.kind = "showtimes" => /\ page.demo <=> page.film \in DemoFilms
                                         /\ \A s \in page.times : FilmOf[s] = page.film
<1>1. CASE FromFixtures(film, movie, times, failed)
  <2>1. page = [kind |-> "showtimes", film |-> film, demo |-> TRUE,
                times |-> IF times = {} THEN DemoShowsOf(film) ELSE times]
    BY <1>1 DEF ShowtimesPage
  <2>2. film \in DemoFilms
    BY <1>1 DEF FromFixtures
  <2> QED BY <2>1, <2>2 DEF DemoShowsOf, LiveShowsOf
<1>2. CASE ~FromFixtures(film, movie, times, failed) /\ movie # None
  <2>1. /\ page.kind = "showtimes" /\ page.film = film /\ page.times = times
        /\ page.demo = FromFixtures(film, movie, times, failed)
    BY <1>2 DEF ShowtimesPage
  <2>2. film \notin DemoFilms
    BY <1>2, BrowseAssumption
  <2> QED BY <1>2, <2>1, <2>2 DEF LiveShowsOf
<1>3. CASE ~FromFixtures(film, movie, times, failed) /\ movie = None
  <2>1. page = WithoutFilm(film, failed)
    BY <1>3 DEF ShowtimesPage
  <2> QED BY <1>3, <2>1 DEF WithoutFilm, LoadError
<1> QED BY <1>1, <1>2, <1>3

\* A page without a selection or a label to be wrong about.
LEMMA ShowStep ==
    ASSUME BrowseInv, NEW page, NEW lost \in BOOLEAN, Show(page, lost),
           page.kind = "notFound" => MayBeAbsent(page.film) \/ lost,
           page.kind = "showtimes" => /\ page.demo <=> page.film \in DemoFilms
                                      /\ \A s \in page.times : FilmOf[s] = page.film,
           page.kind = "seats" => /\ page \in SeatsPages /\ page.selected = {}
                                  /\ page.map = "mock" => page.demo
    PROVE  BrowseInv'
<1>1. /\ shown' = page /\ load' = NoLoad /\ unread' = (unread \/ lost)
      /\ UNCHANGED <<forceMocks, movies, shows, missing, held>>
  BY DEF Show, catalogue
<1>2. LoadIsHonest'
  BY <1>1 DEF BrowseInv, LoadIsHonest, NoLoad
<1>3. SelectedIsOffered'
  BY <1>1 DEF SelectedIsOffered
<1>4. DemoIsLabelled' /\ AbsenceIsTrue' /\ HoldIsWhole'
  BY <1>1 DEF BrowseInv, DemoIsLabelled, AbsenceIsTrue, MayBeAbsent, HoldIsWhole
<1> QED BY <1>2, <1>3, <1>4 DEF BrowseInv

\* The page is blank or stays, and the loader goes on.
LEMMA LoadStep ==
    ASSUME BrowseInv, held' = held, LoadIsHonest',
           \/ shown' = Blank
           \/ /\ shown' = shown /\ missing \subseteq missing' /\ forceMocks' = forceMocks
              /\ unread => unread'
    PROVE  BrowseInv'
<1>1. CASE shown' = Blank
  BY <1>1 DEF Blank, BrowseInv, SelectedIsOffered, DemoIsLabelled, AbsenceIsTrue, HoldIsWhole
<1>2. CASE /\ shown' = shown /\ missing \subseteq missing' /\ forceMocks' = forceMocks
           /\ unread => unread'
  BY <1>2 DEF BrowseInv, SelectedIsOffered, DemoIsLabelled, AbsenceIsTrue, HoldIsWhole
<1> QED BY <1>1, <1>2

\* The picker, on a page that stays the same but for its map and selection.
LEMMA PickerStep ==
    ASSUME BrowseInv, shown.kind = "seats", UNCHANGED <<forceMocks, movies, shows, missing, unread, load, held>>,
           NEW map \in {"live", "mock"}, NEW selected \in SUBSET Offered(map),
           map = "live" \/ map = shown.map,
           shown' = [shown EXCEPT !.map = map, !.selected = selected]
    PROVE  BrowseInv'
<1>1. shown \in SeatsPages /\ (shown.map = "mock" => shown.demo)
  BY DEF BrowseInv, SelectedIsOffered, DemoIsLabelled
<1>2. Offered(map) \subseteq LiveSeats \cup DemoSeats
  BY DEF Offered
<1>3. shown' \in SeatsPages /\ shown'.kind = "seats" /\ shown'.map = map
      /\ shown'.selected = selected /\ shown'.demo = shown.demo
  BY <1>1, <1>2 DEF SeatsPages
<1>4. LoadIsHonest' /\ HoldIsWhole'
  BY DEF BrowseInv, LoadIsHonest, MayBeAbsent, HoldIsWhole
<1>5. SelectedIsOffered' /\ DemoIsLabelled' /\ AbsenceIsTrue'
  BY <1>1, <1>3 DEF SelectedIsOffered, DemoIsLabelled, AbsenceIsTrue
<1> QED BY <1>4, <1>5 DEF BrowseInv

LEMMA NextBrowseInv == BrowseInv /\ [Next]_vars => BrowseInv'
<1> SUFFICES ASSUME BrowseInv, [Next]_vars PROVE BrowseInv'
  OBVIOUS
<1>0. LoadIsHonest /\ SelectedIsOffered /\ HoldIsWhole
  BY DEF BrowseInv
<1>1. ASSUME NEW m \in LiveFilms, CreateMovie(m) \/ DeleteMovie(m) PROVE BrowseInv'
  <2>1. /\ shown' = shown /\ held' = held /\ missing \subseteq missing'
        /\ forceMocks' = forceMocks /\ unread' = unread
    BY <1>0, <1>1 DEF CreateMovie, DeleteMovie, sinceOpened
  <2>2. LoadIsHonest'
    BY <1>0, <1>1, <2>1 DEF CreateMovie, DeleteMovie, LoadIsHonest, MayBeAbsent
  <2> QED BY <2>1, <2>2, LoadStep
<1>2. ASSUME OpenHome \/ (\E film \in Films : OpenShowtimes(film)) \/ (\E show \in Shows : OpenSeats(show))
      PROVE  BrowseInv'
  <2>1. PICK request \in {[pc |-> "home"]} \cup [pc : {"movies"}, film : Films]
                             \cup [pc : {"seats"}, show : Shows] : Open(request)
    BY <1>2 DEF OpenHome, OpenShowtimes, OpenSeats
  <2>2. /\ load' = request /\ shown' = Blank /\ missing' = LiveFilms \ movies /\ unread' = FALSE
        /\ UNCHANGED <<forceMocks, movies, shows, held>>
    BY <2>1 DEF Open, catalogue
  <2>3. /\ request.pc \in {"home", "movies", "seats"}
        /\ request.pc = "movies" => request.film \in Films
        /\ request.pc = "seats" => request.show \in Shows
    OBVIOUS
  <2>4. LoadIsHonest'
    BY <1>0, <2>2, <2>3 DEF LoadIsHonest
  <2> QED BY <2>2, <2>4, LoadStep
<1>3. CASE HomeRendered
  <2>1. \/ Show([kind |-> "home", films |-> movies], FALSE)
        \/ Show([kind |-> "home", films |-> {}], TRUE)
        \/ Show([kind |-> "loadError"], FALSE)
    BY <1>3 DEF HomeRendered, LoadError
  <2> QED BY <2>1, ShowStep
<1>4. CASE MoviesAnswered
  <2>1. PICK lost \in BOOLEAN :
           /\ load' = [pc |-> "times", film |-> load.film,
                       movie |-> IF load.film \in movies /\ ~lost THEN load.film ELSE None]
           /\ unread' = (unread \/ lost)
    BY <1>4 DEF MoviesAnswered
  <2>2. UNCHANGED <<forceMocks, movies, shows, missing, shown, held>> /\ load.pc = "movies"
    BY <1>4 DEF MoviesAnswered, catalogue
  <2>3. LoadIsHonest'
    <3>1. load.film \in Films /\ movies \in SUBSET LiveFilms /\ LiveFilms \ movies \subseteq missing
      BY <1>0, <2>2 DEF LoadIsHonest
    <3>2. unread' \in BOOLEAN /\ (unread => unread') /\ (lost => unread')
      BY <1>0, <2>1 DEF LoadIsHonest
    <3>3. load'.pc = "times" /\ load'.film = load.film
      BY <2>1
    <3>4. CASE load.film \in movies /\ ~lost
      <4>1. load'.movie = load.film
        BY <2>1, <3>4
      <4> QED BY <1>0, <2>2, <3>1, <3>2, <3>3, <3>4, <4>1 DEF LoadIsHonest
    <3>5. CASE ~(load.film \in movies /\ ~lost)
      <4>1. load'.movie = None
        BY <2>1, <3>5
      <4>2. load.film \notin LiveFilms \ missing \/ unread'
        BY <3>1, <3>2, <3>5
      <4> QED BY <1>0, <2>2, <3>1, <3>2, <3>3, <4>1, <4>2 DEF LoadIsHonest, MayBeAbsent
    <3> QED BY <3>4, <3>5
  <2> QED BY <2>1, <2>2, <2>3, LoadStep
<1>5. ASSUME NEW film \in Films, NEW movie, NEW times, NEW failed \in BOOLEAN, NEW lost \in BOOLEAN,
             movie = None \/ (movie = film /\ film \in LiveFilms),
             times = {} \/ times = LiveShowsOf(film),
             movie = None /\ ~failed => MayBeAbsent(film) \/ lost,
             Show(ShowtimesPage(film, movie, times, failed), lost)
      PROVE  BrowseInv'
  <2> DEFINE page == ShowtimesPage(film, movie, times, failed)
  <2>1. /\ page.kind \in {"showtimes", "notFound", "loadError"}
        /\ page.kind = "notFound" => page.film = film /\ movie = None /\ ~failed
        /\ page.kind = "showtimes" => /\ page.demo <=> page.film \in DemoFilms
                                      /\ \A s \in page.times : FilmOf[s] = page.film
    BY <1>5, ShowtimesPageIsHonest
  <2>2. Show(page, lost)
    BY <1>5
  <2> HIDE DEF page
  <2>3. page.kind = "notFound" => MayBeAbsent(page.film) \/ lost
    BY <1>5, <2>1
  <2> QED BY <2>1, <2>2, <2>3, ShowStep
<1>6. CASE MoviesSkipped
  <2>1. /\ load.film \in Films /\ forceMocks \in BOOLEAN
        /\ Show(ShowtimesPage(load.film, None, {}, ~forceMocks), FALSE)
        /\ ~(~forceMocks) => MayBeAbsent(load.film)
    BY <1>0, <1>6 DEF MoviesSkipped, LoadIsHonest, MayBeAbsent
  <2> QED BY <1>5, <2>1
<1>7. CASE TimesAnswered
  <2>1. /\ load.film \in Films
        /\ \/ load.movie = None /\ MayBeAbsent(load.film)
           \/ load.movie = load.film /\ load.film \in LiveFilms
    BY <1>0, <1>7 DEF TimesAnswered, LoadIsHonest
  <2>3. load.movie = None => MayBeAbsent(load.film)
    BY <2>1, BrowseAssumption DEF Films
  <2>2. \/ Show(ShowtimesPage(load.film, load.movie, LiveShowsOf(load.film), FALSE), FALSE)
        \/ Show(ShowtimesPage(load.film, load.movie, {}, FALSE), TRUE)
        \/ Show(ShowtimesPage(load.film, load.movie, {}, TRUE), FALSE)
    BY <1>7 DEF TimesAnswered
  <2> QED BY <1>5, <2>1, <2>2, <2>3
<1>8. ASSUME NEW show \in Shows, NEW film \in Films \cup {None}, NEW back \in Films \cup {None},
             NEW demo \in BOOLEAN, Show(SeatsPage(show, film, back, demo), FALSE)
      PROVE  BrowseInv'
  <2> DEFINE page == SeatsPage(show, film, back, demo)
  <2>1. page \in SeatsPages /\ page.selected = {} /\ page.kind = "seats" /\ (page.map = "mock" => page.demo)
    BY DEF SeatsPage, SeatsPages
  <2>2. Show(page, FALSE)
    BY <1>8
  <2> HIDE DEF page
  <2> QED BY <2>1, <2>2, ShowStep
<1>9. CASE SeatMapAnswered
  <2>1. /\ UNCHANGED <<forceMocks, movies, shows, missing, shown, held>>
        /\ unread => unread'
    BY <1>0, <1>9 DEF SeatMapAnswered, catalogue, LoadIsHonest
  <2>2. LoadIsHonest'
    BY <1>0, <1>9, <2>1 DEF SeatMapAnswered, LoadIsHonest
  <2> QED BY <2>1, <2>2, LoadStep
<1>10. CASE CandidatesAnswered
  <2>1. load.show \in Shows
    BY <1>0, <1>10 DEF CandidatesAnswered, LoadIsHonest, Shows
  <2>2. PICK back \in {None} \cup {FilmOf[s] : s \in shows \cap {load.show}},
             film \in {FilmOf[load.show], None} :
            Show(SeatsPage(load.show, film, back, FALSE), FALSE)
    BY <1>10 DEF CandidatesAnswered
  <2>3. film \in Films \cup {None} /\ back \in Films \cup {None}
    BY <2>1, <2>2, BrowseAssumption
  <2> QED BY <1>8, <2>1, <2>2, <2>3
<1>11. CASE SeatMapSkipped
  <2> DEFINE film == Inferred(load.show)
             back == IF load.show \in DemoShowsOf(film) THEN film ELSE None
  <2>1. load.show \in Shows /\ film \in Films \cup {None} /\ back \in Films \cup {None}
    BY <1>0, <1>11, BrowseAssumption DEF SeatMapSkipped, LoadIsHonest, Inferred, Films
  <2>2. Show(SeatsPage(load.show, film, back, TRUE), FALSE)
    BY <1>11 DEF SeatMapSkipped
  <2> HIDE DEF film, back
  <2> QED BY <1>8, <2>1, <2>2
<1>12. ASSUME NEW label \in LiveSeats \cup DemoSeats, Toggle(label) PROVE BrowseInv'
  <2> DEFINE selected == IF label \in shown.selected THEN shown.selected \ {label}
                                                     ELSE shown.selected \cup {label}
  <2>1. /\ shown.kind = "seats" /\ shown \in SeatsPages
        /\ UNCHANGED <<forceMocks, movies, shows, missing, unread, load, held>>
        /\ selected \in SUBSET Offered(shown.map)
    BY <1>0, <1>12 DEF Toggle, SelectedIsOffered, catalogue, sinceOpened
  <2>2. shown' = [shown EXCEPT !.selected = selected]
    BY <1>12 DEF Toggle
  <2>3. shown.map \in {"live", "mock"}
    BY <2>1 DEF SeatsPages
  <2> HIDE DEF selected
  <2>4. shown' = [shown EXCEPT !.map = shown.map, !.selected = selected]
    BY <2>1, <2>2 DEF SeatsPages
  <2> QED BY <2>1, <2>3, <2>4, PickerStep
<1>13. CASE RefreshAnswered
  <2>1. PICK free \in SUBSET LiveSeats :
            shown' = [shown EXCEPT !.map = "live", !.selected = shown.selected \cap free]
    BY <1>13 DEF RefreshAnswered
  <2>2. shown.kind = "seats" /\ UNCHANGED <<forceMocks, movies, shows, missing, unread, load, held>>
    BY <1>13 DEF RefreshAnswered, catalogue, sinceOpened
  <2>3. shown.selected \cap free \in SUBSET Offered("live")
    BY <2>1 DEF Offered
  <2> QED BY <2>1, <2>2, <2>3, PickerStep
<1>14. CASE HoldRefused
  <2>1. /\ shown.kind = "seats" /\ shown \in SeatsPages
        /\ UNCHANGED <<forceMocks, movies, shows, missing, unread, load, held>>
        /\ shown' = [shown EXCEPT !.selected = {}]
    BY <1>0, <1>14 DEF HoldRefused, SelectedIsOffered, catalogue, sinceOpened
  <2>2. shown.map \in {"live", "mock"} /\ shown' = [shown EXCEPT !.map = shown.map, !.selected = {}]
    BY <2>1 DEF SeatsPages
  <2> QED BY <2>1, <2>2, PickerStep
<1>15. CASE HoldGranted
  <2>1. /\ shown \in SeatsPages /\ shown.selected \subseteq Offered(shown.map)
        /\ UNCHANGED <<forceMocks, movies, shows, missing, unread, load>> /\ shown' = Blank
        /\ held' = [map |-> shown.map, asked |-> shown.selected, got |-> shown.selected \cap LiveSeats]
    BY <1>0, <1>15 DEF HoldGranted, SelectedIsOffered, catalogue, sinceOpened
  <2>2. HoldIsWhole'
    BY <2>1 DEF HoldIsWhole, Offered, SeatsPages
  <2>3. LoadIsHonest'
    BY <1>0, <2>1 DEF LoadIsHonest, MayBeAbsent
  <2> QED BY <2>1, <2>2, <2>3 DEF Blank, BrowseInv, SelectedIsOffered, DemoIsLabelled, AbsenceIsTrue
<1>16. CASE RefreshFails \/ UNCHANGED vars
  <2>1. UNCHANGED vars
    BY <1>16 DEF RefreshFails
  <2>2. LoadIsHonest'
    BY <1>0, <2>1 DEF vars, LoadIsHonest, MayBeAbsent
  <2> QED BY <2>1, <2>2, LoadStep DEF vars
<1> QED BY <1>1, <1>2, <1>3, <1>4, <1>6, <1>7, <1>9, <1>10, <1>11, <1>12, <1>13, <1>14, <1>15, <1>16 DEF Next

LEMMA BrowseInvariant == Spec => []BrowseInv
BY InitBrowseInv, NextBrowseInv, PTL DEF Spec

\* Whatever fails and whatever is deleted between two calls, fixtures carry the
\* Demo label and nothing else does.
THEOREM FixturesAreLabelled == Spec => []DemoIsLabelled
<1>1. BrowseInv => DemoIsLabelled
  BY DEF BrowseInv
<1> QED BY <1>1, BrowseInvariant, PTL

\* A film that stays in the catalogue while its page is made is not said to be
\* off, unless nobody was asked or the body of an answer was lost.
THEOREM AbsencesAreTrue == Spec => []AbsenceIsTrue
<1>1. BrowseInv => AbsenceIsTrue
  BY DEF BrowseInv
<1> QED BY <1>1, BrowseInvariant, PTL

\* A hold is of every seat that was selected on the map of the hall.
THEOREM HoldsAreWhole == Spec => []HoldIsWhole
<1>1. BrowseInv => HoldIsWhole
  BY DEF BrowseInv
<1> QED BY <1>1, BrowseInvariant, PTL

-----------------------------------------------------------------------------
(* Type correctness. *)

Loads ==
    {NoLoad, [pc |-> "home"]} \cup [pc : {"movies"}, film : Films]
        \cup [pc : {"times"}, film : Films, movie : LiveFilms \cup {None}]
        \cup [pc : {"seats"}, show : Shows] \cup [pc : {"candidates"}, show : LiveShows]

Pages ==
    {Blank, [kind |-> "loadError"]}
        \cup [kind : {"home"}, films : SUBSET LiveFilms]
        \cup [kind : {"notFound"}, film : Films]
        \cup [kind : {"showtimes"}, film : Films, demo : BOOLEAN, times : SUBSET Shows]
        \cup SeatsPages

Holds ==
    [map : {"none", "live", "mock"}, asked : SUBSET (LiveSeats \cup DemoSeats),
     got : SUBSET LiveSeats]

LEMMA TypeOKParts ==
    TypeOK <=> /\ forceMocks \in BOOLEAN
               /\ movies \in SUBSET LiveFilms /\ shows \in SUBSET LiveShows
               /\ missing \in SUBSET LiveFilms /\ unread \in BOOLEAN
               /\ load \in Loads /\ shown \in Pages /\ held \in Holds
BY DEF TypeOK, Loads, Pages, Holds, SeatsPages, LoadError

\* What the program counter of a load, and the kind of a page, say of the rest.
LEMMA LoadFields ==
    ASSUME load \in Loads
    PROVE  /\ load.pc \in {"movies", "times"} => load.film \in Films
           /\ load.pc = "times" => load.movie \in LiveFilms \cup {None}
           /\ load.pc = "seats" => load.show \in Shows
           /\ load.pc = "candidates" => load.show \in LiveShows
BY DEF Loads, NoLoad

LEMMA SeatsPageFields ==
    ASSUME shown \in Pages, shown.kind = "seats"
    PROVE  shown \in SeatsPages
BY DEF Pages, Blank

\* Whatever it has of the film and its showtimes, the page is one of the pages.
LEMMA ShowtimesPageType ==
    ASSUME NEW film \in Films, NEW movie, NEW times \in SUBSET Shows, NEW failed \in BOOLEAN
    PROVE  ShowtimesPage(film, movie, times, failed) \in Pages
<1>1. FromFixtures(film, movie, times, failed) \in BOOLEAN
  BY DEF FromFixtures
<1>2. DemoShowsOf(film) \in SUBSET Shows
  BY DEF DemoShowsOf, Shows
<1>3. WithoutFilm(film, failed) \in Pages
  BY DEF WithoutFilm, LoadError, Pages
<1> QED BY <1>1, <1>2, <1>3 DEF ShowtimesPage, Pages

LEMMA InitTypeOK == Init => TypeOK
<1> SUFFICES ASSUME Init PROVE TypeOK
  OBVIOUS
<1>1. load \in Loads /\ shown \in Pages
  BY DEF Init, Loads, Pages
<1>2. held \in Holds
  BY DEF Init, NoHold, Holds
<1> QED BY <1>1, <1>2, TypeOKParts DEF Init

LEMMA NextTypeOK == TypeOK /\ [Next]_vars => TypeOK'
<1> SUFFICES ASSUME TypeOK, [Next]_vars PROVE TypeOK'
  OBVIOUS
<1>0. /\ forceMocks \in BOOLEAN
      /\ movies \in SUBSET LiveFilms /\ shows \in SUBSET LiveShows
      /\ missing \in SUBSET LiveFilms /\ unread \in BOOLEAN
      /\ load \in Loads /\ shown \in Pages /\ held \in Holds
  BY TypeOKParts
<1>1. ASSUME /\ forceMocks' = forceMocks
             /\ movies' \in SUBSET LiveFilms /\ shows' \in SUBSET LiveShows
             /\ missing' \in SUBSET LiveFilms /\ unread' \in BOOLEAN
             /\ load' \in Loads /\ shown' \in Pages /\ held' \in Holds
      PROVE  TypeOK'
  BY <1>0, <1>1, TypeOKParts DEF TypeOK, Loads, Pages, Holds, SeatsPages, LoadError
<1>2. ASSUME NEW page \in Pages, NEW lost \in BOOLEAN, Show(page, lost) PROVE TypeOK'
  BY <1>0, <1>1, <1>2 DEF Show, catalogue, Loads
<1>3. ASSUME NEW request \in Loads, Open(request) PROVE TypeOK'
  BY <1>0, <1>1, <1>3 DEF Open, catalogue, Pages
<1>4. ASSUME NEW m \in LiveFilms, CreateMovie(m) \/ DeleteMovie(m) PROVE TypeOK'
  BY <1>0, <1>1, <1>4 DEF CreateMovie, DeleteMovie, sinceOpened
<1>5. ASSUME OpenHome \/ (\E film \in Films : OpenShowtimes(film)) \/ (\E show \in Shows : OpenSeats(show))
      PROVE  TypeOK'
  BY <1>3, <1>5 DEF OpenHome, OpenShowtimes, OpenSeats, Loads
<1>6. CASE HomeRendered
  <2>1. [kind |-> "home", films |-> movies] \in Pages /\ LoadError \in Pages
        /\ [kind |-> "home", films |-> {}] \in Pages
    BY <1>0 DEF Pages, LoadError
  <2> QED BY <1>2, <1>6, <2>1 DEF HomeRendered
<1>7. CASE MoviesAnswered
  <2>1. load' \in Loads /\ unread' \in BOOLEAN
    BY <1>0, <1>7, LoadFields DEF MoviesAnswered, Loads
  <2> QED BY <1>0, <1>1, <1>7, <2>1 DEF MoviesAnswered, catalogue
<1>8. CASE MoviesSkipped
  <2>1. load.film \in Films
    BY <1>0, <1>8, LoadFields DEF MoviesSkipped
  <2>2. ShowtimesPage(load.film, None, {}, ~forceMocks) \in Pages
    BY <1>0, <2>1, ShowtimesPageType
  <2> QED BY <1>2, <1>8, <2>2 DEF MoviesSkipped
<1>9. CASE TimesAnswered
  <2>1. load.film \in Films /\ LiveShowsOf(load.film) \in SUBSET Shows
    BY <1>0, <1>9, LoadFields DEF TimesAnswered, LiveShowsOf, Shows
  <2>2. /\ ShowtimesPage(load.film, load.movie, LiveShowsOf(load.film), FALSE) \in Pages
        /\ ShowtimesPage(load.film, load.movie, {}, TRUE) \in Pages
        /\ ShowtimesPage(load.film, load.movie, {}, FALSE) \in Pages
    BY <2>1, ShowtimesPageType
  <2> QED BY <1>2, <1>9, <2>2 DEF TimesAnswered
<1>10. CASE SeatMapAnswered
  <2>1. load' \in Loads /\ unread' \in BOOLEAN
    BY <1>0, <1>10 DEF SeatMapAnswered, Loads
  <2> QED BY <1>0, <1>1, <1>10, <2>1 DEF SeatMapAnswered, catalogue
<1>11. ASSUME NEW show \in Shows, NEW film \in Films \cup {None}, NEW back \in Films \cup {None},
              NEW demo \in BOOLEAN, Show(SeatsPage(show, film, back, demo), FALSE)
       PROVE  TypeOK'
  <2>1. SeatsPage(show, film, back, demo) \in Pages
    BY DEF SeatsPage, SeatsPages, Pages
  <2> QED BY <1>2, <1>11, <2>1
<1>12. CASE CandidatesAnswered
  <2>1. load.show \in Shows
    BY <1>0, <1>12, LoadFields DEF CandidatesAnswered, Shows
  <2>2. PICK back \in {None} \cup {FilmOf[s] : s \in shows \cap {load.show}},
             film \in {FilmOf[load.show], None} :
            Show(SeatsPage(load.show, film, back, FALSE), FALSE)
    BY <1>12 DEF CandidatesAnswered
  <2>3. film \in Films \cup {None} /\ back \in Films \cup {None}
    BY <2>1, <2>2, BrowseAssumption
  <2> QED BY <1>11, <2>1, <2>2, <2>3
<1>13. CASE SeatMapSkipped
  <2> DEFINE film == Inferred(load.show)
             back == IF load.show \in DemoShowsOf(film) THEN film ELSE None
  <2>1. load.show \in Shows /\ film \in Films \cup {None} /\ back \in Films \cup {None}
    BY <1>0, <1>13, LoadFields, BrowseAssumption DEF SeatMapSkipped, Inferred, Films
  <2>2. Show(SeatsPage(load.show, film, back, TRUE), FALSE)
    BY <1>13 DEF SeatMapSkipped
  <2> HIDE DEF film, back
  <2> QED BY <1>11, <2>1, <2>2
<1>14. ASSUME shown \in SeatsPages, NEW map \in {"live", "mock"},
              NEW selected \in SUBSET (LiveSeats \cup DemoSeats),
              shown' = [shown EXCEPT !.map = map, !.selected = selected],
              UNCHANGED <<forceMocks, movies, shows, missing, unread, load, held>>
       PROVE  TypeOK'
  <2>1. shown' \in Pages
    BY <1>14 DEF SeatsPages, Pages
  <2> QED BY <1>0, <1>1, <1>14, <2>1
<1>15. ASSUME NEW label \in LiveSeats \cup DemoSeats, Toggle(label) PROVE TypeOK'
  <2> DEFINE selected == IF label \in shown.selected THEN shown.selected \ {label}
                                                     ELSE shown.selected \cup {label}
  <2>1. shown \in SeatsPages
    BY <1>0, <1>15, SeatsPageFields DEF Toggle
  <2>2. selected \in SUBSET (LiveSeats \cup DemoSeats) /\ shown.map \in {"live", "mock"}
    BY <2>1 DEF SeatsPages
  <2>3. shown' = [shown EXCEPT !.selected = selected]
    BY <1>15 DEF Toggle
  <2> HIDE DEF selected
  <2>4. shown' = [shown EXCEPT !.map = shown.map, !.selected = selected]
    BY <2>1, <2>3 DEF SeatsPages
  <2> QED BY <1>14, <1>15, <2>1, <2>2, <2>4 DEF Toggle, catalogue, sinceOpened
<1>16. CASE RefreshAnswered
  <2>1. shown \in SeatsPages
    BY <1>0, <1>16, SeatsPageFields DEF RefreshAnswered
  <2>2. PICK free \in SUBSET LiveSeats :
            shown' = [shown EXCEPT !.map = "live", !.selected = shown.selected \cap free]
    BY <1>16 DEF RefreshAnswered
  <2>3. shown.selected \cap free \in SUBSET (LiveSeats \cup DemoSeats)
    BY <2>2
  <2> QED BY <1>14, <1>16, <2>1, <2>2, <2>3 DEF RefreshAnswered, catalogue, sinceOpened
<1>17. CASE HoldGranted
  <2>1. shown \in SeatsPages
    BY <1>0, <1>17, SeatsPageFields DEF HoldGranted
  <2>2. held' \in Holds
    BY <1>17, <2>1 DEF HoldGranted, Holds, SeatsPages
  <2>3. shown' \in Pages
    BY <1>17 DEF HoldGranted, Pages
  <2> QED BY <1>0, <1>1, <1>17, <2>2, <2>3 DEF HoldGranted, catalogue, sinceOpened
<1>18. CASE HoldRefused
  <2>1. shown \in SeatsPages
    BY <1>0, <1>18, SeatsPageFields DEF HoldRefused
  <2>2. shown.map \in {"live", "mock"} /\ shown' = [shown EXCEPT !.map = shown.map, !.selected = {}]
    BY <1>18, <2>1 DEF HoldRefused, SeatsPages
  <2> QED BY <1>14, <1>18, <2>1, <2>2 DEF HoldRefused, catalogue, sinceOpened
<1>19. CASE RefreshFails \/ UNCHANGED vars
  BY <1>0, <1>1, <1>19 DEF RefreshFails, vars
<1> QED BY <1>4, <1>5, <1>6, <1>7, <1>8, <1>9, <1>10, <1>12, <1>13, <1>15, <1>16, <1>17, <1>18, <1>19
        DEF Next

\* Every reachable state of catalogue, sinceOpened, loader and page is well typed.
THEOREM BrowseTypeCorrect == Spec => []TypeOK
BY InitTypeOK, NextTypeOK, PTL DEF Spec

-----------------------------------------------------------------------------
(***************************************************************************)
(* A fixture seat map gives way.  A page of seats keeps its show until it  *)
(* is left, so one that keeps its fixtures is one whose show goes on       *)
(* being there: then the answer the picker asks for can always come.  That *)
(* it is enabled, RefreshCanConnect, is a premise: the prover has no rule  *)
(* for ENABLED.                                                            *)
(***************************************************************************)

OnFixture(s) == shown.kind = "seats" /\ shown.show = s /\ shown.map = "mock"
Settled(s) == shown.kind # "seats" \/ s \notin shows \/ shown.map = "live"

\* A page under way has no picker on screen yet.
LoadingIsBlank == load.pc # "none" => shown.kind = "blank"

LEMMA NextLoadingIsBlank == LoadingIsBlank /\ [Next]_vars => LoadingIsBlank'
<1> SUFFICES ASSUME LoadingIsBlank, [Next]_vars PROVE LoadingIsBlank'
  OBVIOUS
<1>1. ASSUME NEW page, NEW lost, Show(page, lost) PROVE LoadingIsBlank'
  BY <1>1 DEF Show, NoLoad, LoadingIsBlank
<1>2. ASSUME NEW request, Open(request) PROVE LoadingIsBlank'
  BY <1>2 DEF Open, Blank, LoadingIsBlank
<1>3. ASSUME shown' = shown, load' = load \/ load.pc # "none" PROVE LoadingIsBlank'
  BY <1>3 DEF LoadingIsBlank
<1>4. ASSUME shown.kind = "seats", load' = load PROVE LoadingIsBlank'
  BY <1>4 DEF LoadingIsBlank
<1>5. CASE \/ OpenHome \/ (\E film \in Films : OpenShowtimes(film))
           \/ \E show \in Shows : OpenSeats(show)
  BY <1>2, <1>5 DEF OpenHome, OpenShowtimes, OpenSeats
<1>6. CASE HomeRendered \/ MoviesSkipped \/ TimesAnswered \/ CandidatesAnswered \/ SeatMapSkipped
  BY <1>1, <1>6 DEF HomeRendered, MoviesSkipped, TimesAnswered, CandidatesAnswered, SeatMapSkipped
<1>7. CASE MoviesAnswered \/ SeatMapAnswered
  BY <1>3, <1>7 DEF MoviesAnswered, SeatMapAnswered
<1>8. CASE \/ (\E label \in LiveSeats \cup DemoSeats : Toggle(label))
           \/ RefreshAnswered \/ HoldGranted \/ HoldRefused
  BY <1>4, <1>8 DEF Toggle, RefreshAnswered, HoldGranted, HoldRefused
<1>9. CASE \/ (\E m \in LiveFilms : CreateMovie(m) \/ DeleteMovie(m))
           \/ RefreshFails \/ UNCHANGED vars
  BY <1>3, <1>9 DEF CreateMovie, DeleteMovie, RefreshFails, vars
<1> QED BY <1>5, <1>6, <1>7, <1>8, <1>9 DEF Next

\* The page of a show's seats stays that until it is left.
LEMMA PageKeepsShow ==
    ASSUME BrowseInv, LoadingIsBlank, [Next]_vars, NEW s \in LiveShows, OnFixture(s)
    PROVE  OnFixture(s)' \/ Settled(s)'
<1>1. shown \in SeatsPages
  BY DEF BrowseInv, SelectedIsOffered, OnFixture
<1>2. ASSUME shown' = shown PROVE OnFixture(s)'
  BY <1>2 DEF OnFixture
<1>3. ASSUME NEW request, Open(request) PROVE Settled(s)'
  BY <1>3 DEF Open, Blank, Settled
<1>4. ASSUME NEW label, Toggle(label) PROVE OnFixture(s)'
  BY <1>1, <1>4 DEF Toggle, OnFixture, SeatsPages
<1>5. CASE RefreshAnswered
  BY <1>1, <1>5 DEF RefreshAnswered, Settled, SeatsPages
<1>6. CASE HoldGranted
  BY <1>6 DEF HoldGranted, Blank, Settled
<1>7. CASE HoldRefused
  BY <1>1, <1>7 DEF HoldRefused, OnFixture, SeatsPages
<1>8. load.pc = "none"
  BY DEF LoadingIsBlank, OnFixture
<1>9. CASE \/ OpenHome \/ (\E film \in Films : OpenShowtimes(film))
           \/ \E show \in Shows : OpenSeats(show)
  BY <1>3, <1>9 DEF OpenHome, OpenShowtimes, OpenSeats
<1>10. CASE (\E m \in LiveFilms : CreateMovie(m) \/ DeleteMovie(m)) \/ RefreshFails \/ UNCHANGED vars
  BY <1>2, <1>10 DEF CreateMovie, DeleteMovie, RefreshFails, vars
<1>11. ~ \/ HomeRendered \/ MoviesAnswered \/ MoviesSkipped \/ TimesAnswered
         \/ SeatMapAnswered \/ CandidatesAnswered \/ SeatMapSkipped
  BY <1>8 DEF HomeRendered, MoviesAnswered, MoviesSkipped, TimesAnswered, SeatMapAnswered,
              CandidatesAnswered, SeatMapSkipped
<1> QED BY <1>4, <1>5, <1>6, <1>7, <1>9, <1>10, <1>11 DEF Next

LEMMA FixtureGivesWay ==
    ASSUME NEW s \in LiveShows
    PROVE  FairSpec /\ []RefreshCanConnect => (OnFixture(s) ~> Settled(s))
<1>1. Init => LoadingIsBlank
  BY DEF Init, LoadingIsBlank, NoLoad
<1>2. BrowseInv /\ LoadingIsBlank /\ [Next]_vars /\ OnFixture(s) => OnFixture(s)' \/ Settled(s)'
  BY PageKeepsShow
<1>3. OnFixture(s) /\ ~Settled(s)
        => shown.kind = "seats" /\ shown.show \in shows /\ shown.map = "mock"
  BY DEF OnFixture, Settled
<1>4. BrowseInv /\ <<RefreshAnswered>>_vars => Settled(s)'
  BY DEF BrowseInv, SelectedIsOffered, SeatsPages, RefreshAnswered, Settled
<1> QED BY <1>1, <1>2, <1>3, <1>4, BrowseInvariant, NextLoadingIsBlank, PTL
        DEF FairSpec, Spec, RefreshCanConnect

\* A fixture seat map of a show that exists gives way to the real one, unless the
\* page is left or the show deleted.
THEOREM DemoGivesWay == FairSpec /\ []RefreshCanConnect => DemoConnects
<1>1. ASSUME NEW s \in LiveShows
      PROVE  FairSpec /\ []RefreshCanConnect
               => ((shown.kind = "seats" /\ shown.show = s /\ shown.map = "mock")
                     ~> (\/ shown.kind # "seats" \/ s \notin shows \/ shown.map = "live"))
  <2>1. (shown.kind = "seats" /\ shown.show = s /\ shown.map = "mock") => OnFixture(s)
    BY DEF OnFixture
  <2>2. Settled(s) => (\/ shown.kind # "seats" \/ s \notin shows \/ shown.map = "live")
    BY DEF Settled
  <2> QED BY <2>1, <2>2, FixtureGivesWay, PTL
<1> QED BY <1>1 DEF DemoConnects
=============================================================================
