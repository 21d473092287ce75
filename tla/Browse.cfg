CONSTANTS
    f1 = f1
    f2 = f2
    d1 = d1
    d2 = d2
    s1 = s1
    s2 = s2
    x1 = x1
    x2 = x2
    A1 = A1
    A2 = A2
    B1 = B1
    LiveFilms <- TwoFilms
    LiveShows <- TwoShows
    DemoFilms <- TwoDemoFilms
    DemoShows <- TwoDemoShows
    FirstFilm = d1
    FilmOf <- ShowsOfFilms
    LiveSeats <- Hall
    DemoSeats <- DemoHall
    None = None
SPECIFICATION FairSpec
INVARIANTS
    DemoIsLabelled
    AbsenceIsTrue
    HoldIsWhole
PROPERTIES
    DemoConnects
