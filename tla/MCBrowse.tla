------------------------------ MODULE MCBrowse ------------------------------
(* A small instance of Browse for TLC. *)
EXTENDS Browse, TLC

CONSTANTS f1, f2, d1, d2, s1, s2, x1, x2, A1, A2, B1

TwoFilms == {f1, f2}
TwoShows == {s1, s2}
TwoDemoFilms == {d1, d2}
TwoDemoShows == {x1, x2}
ShowsOfFilms == s1 :> f1 @@ s2 :> f2 @@ x1 :> d1 @@ x2 :> d2
Hall == {A1, A2}
DemoHall == {A2, B1}
=============================================================================
