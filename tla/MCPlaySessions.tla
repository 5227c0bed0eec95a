--------------------------- MODULE MCPlaySessions ---------------------------
(* PlaySessions on small instances: one work of two files beside a book.   *)
EXTENDS PlaySessions, TLC
CONSTANTS show, book, chris, kay

Film      == {1}
Episodes  == {1, 2}
AndBonus  == {1, 2, 3}
OneFile   == (show :> <<1>>)
TwoFiles  == (show :> <<1, 2>>)
WithBook  == (show :> <<1, 3>> @@ book :> <<2>>)

Direct    == [i \in Items |-> {"direct"}]
Transcode == [i \in Items |-> {"transcode"}]
FilmAndBook == (1 :> {"direct"} @@ 2 :> {"read"} @@ 3 :> {})

NoPassages == {}
Blank    == [t |-> None, end |-> None, until |-> None, from |-> None, to |-> None]
Scene    == {[Blank EXCEPT !.t = 1, !.end = 2]}
SceneAndText == Scene \cup {[Blank EXCEPT !.t = -1, !.from = 1]}
RunOfTwo == {[Blank EXCEPT !.t = 1, !.end = 1, !.until = 2]}

NoMarksMade == [p \in Profiles |-> {}]
OwnSeconds  == [p \in Profiles |-> IF p = chris THEN {0, 1, None} ELSE {}]
NoChapters  == [i \in Items |-> {}]
Interchangeable == Permutations(Threads) \cup Permutations(Sessions)
=============================================================================
