---------------------------- MODULE MCChangeFeed ----------------------------
(***************************************************************************)
(* The change feed on small libraries. Two files that one show or two hold *)
(* are enough for a work to lose a member to another.                      *)
(***************************************************************************)
EXTENDS ChangeFeed

Film(t) == [etag |-> 1, media |-> None, sig |-> 0, probed |-> 1, title |-> t, version |-> 1]
TheFilm == {[film |-> 5, v |-> 1]}

(* Both files arrive with one title, so they are one show until somebody   *)
(* says otherwise.                                                         *)
OneShow == {Film("show")}
=============================================================================
