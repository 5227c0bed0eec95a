---------------------------- MODULE MCHousehold ----------------------------
(* A film and a show that TMDB gave one number, the show with two episodes *)
(* and a featurette, and an audiobook in two parts.                        *)
EXTENDS Household

AsItIs(title) == title

Video(id, kind, title, part, tmdb, cert) ==
    [id |-> id, kind |-> kind, title |-> title, by |-> None, season |-> 0, part |-> part,
     length |-> Length, tmdb |-> tmdb, poster |-> tmdb # None, cert |-> cert,
     genres |-> IF tmdb = None THEN {} ELSE {"drama"}]
Part(id, part) == [Video(id, "audiobook_part", "novel", part, None, None) EXCEPT !.by = "author"]

TheFiles == 1 .. 6
Catalogue ==
    <<Video(1, "movie", "film", 0, 7, "R"),
      Video(2, "episode", "show", 1, 7, "PG"), Video(3, "episode", "show", 2, 7, "PG"),
      Video(4, "extra", "show", 0, None, None), Part(5, 1), Part(6, 2)>>
=============================================================================
