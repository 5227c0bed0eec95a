------------------------------ MODULE MCScanner ------------------------------
(***************************************************************************)
(* The scanner on two files. The first build reads both paths as one       *)
(* title; the second learnt to tell them apart, and the third probes and   *)
(* looks up more than they did. TMDB knows both titles, and knows nothing  *)
(* of one that a person may make up.                                       *)
(***************************************************************************)
EXTENDS Scanner

Paths == [b \in 1 .. 3 |-> [k \in Keys |-> IF b > 1 /\ k = 2 THEN "short" ELSE "film"]]
SameButLast == [b \in 1 .. 3 |-> IF b = 3 THEN 2 ELSE 1]
TheTwo == [t \in Titles |-> CASE t = "film" -> 5 [] t = "short" -> 6 [] OTHER -> None]

(* Two states that differ in the feed's counters alone are one: nothing    *)
(* the scanner does reads them. The first part adds nothing to the second, *)
(* and nothing changes `places` here: the two have TLC evaluate `items`    *)
(* and `places` before it puts a state aside.                              *)
Uncounted ==
    <<items = [k \in Keys |-> None],
      [k \in Keys |-> IF items[k] = None THEN None ELSE [items[k] EXCEPT !.seq = 0]],
      places, scannerVars>>
=============================================================================
