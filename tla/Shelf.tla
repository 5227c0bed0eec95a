------------------------------- MODULE Shelf -------------------------------
(***************************************************************************)
(* What the converter promises the house: a film on the shelf stays the    *)
(* film that was put there last, and may one day play everywhere. Only     *)
(* people bring films and take them away, and only a film they touched     *)
(* while it was being converted may turn into something else.              *)
(***************************************************************************)
EXTENDS Naturals

CONSTANT Films

VARIABLES
    latest,     \* film -> the content brought last, 0 when it was taken away
    shelf,      \* film -> the content that is there (0: none), does it play everywhere
    disturbed   \* the films nothing is promised of

shelfVars == <<latest, shelf, disturbed>>

ShelfInit ==
    /\ latest \in [Films -> Nat] /\ disturbed = {}
    /\ shelf \in [Films -> [content : Nat, everywhere : BOOLEAN]]
    /\ \A f \in Films : shelf[f].content = latest[f]

Others(f) == \A g \in Films \ {f} : shelf'[g] = shelf[g] /\ latest'[g] = latest[g]

Bring(f) ==
    /\ latest'[f] > latest[f] /\ Others(f)
    /\ disturbed' \in {disturbed \ {f}, disturbed \cup {f}}
    /\ f \in disturbed' \/ shelf'[f].content = latest'[f]

Take(f) ==
    /\ latest'[f] = 0 /\ shelf'[f].content = 0 /\ Others(f)
    /\ disturbed' \in {disturbed \ {f}, disturbed \cup {f}}

Convert(f) ==
    /\ f \notin disturbed /\ ~shelf[f].everywhere
    /\ shelf' = [shelf EXCEPT ![f].everywhere = TRUE]
    /\ UNCHANGED <<latest, disturbed>>

Stray(f) ==
    /\ f \in disturbed /\ Others(f)
    /\ UNCHANGED <<latest, disturbed>>

ShelfNext == \E f \in Films : Bring(f) \/ Take(f) \/ Convert(f) \/ Stray(f)

ShelfSpec == ShelfInit /\ [][ShelfNext]_shelfVars
=============================================================================
