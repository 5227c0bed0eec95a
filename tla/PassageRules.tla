---------------------------- MODULE PassageRules ----------------------------
(***************************************************************************)
(* The passage and its marks: cmd/server/passage.go over internal/passage. *)
(* Pure operators. An optional value (a nil pointer, an empty string) is   *)
(* None. A passage is [t, end, until, from, to, endsAt]: `t` and `end` are *)
(* seconds, `until` an item id, `from` and `to` places in a book (one      *)
(* spelling of a locator, ordered by its number).                          *)
(***************************************************************************)
EXTENDS Integers, Sequences

CONSTANT None   \* no value; the modules that instantiate this one assume None \notin Int

Optional(S) == S \cup {None}

PassageInput == [t : Optional(Int), end : Optional(Int), until : Optional(Int),
                 from : Optional(Nat), to : Optional(Nat)]
Passage == [t : Optional(Nat), end : Optional(Nat), until : Optional(Nat),
            from : Optional(Nat), to : Optional(Nat), endsAt : Optional(Nat)]
Mark  == [item : Nat, seconds : Nat]
Marks == [in : Optional(Mark), out : Optional(Mark)]

NoMarks == [in |-> None, out |-> None]

-----------------------------------------------------------------------------
(* The grammar: a number that is negative spells no value.                 *)
NonNegative_Kept(v) == v        \* a mutation: the sign is not looked at
NonNegative(v) == IF v = None THEN None ELSE IF v < 0 THEN None ELSE v

(* What remains of a passage once it has been spelled as a link and parsed *)
(* again: an `end` at or before `t` is dropped, a passage that says nothing *)
(* is none. A negative `until` parses as an episode code, which no session *)
(* keeps, and so still counts as said.                                     *)
Parse(p) ==
    LET t    == NonNegative(p.t)
        end  == NonNegative(p.end)
        kept == IF t # None /\ end # None /\ end <= t THEN None ELSE end
    IN  IF /\ t = None /\ kept = None /\ p.until = None
           /\ p.from = None /\ p.to = None
        THEN None
        ELSE [t |-> t, end |-> kept, until |-> NonNegative(p.until),
              from |-> p.from, to |-> p.to]

(* `end` belongs to the single item of a scene, or to the last of a run.   *)
endsAt(end, until, item) ==
    IF until # None /\ until # item THEN None ELSE end

(* A request's passage, for the item it starts on.                         *)
resolvePassage(p, item) ==
    LET read == Parse(p)
    IN  IF read = None THEN None
        ELSE [t |-> read.t, end |-> read.end, until |-> read.until,
              from |-> read.from, to |-> read.to,
              endsAt |-> endsAt(read.end, read.until, item)]

(* A reading session keeps the text half; a `to` before `from` is dropped. *)
textPassage(p) ==
    IF p = None \/ (p.from = None /\ p.to = None) THEN None
    ELSE [t |-> None, end |-> None, until |-> None, from |-> p.from,
          to |-> IF p.from # None /\ p.to # None /\ p.to < p.from
                 THEN None ELSE p.to,
          endsAt |-> None]

(* The passage the next member of a run plays under: `until` and `end`     *)
(* carry on, `t` was the first item's.                                     *)
passageForNext(p, next) ==
    IF p = None \/ p.until = None THEN None
    ELSE [t |-> None, end |-> p.end, until |-> p.until, from |-> None,
          to |-> None, endsAt |-> endsAt(p.end, p.until, next)]

-----------------------------------------------------------------------------
(* A mark before the beginning is the beginning.                           *)
markSeconds(pos) == IF pos < 0 THEN 0 ELSE pos

Distance(a, b) == IF a < b THEN b - a ELSE a - b

(* The nearest chapter start within tolerance (the later one on a tie, as  *)
(* the scan of ascending starts keeps the last of equals), else pos.       *)
snapToChapter(pos, starts, tolerance) ==
    LET near == {s \in starts : Distance(s, pos) <= tolerance}
        best == {s \in near : \A r \in near : Distance(s, pos) <= Distance(r, pos)}
    IN  IF near = {} THEN pos ELSE CHOOSE s \in best : \A r \in best : r <= s

(* An item's place in the work's order; an id the work does not hold       *)
(* counts as the first.                                                    *)
placeIn(order, item) ==
    IF \E i \in 1 .. Len(order) : order[i] = item
    THEN CHOOSE i \in 1 .. Len(order) :
            order[i] = item /\ \A j \in 1 .. i - 1 : order[j] # item
    ELSE 1

Before(a, b, order) ==
    LET pa == placeIn(order, a.item)
        pb == placeIn(order, b.item)
    IN  pa < pb \/ (pa = pb /\ a.seconds < b.seconds)

(* A mutation of setMark: the ends are kept the way they were given.       *)
setMark_NoSwap(cur, kind, m, order) ==
    [in |-> IF kind = "in" THEN m ELSE cur.in,
     out |-> IF kind = "in" THEN cur.out ELSE m]

(* Ends given the wrong way round are swapped; two marks on one instant    *)
(* are a point, and the out is dropped.                                    *)
setMark(cur, kind, m, order) ==
    LET in  == IF kind = "in" THEN m ELSE cur.in
        out == IF kind = "in" THEN cur.out ELSE m
    IN  IF in = None \/ out = None \/ Before(in, out, order)
        THEN [in |-> in, out |-> out]
        ELSE IF Before(out, in, order) THEN [in |-> out, out |-> in]
             ELSE [in |-> in, out |-> None]

clearMark(cur, kind) == [cur EXCEPT ![kind] = None]

(* The marks as the passage a link says.                                   *)
markedPassage(m) ==
    IF m.in = None THEN None
    ELSE LET end   == IF m.out = None THEN None ELSE m.out.seconds
             until == IF m.out = None \/ m.out.item = m.in.item
                      THEN None ELSE m.out.item
         IN  [t |-> m.in.seconds, end |-> end, until |-> until, from |-> None,
              to |-> None, endsAt |-> endsAt(end, until, m.in.item)]
=============================================================================
