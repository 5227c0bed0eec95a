------------------------------- MODULE Works -------------------------------
(***************************************************************************)
(* internal/works: the library's files grouped into works, a profile's     *)
(* standing in a work, and the list of what it may resume. Everything is   *)
(* derived from the rows each time it is asked for.                        *)
(*                                                                         *)
(* A file's id orders it as its object key does, its title stands for the  *)
(* title and the year, and its length, in the units of a place, is 0 where *)
(* nobody could measure it. tmdb is None until it is enriched. A place is  *)
(* [at, when]: `at` in the units of the file's length, `when` later for a  *)
(* later write.                                                            *)
(***************************************************************************)
EXTENDS Integers, Sequences, FiniteSets, SequencesExt

CONSTANTS
    Slug(_),    \* the slug of a title
    None

FileRow == [id : Nat, kind : STRING, title : STRING, by : STRING \cup {None}, season : Nat,
            part : Nat, length : Nat, tmdb : Nat \cup {None}, poster : BOOLEAN,
            cert : STRING \cup {None}, genres : SUBSET STRING]
Place == [at : Nat, when : Nat]

MinResume == 1  \* the shortest place that is worth resuming

ToSeq(S, Before(_, _)) ==
    SortSeq(FoldSet(LAMBDA x, acc : Append(acc, x), <<>>, S), Before)
IsExtra(it) == it.kind = "extra"
MultiPart(w) == w.kind \in {"show", "audiobook", "album"}

-----------------------------------------------------------------------------
(* Build. Where a file belongs: bonus material goes to its show, else to   *)
(* the first film of its title, else to a show of its own.                 *)
OfTitle(items, kind, title) == {f \in items : f.kind = kind /\ f.title = title}
First(S) == CHOOSE f \in S : \A g \in S : f.id <= g.id

Home(items, it) ==
    CASE it.kind = "audiobook_part" -> <<"audiobook", it.title, it.by>>
      [] it.kind = "track" -> <<"album", it.title, it.by>>
      [] it.kind = "episode" -> <<"show", it.title>>
      [] it.kind = "extra" ->
            IF OfTitle(items, "episode", it.title) = {} /\ OfTitle(items, "movie", it.title) # {}
            THEN <<"movie", First(OfTitle(items, "movie", it.title)).id>>
            ELSE <<"show", it.title>>
      [] OTHER -> <<IF it.kind = "unknown" THEN "file" ELSE it.kind, it.id>>

(* finish: the members in the work's own order, bonus material last and    *)
(* the unnumbered after the numbered.                                      *)
Comes(a, b) ==
    CASE IsExtra(a) # IsExtra(b) -> IsExtra(b)
      [] a.season # b.season -> a.season < b.season
      [] a.part # b.part -> IF a.part = 0 \/ b.part = 0 THEN b.part = 0 ELSE a.part < b.part
      [] OTHER -> a.id < b.id

Enriched(w) == {i \in DOMAIN w.items : w.items[i].tmdb # None}
Posters(w) == {i \in Enriched(w) : w.items[i].poster}
Foremost(S) == CHOOSE i \in S : \A j \in S : i <= j

SlugKey(w) == <<w.kind, Slug(w.items[1].title), w.items[1].by>>
OwnKey(w) ==
    IF w.kind = "file" THEN <<"file", w.items[1].id>>
    ELSE IF Enriched(w) # {} THEN <<"tmdb", w.items[Foremost(Enriched(w))].tmdb>>
    ELSE SlugKey(w)

(* The member that stands for the work.                                    *)
Representative(w) ==
    w.items[IF Posters(w) # {} THEN Foremost(Posters(w)) ELSE 1]

Finish(kind, S) ==
    LET w == [kind |-> kind, items |-> ToSeq(S, Comes)]
    IN  [kind |-> kind, items |-> w.items, key |-> OwnKey(w), claim |-> OwnKey(w)]

(* dedupeKeys: the same key and kind is the same work; a key of another    *)
(* kind's is given up for the slug, which keeps its place in the index.    *)
Claim(out, w) ==
    LET at(key) == {i \in DOMAIN out : out[i].claim = key}
        given == [w EXCEPT !.key = SlugKey(w), !.claim = SlugKey(w)]
        last == <<SlugKey(w), Representative(w).id>>
        i == CHOOSE j \in at(w.key) : TRUE
    IN  CASE at(w.key) = {} -> Append(out, w)
          [] at(w.key) # {} /\ out[i].kind = w.kind ->
                [out EXCEPT ![i] = [Finish(w.kind, ToSet(out[i].items) \cup ToSet(w.items))
                                        EXCEPT !.claim = w.key]]
          [] at(w.key) # {} /\ out[i].kind # w.kind /\ at(SlugKey(w)) = {} -> Append(out, given)
          [] OTHER -> Append(out, [given EXCEPT !.key = last, !.claim = last])

(* Shows come after films, books and strays, records last; a work has its  *)
(* first file's place.                                                     *)
Rank(kind) == CASE kind = "show" -> 1 [] kind \in {"audiobook", "album"} -> 2 [] OTHER -> 0
Sooner(v, w) ==
    \/ Rank(v.kind) < Rank(w.kind)
    \/ /\ Rank(v.kind) = Rank(w.kind)
       /\ First(ToSet(v.items)).id < First(ToSet(w.items)).id

Build(items) ==
    LET homes == {Home(items, it) : it \in items}
        works == {Finish(h[1], {it \in items : Home(items, it) = h}) : h \in homes}
    IN  FoldLeft(Claim, <<>>, ToSeq(works, Sooner))

WorkOf(works, id) ==
    LET at == {i \in DOMAIN works : \E it \in ToSet(works[i].items) : it.id = id}
    IN  IF at = {} THEN None ELSE works[CHOOSE i \in at : TRUE]
ByKey(works, key) ==
    LET at == {i \in DOMAIN works : works[i].key = key}
    IN  IF at = {} THEN None ELSE works[CHOOSE i \in at : \A j \in at : j <= i]

-----------------------------------------------------------------------------
(* Neighbours: the members either side, bonus material aside.              *)
Walked_All(w) == DOMAIN w.items     \* a mutation: a featurette is next
Walked(w) == {i \in DOMAIN w.items : ~IsExtra(w.items[i])}
Index(w, id) == CHOOSE i \in DOMAIN w.items : w.items[i].id = id

Following(w, id) ==
    LET after == {i \in Walked(w) : i > Index(w, id)}
    IN  IF Index(w, id) \notin Walked(w) \/ after = {} THEN None
        ELSE w.items[CHOOSE i \in after : \A j \in after : i <= j]
Preceding(w, id) ==
    LET before == {i \in Walked(w) : i < Index(w, id)}
    IN  IF Index(w, id) \notin Walked(w) \/ before = {} THEN None
        ELSE w.items[CHOOSE i \in before : \A j \in before : j <= i]

-----------------------------------------------------------------------------
(* Progress. A place in a text and one on a clock are both a share of the  *)
(* file's length.                                                          *)
Lesser(a, b) == IF a <= b THEN a ELSE b
Finished(it, p) == it.length > 0 /\ 10 * p.at >= 9 * it.length
Resumable(p) == p.at >= MinResume

Placed(w, pos) == {i \in DOMAIN w.items : pos[w.items[i].id] # None}
Latest(w, pos, S) ==
    CHOOSE i \in S : \A j \in S : pos[w.items[j].id].when <= pos[w.items[i].id].when
Furthest(S) == CHOOSE i \in S : \A j \in S : j <= i
Total(w, S, F(_)) == FoldSet(LAMBDA i, sum : sum + F(w.items[i]), 0, S)

(* A share of the work: n of `of`.                                         *)
Standing(n, of) == [n |-> n, of |-> of, finished |-> of > 0 /\ 10 * n >= 9 * of]

OfOne(w, pos, i) ==
    LET it == w.items[i]  p == pos[it.id]
    IN  Standing(Lesser(p.at, it.length), it.length)

OfParts_Latest(w, pos) ==       \* a mutation: where it was last heard
    LET f == Latest(w, pos, Placed(w, pos) \cap Walked(w))
        Listening(it) == it.length
        heard == Total(w, {i \in Walked(w) : i < f}, Listening)
    IN  Standing(heard + Lesser(pos[w.items[f].id].at, w.items[f].length),
                 Total(w, Walked(w), Listening))
OfParts(w, pos) ==
    LET f == Furthest(Placed(w, pos) \cap Walked(w))
        Listening(it) == it.length
        heard == Total(w, {i \in Walked(w) : i < f}, Listening)
    IN  Standing(heard + Lesser(pos[w.items[f].id].at, w.items[f].length),
                 Total(w, Walked(w), Listening))

(* Episodes count alike, and the furthest one counts for the share of it   *)
(* that was watched; Whole is the worth of an episode.                     *)
Whole == 10
OfShow(w, pos) ==
    LET placed == Placed(w, pos) \cap Walked(w)
        done == {i \in placed : Finished(w.items[i], pos[w.items[i].id])}
        f == Furthest(placed)
        it == w.items[f]
        part == IF f \in done \/ it.length = 0 THEN 0
                ELSE (Whole * Lesser(pos[it.id].at, it.length)) \div it.length
    IN  Standing(Whole * Cardinality(done) + part, Whole * Cardinality(Walked(w)))

WorkProgress(w, pos) ==
    LET placed == Placed(w, pos)
        walked == placed \cap Walked(w)
    IN  CASE placed = {} -> None
          [] w.kind = "show" /\ walked # {} -> OfShow(w, pos)
          [] w.kind = "show" /\ placed # {} /\ walked = {} ->
                [OfOne(w, pos, Latest(w, pos, placed)) EXCEPT !.finished = FALSE]
          [] w.kind \in {"audiobook", "album"} /\ Cardinality(Walked(w)) > 1 -> OfParts(w, pos)
          [] OTHER -> OfOne(w, pos, Latest(w, pos, placed))

-----------------------------------------------------------------------------
(* ContinueList: a row for each work's latest place; past its end, the     *)
(* next member, with its own place if that is unfinished. Its cap of rows  *)
(* is above what a model holds.                                            *)
Row(w, it, at) == [item |-> it, key |-> w.key, at |-> at]
Own(it, p) == IF p # None /\ Resumable(p) /\ ~Finished(it, p) THEN p.at ELSE 0

LatestPlaced(w, pos) ==
    LET placed == {i \in Placed(w, pos) : Resumable(pos[w.items[i].id])}
    IN  {w.items[i] : i \in {j \in placed : j = Latest(w, pos, placed)}}
UpNext(w, it) == IF MultiPart(w) THEN {Following(w, it.id)} \ {None} ELSE {}

RowsOf_Stays(w, pos) ==         \* a mutation: what is finished goes on being offered
    {Row(w, it, pos[it.id].at) : it \in LatestPlaced(w, pos)}
RowsOf(w, pos) ==
    UNION {IF Finished(it, pos[it.id])
           THEN {Row(w, next, Own(next, pos[next.id])) : next \in UpNext(w, it)}
           ELSE {Row(w, it, pos[it.id].at)}
           : it \in LatestPlaced(w, pos)}

ContinueList(works, pos) == UNION {RowsOf(w, pos) : w \in works}
=============================================================================
