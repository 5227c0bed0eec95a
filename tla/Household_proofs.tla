-------------------------- MODULE Household_proofs --------------------------
(***************************************************************************)
(* What one profile may rely on, of every library Build shelves as it      *)
(* should: Shelved stands for what Build computes, which is a fold over    *)
(* the files and stays with TLC.                                           *)
(***************************************************************************)
EXTENDS Household, FiniteSetTheorems, SequenceTheorems, WellFoundedInduction, TLAPS

(* A nonempty set of numbers has a least, and a largest below a bound.     *)
LEMMA Least ==
    ASSUME NEW S \in SUBSET Nat, S # {}
    PROVE  \E x \in S : \A y \in S : x <= y
<1> DEFINE T == {0 .. y : y \in S}
<1>1. T \subseteq FiniteSubsetsOf(Nat) /\ T # {}
    <2>1. \A y \in S : IsFiniteSet(0 .. y) /\ 0 .. y \in SUBSET Nat
        BY FS_Interval
    <2> QED BY <2>1 DEF FiniteSubsetsOf
<1>2. PICK t \in T : \A u \in T : <<u, t>> \notin StrictSubsetOrdering(Nat)
    BY <1>1, FS_StrictSubsetOrderingWellFounded, WFMin
<1>3. PICK x \in S : t = 0 .. x
    OBVIOUS
<1>4. ASSUME NEW y \in S, y < x PROVE FALSE
    <2>1. 0 .. y \subseteq 0 .. x /\ x \in 0 .. x /\ x \notin 0 .. y
        BY <1>4
    <2>2. 0 .. y \in T /\ 0 .. y \subseteq Nat /\ 0 .. x \subseteq Nat
        OBVIOUS
    <2>3. <<0 .. y, t>> \in StrictSubsetOrdering(Nat)
        BY <1>3, <2>1, <2>2 DEF StrictSubsetOrdering
    <2> QED BY <1>2, <2>2, <2>3
<1>5. \A y \in S : x <= y
    BY <1>4
<1> QED BY <1>5

LEMMA Largest ==
    ASSUME NEW n \in Nat, NEW S \in SUBSET (1 .. n), S # {}
    PROVE  \E x \in S : \A y \in S : y <= x
<1> DEFINE T == {n - y : y \in S}
<1>1. T \in SUBSET Nat /\ T # {}
    <2>1. \A y \in S : y \in 1 .. n /\ n - y \in Nat
        OBVIOUS
    <2> QED BY <2>1
<1>2. PICK t \in T : \A u \in T : t <= u
    <2> HIDE DEF T
    <2> QED BY <1>1, Least
<1>3. PICK x \in S : t = n - x
    OBVIOUS
<1>4. \A y \in S : n - x <= n - y /\ y \in 1 .. n
    BY <1>2, <1>3
<1>5. \A y \in S : y <= x
    BY <1>4
<1> QED BY <1>5

(* The first and the last of some members of a work.                       *)
LEMMA ForemostIs ==
    ASSUME NEW n \in Nat, NEW S \in SUBSET (1 .. n), S # {}
    PROVE  Foremost(S) \in S /\ \A i \in S : Foremost(S) <= i
<1>1. \E x \in S : \A y \in S : x <= y
    BY Least
<1> QED BY <1>1 DEF Foremost

LEMMA FurthestIs ==
    ASSUME NEW n \in Nat, NEW S \in SUBSET (1 .. n), S # {}
    PROVE  Furthest(S) \in S /\ \A i \in S : i <= Furthest(S)
<1>1. \E x \in S : \A y \in S : y <= x
    BY Largest
<1> QED BY <1>1 DEF Furthest

-----------------------------------------------------------------------------
(* The members of a work, and the walk through them.                       *)
OnceEach(w) == \A k, l \in DOMAIN w.items : w.items[k].id = w.items[l].id => k = l
IsWork(w) == w.items \in Seq(FileRow) \ {<<>>} /\ OnceEach(w)

LEMMA IndexIs ==
    ASSUME NEW w, OnceEach(w), NEW i \in DOMAIN w.items
    PROVE  Index(w, w.items[i].id) = i
<1>1. \E k \in DOMAIN w.items : w.items[k].id = w.items[i].id
    OBVIOUS
<1>2. /\ Index(w, w.items[i].id) \in DOMAIN w.items
      /\ w.items[Index(w, w.items[i].id)].id = w.items[i].id
    BY <1>1 DEF Index
<1> QED BY <1>2 DEF OnceEach

(* The next member is the first of the walk behind, the one before the     *)
(* last of the walk in front.                                              *)
LEMMA FollowingIs ==
    ASSUME NEW w, IsWork(w), NEW i \in Walked(w)
    PROVE  LET after == {j \in Walked(w) : j > i}
               next == Following(w, w.items[i].id)
           IN  /\ after = {} => next = None
               /\ after # {} => /\ next = w.items[Foremost(after)] /\ Foremost(after) \in after
                                /\ \A j \in after : Foremost(after) <= j
<1> DEFINE after == {j \in Walked(w) : j > i}
<1>1. DOMAIN w.items = 1 .. Len(w.items) /\ Len(w.items) \in Nat
    BY DEF IsWork
<1>2. i \in DOMAIN w.items /\ after \in SUBSET (1 .. Len(w.items))
    BY <1>1 DEF Walked
<1>3. Index(w, w.items[i].id) = i
    BY <1>2, IndexIs DEF IsWork
<1>4. Following(w, w.items[i].id) = IF after = {} THEN None ELSE w.items[Foremost(after)]
    BY <1>3 DEF Following, Foremost
<1>5. after # {} => Foremost(after) \in after /\ \A j \in after : Foremost(after) <= j
    BY <1>1, <1>2, ForemostIs
<1> QED BY <1>4, <1>5

LEMMA PrecedingIs ==
    ASSUME NEW w, IsWork(w), NEW i \in Walked(w), NEW k \in Walked(w), k < i,
           \A j \in Walked(w) : j < i => j <= k
    PROVE  Preceding(w, w.items[i].id) = w.items[k]
<1> DEFINE before == {j \in Walked(w) : j < i}
<1>1. DOMAIN w.items = 1 .. Len(w.items) /\ Len(w.items) \in Nat
    BY DEF IsWork
<1>2. i \in DOMAIN w.items /\ before \in SUBSET (1 .. Len(w.items)) /\ k \in before
    BY <1>1 DEF Walked
<1>3. Index(w, w.items[i].id) = i
    BY <1>2, IndexIs DEF IsWork
<1>4. Preceding(w, w.items[i].id) = w.items[CHOOSE j \in before : \A l \in before : l <= j]
    BY <1>2, <1>3 DEF Preceding
<1>5. \A j \in before : (\A l \in before : l <= j) => j = k
    BY <1>1, <1>2
<1>6. \A l \in before : l <= k
    OBVIOUS
<1>7. (CHOOSE j \in before : \A l \in before : l <= j) = k
    <2> HIDE DEF before
    <2> QED BY <1>2, <1>5, <1>6
<1> QED BY <1>4, <1>7

(* Of a work whose members are there once, next goes from each member to   *)
(* another and back, and stops at one only (progress.go, Neighbours).      *)
THEOREM WalksThrough ==
    ASSUME NEW w, IsWork(w)
    PROVE  WalkedThrough(w)
<1> DEFINE walk == {it \in ToSet(w.items) : ~IsExtra(it)}
           N(it) == Following(w, it.id)
<1>1. DOMAIN w.items = 1 .. Len(w.items) /\ Len(w.items) \in Nat
    BY DEF IsWork
<1>2. walk = {w.items[i] : i \in Walked(w)}
    BY DEF ToSet, Walked
<1>3. \A i \in DOMAIN w.items : w.items[i] # None
    BY <1>1, NoneAssumption DEF IsWork
<1>4. Walked(w) \in SUBSET (1 .. Len(w.items))
    BY <1>1 DEF Walked
<1>5. ASSUME NEW it \in walk, N(it) # None
      PROVE  N(it) \in walk /\ Preceding(w, N(it).id) = it
    <2>1. PICK i \in Walked(w) : it = w.items[i]
        BY <1>2
    <2> DEFINE after == {j \in Walked(w) : j > i}
    <2>2. after # {}
        BY <1>5, <2>1, FollowingIs
    <2>3. PICK n \in after : N(it) = w.items[n] /\ \A j \in after : n <= j
        BY <2>1, <2>2, FollowingIs
    <2>4. n \in Walked(w) /\ i < n /\ \A j \in Walked(w) : j < n => j <= i
        BY <1>4, <2>3
    <2>5. Preceding(w, w.items[n].id) = w.items[i]
        BY <2>4, PrecedingIs
    <2> QED BY <1>2, <2>1, <2>3, <2>4, <2>5
<1>6. ASSUME walk # {}
      PROVE  Cardinality({it \in walk : N(it) = None}) = 1
    <2>1. Walked(w) # {}
        BY <1>2, <1>6
    <2>2. PICK last \in Walked(w) : \A i \in Walked(w) : i <= last
        BY <1>1, <1>4, <2>1, Largest
    <2>3. ASSUME NEW i \in Walked(w)
          PROVE  N(w.items[i]) = None <=> i = last
        <3> DEFINE after == {j \in Walked(w) : j > i}
        <3>1. after = {} <=> i = last
            BY <1>4, <2>2
        <3>2. after # {} => Foremost(after) \in Walked(w) /\ N(w.items[i]) = w.items[Foremost(after)]
            BY FollowingIs
        <3>3. after = {} => N(w.items[i]) = None
            BY FollowingIs
        <3> QED BY <1>3, <3>1, <3>2, <3>3 DEF Walked
    <2>4. {it \in walk : N(it) = None} = {w.items[last]}
        <3> HIDE DEF N
        <3> QED BY <1>2, <2>2, <2>3
    <2> QED BY <2>4, FS_Singleton
<1> QED BY <1>5, <1>6 DEF WalkedThrough

-----------------------------------------------------------------------------
(* The standing of a show: what is finished, and a share of the furthest.  *)
LEMMA ShareType ==
    ASSUME NEW x \in Nat, NEW y \in Nat, y # 0
    PROVE  (Whole * Lesser(x, y)) \div y \in 0 .. Whole
<1> DEFINE z == Lesser(x, y)
<1>1. z \in Nat /\ z <= y
    BY DEF Lesser
<1> HIDE DEF z
<1>2. 10 * z \in Nat /\ 10 * z <= 10 * y
    BY <1>1
<1>3. (10 * z) \div y \in 0 .. 10
    BY <1>2
<1> QED BY <1>3 DEF Whole, z

LEMMA LengthOf ==
    ASSUME NEW it \in FileRow
    PROVE  it.length \in Nat
BY Zenon DEF FileRow

(* The terms of OfShow: how many are finished, and the furthest's share.   *)
Done(w, places) ==
    {i \in Placed(w, places) \cap Walked(w) : Finished(w.items[i], places[w.items[i].id])}
PartOf(w, places, f) ==
    IF f \in Done(w, places) \/ w.items[f].length = 0 THEN 0
    ELSE (Whole * Lesser(places[w.items[f].id].at, w.items[f].length)) \div w.items[f].length
AreAt(w, places) ==
    \A i \in DOMAIN w.items : places[w.items[i].id] \in Place \cup {None}

LEMMA ShowStands ==
    ASSUME NEW w, IsWork(w), w.kind = "show", NEW places, AreAt(w, places),
           Placed(w, places) \cap Walked(w) # {}
    PROVE  LET f == Furthest(Placed(w, places) \cap Walked(w))
               s == WorkProgress(w, places)
           IN  /\ s.n = Whole * Cardinality(Done(w, places)) + PartOf(w, places, f)
               /\ s.of = Whole * Cardinality(Walked(w))
               /\ f \in Placed(w, places) \cap Walked(w)
               /\ \A i \in Placed(w, places) \cap Walked(w) : i <= f
               /\ PartOf(w, places, f) \in 0 .. Whole
               /\ f \in Done(w, places) => PartOf(w, places, f) = 0
               /\ IsFiniteSet(Done(w, places)) /\ Cardinality(Done(w, places)) \in Nat
               /\ Cardinality(Walked(w)) \in Nat
<1> DEFINE placed == Placed(w, places) \cap Walked(w)
           f == Furthest(placed)
<1>1. DOMAIN w.items = 1 .. Len(w.items) /\ Len(w.items) \in Nat
    BY DEF IsWork
<1>2. placed \in SUBSET (1 .. Len(w.items)) /\ Walked(w) \in SUBSET (1 .. Len(w.items))
    BY <1>1 DEF Walked
<1>3. f \in placed /\ \A i \in placed : i <= f
    BY <1>1, <1>2, FurthestIs
<1>4. WorkProgress(w, places) = OfShow(w, places)
    BY DEF WorkProgress
<1>5. OfShow(w, places) = Standing(Whole * Cardinality(Done(w, places)) + PartOf(w, places, f),
                                   Whole * Cardinality(Walked(w)))
    BY DEF OfShow, Done, PartOf
<1>6. IsFiniteSet(Done(w, places)) /\ IsFiniteSet(Walked(w))
    <2>1. IsFiniteSet(1 .. Len(w.items))
        BY <1>1, FS_Interval
    <2> QED BY <1>2, <2>1, FS_Subset DEF Done
<1>7. Cardinality(Done(w, places)) \in Nat /\ Cardinality(Walked(w)) \in Nat
    BY <1>6, FS_CardinalityType
<1>8. PartOf(w, places, f) \in 0 .. Whole
    <2>1. w.items[f].length \in Nat
        <3>1. w.items[f] \in FileRow
            BY <1>1, <1>2, <1>3 DEF IsWork
        <3> HIDE DEF f
        <3> QED BY <3>1, LengthOf
    <2>2. places[w.items[f].id].at \in Nat
        BY <1>3 DEF AreAt, Placed, Place
    <2>3. 0 \in 0 .. Whole
        BY DEF Whole
    <2> QED BY <2>1, <2>2, <2>3, ShareType DEF PartOf
<1>9. f \in Done(w, places) => PartOf(w, places, f) = 0
    BY DEF PartOf
<1>10. /\ WorkProgress(w, places).n = Whole * Cardinality(Done(w, places)) + PartOf(w, places, f)
       /\ WorkProgress(w, places).of = Whole * Cardinality(Walked(w))
    BY <1>4, <1>5 DEF Standing
<1> QED BY <1>3, <1>6, <1>7, <1>8, <1>9, <1>10

(* Of a show, of any number of episodes and bonus material, finishing some *)
(* and leaving the others as they were never sets the standing back: what  *)
(* the furthest gives up when another becomes the furthest is made up for  *)
(* by that other (progress.go, WorkProgress).                              *)
THEOREM ShowsAreNeverSetBack ==
    ASSUME NEW w, IsWork(w), w.kind = "show",
           NEW places, AreAt(w, places), NEW later, AreAt(w, later),
           WatchedOn(w, places, later)
    PROVE  NotSetBack(WorkProgress(w, places), WorkProgress(w, later))
<1> DEFINE placed == Placed(w, places) \cap Walked(w)
           laterPlaced == Placed(w, later) \cap Walked(w)
           f == Furthest(placed)
           g == Furthest(laterPlaced)
           done == Done(w, places)
           laterDone == Done(w, later)
<1>1. \A i \in DOMAIN w.items : w.items[i] \in ToSet(w.items)
    BY DEF ToSet
<1>2. placed \subseteq laterPlaced
    BY <1>1 DEF Placed, WatchedOn
<1>3. placed # {} /\ laterPlaced # {}
    BY <1>2 DEF WatchedOn
<1>4. /\ f \in placed /\ \A i \in placed : i <= f
      /\ WorkProgress(w, places).n = Whole * Cardinality(done) + PartOf(w, places, f)
      /\ WorkProgress(w, places).of = Whole * Cardinality(Walked(w))
      /\ PartOf(w, places, f) \in 0 .. Whole /\ (f \in done => PartOf(w, places, f) = 0)
      /\ Cardinality(done) \in Nat /\ Cardinality(Walked(w)) \in Nat
    BY <1>3, ShowStands
<1>5. /\ g \in laterPlaced /\ \A i \in laterPlaced : i <= g
      /\ WorkProgress(w, later).n = Whole * Cardinality(laterDone) + PartOf(w, later, g)
      /\ WorkProgress(w, later).of = Whole * Cardinality(Walked(w))
      /\ PartOf(w, later, g) \in 0 .. Whole
      /\ IsFiniteSet(laterDone) /\ Cardinality(laterDone) \in Nat
    BY <1>3, ShowStands
<1>6. done \subseteq laterDone
    <2> SUFFICES ASSUME NEW i \in done PROVE i \in laterDone
        OBVIOUS
    <2>1. i \in DOMAIN w.items /\ i \in Walked(w) /\ places[w.items[i].id] # None
          /\ Finished(w.items[i], places[w.items[i].id])
        BY DEF Done, Placed
    <2>2. later[w.items[i].id] # None /\ Finished(w.items[i], later[w.items[i].id])
        BY <1>1, <2>1 DEF WatchedOn, Finished
    <2> QED BY <2>1, <2>2 DEF Done, Placed
<1>7. Cardinality(done) <= Cardinality(laterDone)
    BY <1>5, <1>6, FS_Subset
<1>8. ASSUME NEW i \in laterDone, i \notin done
      PROVE  Cardinality(done) + 1 <= Cardinality(laterDone)
    <2>1. IsFiniteSet(done) /\ done \cup {i} \subseteq laterDone
        BY <1>5, <1>6, <1>8, FS_Subset
    <2>2. Cardinality(done \cup {i}) = Cardinality(done) + 1
        BY <1>8, <2>1, FS_AddElement
    <2> QED BY <1>5, <2>1, <2>2, FS_Subset
<1> DEFINE n == Whole * Cardinality(done) + PartOf(w, places, f)
           m == Whole * Cardinality(laterDone) + PartOf(w, later, g)
           of == Whole * Cardinality(Walked(w))
<1>9. n <= m
    <2> DEFINE a == Cardinality(done)  b == Cardinality(laterDone)
               p == PartOf(w, places, f)  q == PartOf(w, later, g)
    <2>1. a \in Nat /\ b \in Nat /\ p \in 0 .. 10 /\ q \in 0 .. 10 /\ a <= b
        BY <1>4, <1>5, <1>7 DEF Whole
    <2>2. CASE f \in done
        <3>1. p = 0
            BY <1>4, <2>2
        <3> HIDE DEF a, b, p, q
        <3>2. 10 * a + p <= 10 * b + q
            BY <2>1, <3>1
        <3> QED BY <3>2 DEF Whole, a, b, p, q
    <2>3. CASE \E i \in laterDone : i \notin done
        <3>1. a + 1 <= b
            BY <1>8, <2>3
        <3> HIDE DEF a, b, p, q
        <3>2. 10 * a + p <= 10 * b + q
            BY <2>1, <3>1
        <3> QED BY <3>2 DEF Whole, a, b, p, q
    <2>4. CASE f \notin done /\ laterDone \subseteq done
        <3>1. ASSUME NEW i \in laterPlaced
              PROVE  /\ places[w.items[i].id] # None \/ i \in laterDone
                     /\ i \notin laterDone =>
                          places[w.items[i].id].at = later[w.items[i].id].at
            <4>1. i \in DOMAIN w.items /\ i \in Walked(w) /\ later[w.items[i].id] # None
                BY DEF Placed
            <4> QED BY <1>1, <4>1 DEF WatchedOn, Done
        <3>2. laterPlaced \subseteq placed
            BY <2>4, <3>1 DEF Placed, Done
        <3>3. f = g
            <4>1. f \in laterPlaced /\ g \in placed /\ f <= g /\ g <= f
                BY <1>2, <1>4, <1>5, <3>2
            <4>2. f \in Nat /\ g \in Nat
                <5>1. DOMAIN w.items = 1 .. Len(w.items) /\ Len(w.items) \in Nat
                    BY DEF IsWork
                <5> QED BY <1>4, <1>5, <5>1 DEF Walked
            <4> HIDE DEF f, g
            <4> QED BY <4>1, <4>2
        <3>4. f \notin laterDone
            BY <2>4
        <3>5. p = q
            <4>1. places[w.items[f].id].at = later[w.items[f].id].at
                BY <1>2, <1>4, <3>1, <3>4
            <4> HIDE DEF f, g
            <4> QED BY <2>4, <3>3, <3>4, <4>1 DEF PartOf
        <3> HIDE DEF a, b, p, q
        <3>6. 10 * a + p <= 10 * b + q
            BY <2>1, <3>5
        <3> QED BY <3>6 DEF Whole, a, b, p, q
    <2> QED BY <2>2, <2>3, <2>4
<1>10. n \in Int /\ m \in Int /\ of \in Nat
    <2> HIDE DEF f, g, done, laterDone
    <2> QED BY <1>4, <1>5 DEF Whole
<1> HIDE DEF n, m, of
<1>11. n * of <= m * of
    BY <1>9, <1>10
<1>12. /\ WorkProgress(w, places).n = n /\ WorkProgress(w, places).of = of
       /\ WorkProgress(w, later).n = m /\ WorkProgress(w, later).of = of
    BY <1>4, <1>5 DEF n, m, of
<1> QED BY <1>11, <1>12 DEF NotSetBack

-----------------------------------------------------------------------------
(* The works of a shelved library, and what is offered of them.            *)
LEMMA Unenriched ==
    ASSUME NEW F, FALSE \in F,
           NEW r \in [id : Nat, kind : STRING, title : STRING, by : STRING \cup {None}, season : Nat,
                      part : Nat, length : Nat, tmdb : Nat \cup {None}, poster : F,
                      cert : STRING \cup {None}, genres : SUBSET STRING]
    PROVE  LET s == [r EXCEPT !.tmdb = None, !.poster = FALSE, !.cert = None, !.genres = {}]
           IN  /\ s \in [id : Nat, kind : STRING, title : STRING, by : STRING \cup {None}, season : Nat,
                         part : Nat, length : Nat, tmdb : Nat \cup {None}, poster : F,
                         cert : STRING \cup {None}, genres : SUBSET STRING]
               /\ s.id = r.id
OBVIOUS

LEMMA ItemIs ==
    ASSUME NEW id \in Files
    PROVE  Item(id) \in FileRow /\ Item(id).id = id
<1>1. File[id] \in FileRow /\ File[id].id = id
    BY HouseholdAssumption
<1>2. FALSE \in BOOLEAN
    OBVIOUS
<1> DEFINE s == [File[id] EXCEPT !.tmdb = None, !.poster = FALSE, !.cert = None, !.genres = {}]
<1>3. s \in FileRow /\ s.id = File[id].id
    BY <1>1, <1>2, Unenriched DEF FileRow
<1>4. Item(id) = File[id] \/ Item(id) = s
    BY Zenon DEF Item, StoredRow
<1> HIDE DEF s
<1> QED BY <1>1, <1>3, <1>4

LEMMA WorksAre ==
    ASSUME Shelved, here \subseteq Files, NEW w \in ToSet(TheWorks)
    PROVE  /\ IsWork(w) /\ w.key \in KeysThereMayBe
           /\ \A it \in ToSet(w.items) : it.id \in here /\ it \in FileRow
<1>1. PICK i \in DOMAIN TheWorks : w = TheWorks[i]
    BY DEF ToSet
<1> DEFINE Rs == {Item(id) : id \in here}
<1>2. w.items \in Seq(Rs) \ {<<>>} /\ OnceEach(w) /\ w.key \in KeysThereMayBe
    <2> DEFINE W == [kind : STRING, items : Seq(Rs) \ {<<>>},
                     key : KeysThereMayBe, claim : KeysThereMayBe]
    <2>1. TheWorks \in Seq(W) /\ OnceEach(w)
        BY <1>1 DEF Shelved, OnceEach
    <2>2. w \in W
        <3> HIDE DEF W
        <3> QED BY <1>1, <2>1
    <2>3. w.items \in Seq(Rs) \ {<<>>} /\ w.key \in KeysThereMayBe
        BY Zenon, <2>2
    <2> QED BY <2>1, <2>3
<1>3. \A r \in Rs : r \in FileRow /\ r.id \in here
    BY ItemIs
<1> HIDE DEF Rs
<1>4. w.items \in Seq(FileRow)
    <2>1. w.items \in [1 .. Len(w.items) -> Rs] /\ Len(w.items) \in Nat
        BY <1>2
    <2>2. w.items \in [1 .. Len(w.items) -> FileRow]
        BY <1>3, <2>1
    <2> QED BY <2>1, <2>2
<1>5. \A it \in ToSet(w.items) : it \in Rs
    BY <1>2 DEF ToSet
<1> QED BY <1>2, <1>3, <1>4, <1>5 DEF IsWork

(* What a row of the shelf offers is a member of the work it is of.        *)
LEMMA RowIsOfItsWork ==
    ASSUME NEW w, IsWork(w), NEW places, NEW row \in RowsOf(w, places)
    PROVE  row.key = w.key /\ row.item \in ToSet(w.items) /\ Placed(w, places) # {}
<1>1. PICK it \in LatestPlaced(w, places) :
        row \in IF Finished(it, places[it.id])
                THEN {Row(w, next, Own(next, places[next.id])) : next \in UpNext(w, it)}
                ELSE {Row(w, it, places[it.id].at)}
    BY DEF RowsOf
<1>2. PICK i \in Placed(w, places) : it = w.items[i]
    BY <1>1 DEF LatestPlaced
<1>3. i \in DOMAIN w.items /\ it \in ToSet(w.items)
    BY <1>2 DEF Placed, ToSet
<1>4. ASSUME NEW next \in UpNext(w, it) PROVE next \in ToSet(w.items)
    <2>1. next = Following(w, it.id) /\ next # None
        BY <1>4 DEF UpNext
    <2>2. Index(w, it.id) = i
        BY <1>2, <1>3, IndexIs DEF IsWork
    <2>3. i \in Walked(w)
        BY <2>1, <2>2 DEF Following
    <2>4. PICK j \in Walked(w) : next = w.items[j]
        <3> DEFINE after == {j \in Walked(w) : j > i}
        <3>1. after # {} /\ next = w.items[Foremost(after)] /\ Foremost(after) \in after
            BY <1>2, <2>1, <2>3, FollowingIs
        <3> QED BY <3>1
    <2> QED BY <2>4 DEF Walked, ToSet
<1>5. PICK next \in ToSet(w.items), at \in {Own(n, places[n.id]) : n \in ToSet(w.items)}
                                          \cup {places[it.id].at} : row = Row(w, next, at)
    <2>1. CASE Finished(it, places[it.id])
        BY <1>1, <1>4, <2>1
    <2>2. CASE ~Finished(it, places[it.id])
        BY <1>1, <1>3, <2>2
    <2> QED BY <2>1, <2>2
<1>6. row.key = w.key /\ row.item = next
    BY <1>5 DEF Row
<1> QED BY <1>2, <1>5, <1>6

LEMMA MemberIs ==
    ASSUME NEW w, IsWork(w), NEW S \in SUBSET (DOMAIN w.items), S # {}
    PROVE  w.items[Foremost(S)] \in ToSet(w.items) /\ Foremost(S) \in S
<1>1. DOMAIN w.items = 1 .. Len(w.items) /\ Len(w.items) \in Nat
    BY DEF IsWork
<1>2. Foremost(S) \in S
    BY <1>1, ForemostIs
<1> QED BY <1>2 DEF ToSet

LEMMA RepresentativeIs ==
    ASSUME NEW w, IsWork(w)
    PROVE  Representative(w) \in ToSet(w.items)
<1>1. 1 \in DOMAIN w.items
    BY DEF IsWork
<1>2. w.items[1] \in ToSet(w.items)
    BY <1>1 DEF ToSet
<1>3. Posters(w) \in SUBSET (DOMAIN w.items)
    BY DEF Posters, Enriched
<1>4. CASE Posters(w) = {}
    BY <1>2, <1>4 DEF Representative
<1>5. CASE Posters(w) # {}
    BY <1>3, <1>5, MemberIs DEF Representative
<1> QED BY <1>4, <1>5

LEMMA PlayTargetIs ==
    ASSUME NEW w, IsWork(w)
    PROVE  PlayTarget(w) \in ToSet(w.items)
<1>1. Unfinished(w) \in SUBSET (DOMAIN w.items)
    BY DEF Unfinished, Walked
<1>2. CASE Placed(w, pos) # {} /\ Unfinished(w) # {}
    <2>1. PlayTarget(w) = w.items[Foremost(Unfinished(w))]
        BY <1>2 DEF PlayTarget, Foremost
    <2> QED BY <1>1, <1>2, <2>1, MemberIs
<1>3. CASE ~(Placed(w, pos) # {} /\ Unfinished(w) # {})
    BY <1>3, RepresentativeIs DEF PlayTarget
<1> QED BY <1>2, <1>3

-----------------------------------------------------------------------------
(* The places: each has an age of its own among those there are.           *)
PlaceType == [at : 0 .. Length, when : 1 .. Cardinality(Files)]
PosOK == pos \in [Files -> PlaceType \cup {None}]
With == {f \in Files : pos[f] # None}

LEMMA PlacesAre ==
    /\ \A p \in PlaceType : p # None
    /\ Cardinality(Files) \in Nat
<1>1. PlaceType \subseteq Place
    BY HouseholdAssumption DEF PlaceType, Place
<1> QED BY <1>1, HouseholdAssumption, NoneAssumption, FS_CardinalityType

LEMMA CountWith ==
    ASSUME NEW S \in SUBSET Files
    PROVE  /\ IsFiniteSet(S) /\ Cardinality(S) \in 0 .. Cardinality(Files)
           /\ S # {} => Cardinality(S) >= 1
           /\ S # Files => Cardinality(S) + 1 <= Cardinality(Files)
<1>1. IsFiniteSet(S) /\ Cardinality(S) <= Cardinality(Files)
    BY HouseholdAssumption, FS_Subset
<1>2. Cardinality(S) \in Nat /\ Cardinality(Files) \in Nat
    BY <1>1, HouseholdAssumption, FS_CardinalityType
<1>3. S # {} => Cardinality(S) >= 1
    BY <1>1, <1>2, FS_EmptySet
<1>4. S # Files => Cardinality(S) + 1 <= Cardinality(Files)
    <2> SUFFICES ASSUME S # Files PROVE Cardinality(S) + 1 <= Cardinality(Files)
        OBVIOUS
    <2>1. PICK f \in Files : f \notin S
        OBVIOUS
    <2>2. Cardinality(S \cup {f}) = Cardinality(S) + 1
        BY <1>1, <2>1, FS_AddElement
    <2>3. Cardinality(S \cup {f}) <= Cardinality(Files)
        BY <2>1, HouseholdAssumption, FS_Subset
    <2> QED BY <2>2, <2>3
<1> QED BY <1>1, <1>2, <1>3, <1>4

LEMMA Aged ==
    ASSUME NEW p \in PlaceType, NEW n \in 1 .. Cardinality(Files)
    PROVE  [p EXCEPT !.when = n] \in PlaceType
BY DEF PlaceType

LEMMA MovedIs ==
    ASSUME PosOK, NEW id \in Files, NEW at \in 0 .. Length, NEW now \in 1 .. Cardinality(Files)
    PROVE  [f \in Files |->
                IF f = id THEN [at |-> at, when |-> now]
                ELSE IF pos[f] # None /\ pos[id] # None /\ pos[f].when > pos[id].when
                     THEN [pos[f] EXCEPT !.when = @ - 1] ELSE pos[f]]
               \in [Files -> PlaceType \cup {None}]
<1> SUFFICES ASSUME NEW f \in Files, f # id,
                    pos[f] # None, pos[id] # None, pos[f].when > pos[id].when
             PROVE  [pos[f] EXCEPT !.when = @ - 1] \in PlaceType
    BY DEF PosOK, PlaceType
<1>1. pos[f] \in PlaceType /\ pos[id] \in PlaceType
    BY DEF PosOK
<1> DEFINE a == pos[f].when  b == pos[id].when
<1>2. a \in 1 .. Cardinality(Files) /\ b \in 1 .. Cardinality(Files)
    BY <1>1 DEF PlaceType
<1>3. a - 1 \in 1 .. Cardinality(Files)
    BY <1>2, PlacesAre
<1> QED BY <1>1, <1>3 DEF PlaceType

LEMMA PutTypes ==
    ASSUME PosOK, NEW id \in Files, NEW at \in 0 .. Length, Put(id, at)
    PROVE  PosOK'
<1>1. Now = Cardinality(With) + 1 /\ With \subseteq Files
    BY DEF Now, With
<1>2. CASE pos[id] = None
    <2>1. With # Files
        BY <1>2 DEF With
    <2>2. Now \in 1 .. Cardinality(Files)
        BY <1>1, <2>1, CountWith
    <2>3. pos' = Moved(id, at)
        BY <1>2 DEF Put
    <2> QED BY <2>2, <2>3, MovedIs DEF Moved, PosOK, PlaceType
<1>3. CASE pos[id] # None
    <2>1. With # {}
        BY <1>3 DEF With
    <2>2. Now - 1 \in 1 .. Cardinality(Files)
        BY <1>1, <2>1, CountWith
    <2> DEFINE moved(now) ==
                  [f \in Files |->
                      IF f = id THEN [at |-> at, when |-> now]
                      ELSE IF pos[f] # None /\ pos[id] # None /\ pos[f].when > pos[id].when
                           THEN [pos[f] EXCEPT !.when = @ - 1] ELSE pos[f]]
    <2>3. pos' = [moved(Now) EXCEPT ![id].when = Now - 1]
        BY <1>3 DEF Put, Moved
    <2>4. moved(Now - 1) \in [Files -> PlaceType \cup {None}]
        BY <2>2, MovedIs
    <2>5. \A f \in Files \ {id} : pos'[f] = moved(Now - 1)[f]
        BY <2>3
    <2>6. pos' = [f \in Files |-> pos'[f]]
        BY <2>3
    <2>7. pos'[id] = [[at |-> at, when |-> Now] EXCEPT !.when = Now - 1]
        BY <2>3
    <2>8. pos'[id] \in PlaceType
        BY <2>2, <2>7 DEF PlaceType
    <2>9. \A f \in Files : pos'[f] \in PlaceType \cup {None}
        <3> HIDE DEF moved
        <3> QED BY <2>4, <2>5, <2>8
    <2>10. pos' \in [Files -> PlaceType \cup {None}]
        <3> HIDE DEF moved
        <3> QED BY <2>6, <2>9
    <2> QED BY <2>10 DEF PosOK, PlaceType
<1> QED BY <1>2, <1>3

LEMMA ClearedTypes ==
    ASSUME PosOK, NEW ids, pos' = Cleared(ids)
    PROVE  PosOK'
<1> DEFINE kept == {f \in Files \ ids : pos[f] # None}
           upTo(f) == {g \in kept : pos[g].when <= pos[f].when}
<1>1. pos' = [f \in Files |-> IF f \notin kept THEN None
                              ELSE [pos[f] EXCEPT !.when = Cardinality(upTo(f))]]
    BY DEF Cleared
<1>2. ASSUME NEW f \in kept
      PROVE  [pos[f] EXCEPT !.when = Cardinality(upTo(f))] \in PlaceType
    <2>1. pos[f] \in PlaceType
        BY DEF PosOK
    <2>2. f \in upTo(f)
        <3>1. pos[f].when \in Nat
            BY <2>1 DEF PlaceType
        <3> QED BY <3>1
    <2>3. upTo(f) \in SUBSET Files
        OBVIOUS
    <2> DEFINE n == Cardinality(upTo(f))
    <2>4. n \in 1 .. Cardinality(Files)
        <3> HIDE DEF upTo
        <3> QED BY <2>2, <2>3, CountWith
    <2> QED BY <2>1, <2>4, Aged
<1> HIDE DEF kept, upTo
<1> QED BY <1>1, <1>2 DEF PosOK, PlaceType

-----------------------------------------------------------------------------
LibraryOK == here \subseteq Files /\ enriched \subseteq here
CountOK == kid \in BOOLEAN /\ events \in 0 .. MaxEvents
ListOK == saved \subseteq KeysThereMayBe

LEMMA TypesAre == TypeOK <=> LibraryOK /\ CountOK /\ PosOK /\ ListOK
BY DEF TypeOK, LibraryOK, CountOK, PosOK, PlaceType, ListOK

LEMMA HappensCounts ==
    ASSUME CountOK, Happens, kid' = kid
    PROVE  CountOK'
BY HouseholdAssumption DEF CountOK, Happens

(* Nothing that is played is anything but a file of the library.           *)
LEMMA PlayTypes ==
    ASSUME TypeOK, Shelved,
           NEW id \in Files, NEW at \in 0 .. Length, Put(id, at),
           UNCHANGED <<libraryVars, kid, saved>>, Happens \/ UNCHANGED events
    PROVE  TypeOK'
<1>1. PosOK'
    BY PutTypes, TypesAre
<1>2. CountOK'
    BY TypesAre, HappensCounts DEF CountOK
<1>3. LibraryOK' /\ ListOK'
    BY TypesAre DEF LibraryOK, ListOK, libraryVars, KeysThereMayBe
<1>4. TypeOK' <=> LibraryOK' /\ CountOK' /\ PosOK' /\ ListOK'
    BY TypesAre DEF TypeOK, LibraryOK, CountOK, PosOK, PlaceType, ListOK
<1> QED BY <1>1, <1>2, <1>3, <1>4

LEMMA RowsAreFiles ==
    ASSUME TypeOK, Shelved, NEW row \in Rows
    PROVE  row.item.id \in Files
<1>1. PICK w \in WorksFor : row \in RowsOf(w, pos)
    BY DEF Rows, ContinueList
<1>2. w \in ToSet(TheWorks)
    BY DEF WorksFor
<1>3. row.item \in ToSet(w.items)
    BY <1>1, <1>2, WorksAre, RowIsOfItsWork DEF TypeOK
<1> QED BY <1>2, <1>3, WorksAre DEF TypeOK

LEMMA ByKeyIs ==
    ASSUME Shelved, NEW i \in DOMAIN TheWorks
    PROVE  ByKey(TheWorks, TheWorks[i].key) = TheWorks[i]
<1>1. {j \in DOMAIN TheWorks : TheWorks[j].key = TheWorks[i].key} = {i}
    BY DEF Shelved
<1>2. i \in Nat
    BY DEF Shelved
<1> QED BY <1>1, <1>2 DEF ByKey

LEMMA WorkOfIs ==
    ASSUME Shelved, here \subseteq Files, NEW w \in ToSet(TheWorks), NEW it \in ToSet(w.items)
    PROVE  WorkOf(TheWorks, it.id) = w
<1>1. PICK i \in DOMAIN TheWorks : w = TheWorks[i]
    BY DEF ToSet
<1>2. it.id \in here
    BY WorksAre
<1>3. PICK k \in DOMAIN TheWorks : \A j \in DOMAIN TheWorks : Holds(TheWorks[j], it.id) <=> k = j
    BY <1>2 DEF Shelved
<1>4. Holds(w, it.id)
    BY DEF Holds
<1>5. {j \in DOMAIN TheWorks : Holds(TheWorks[j], it.id)} = {i}
    BY <1>1, <1>3, <1>4
<1>6. WorkOf(TheWorks, it.id) =
        LET at == {j \in DOMAIN TheWorks : Holds(TheWorks[j], it.id)}
        IN  IF at = {} THEN None ELSE TheWorks[CHOOSE j \in at : TRUE]
    BY DEF WorkOf, Holds
<1> QED BY <1>1, <1>5, <1>6

LEMMA WorksHere ==
    ASSUME Shelved
    PROVE  /\ \A key \in Keys : ByKey(TheWorks, key) \in ToSet(TheWorks)
           /\ Keys \subseteq KeysThereMayBe
<1>1. ASSUME NEW key \in Keys
      PROVE  ByKey(TheWorks, key) \in ToSet(TheWorks) /\ key \in KeysThereMayBe
    <2>1. PICK i \in DOMAIN TheWorks : key = TheWorks[i].key
        BY DEF Keys
    <2>2. ByKey(TheWorks, key) = TheWorks[i]
        BY <2>1, ByKeyIs
    <2>3. TheWorks[i].key \in KeysThereMayBe
        <3> DEFINE W == [kind : STRING, items : Seq({Item(id) : id \in here}) \ {<<>>},
                         key : KeysThereMayBe, claim : KeysThereMayBe]
        <3>1. TheWorks \in Seq(W)
            BY DEF Shelved
        <3>2. TheWorks[i] \in W
            <4> HIDE DEF W
            <4> QED BY <2>1, <3>1
        <3> QED BY Zenon, <3>2
    <2> QED BY <2>1, <2>2, <2>3 DEF ToSet
<1> QED BY <1>1

(* Every step leaves every variable of its type.                           *)
LEMMA TypeStep == TypeOK /\ Shelved /\ [Next]_vars => TypeOK'
<1> SUFFICES ASSUME TypeOK, Shelved, [Next]_vars PROVE TypeOK'
    OBVIOUS
<1>1. LibraryOK /\ CountOK /\ PosOK /\ ListOK
    BY TypesAre
<1>2. TypeOK' <=> LibraryOK' /\ CountOK' /\ PosOK' /\ ListOK'
    BY DEF TypeOK, LibraryOK, CountOK, PosOK, PlaceType, ListOK
<1>3. KeysThereMayBe' = KeysThereMayBe
    BY DEF KeysThereMayBe
<1>4. \A at \in Places : at \in 0 .. Length
    BY HouseholdAssumption
<1>5. Length \in 0 .. Length
    BY HouseholdAssumption
<1>6. ASSUME NEW id \in Files, NEW at \in Places, Play(id, at) PROVE TypeOK'
    BY <1>4, <1>6, PlayTypes DEF Play
<1>7. ASSUME NEW key \in Keys, NEW at \in Places, PlayWork(key, at) PROVE TypeOK'
    <2> DEFINE w == ByKey(TheWorks, key)
    <2>1. w \in ToSet(TheWorks) /\ here \subseteq Files
        BY <1>1, WorksHere DEF LibraryOK
    <2>2. PlayTarget(w) \in ToSet(w.items)
        BY <2>1, WorksAre, PlayTargetIs
    <2>3. PlayTarget(w).id \in Files
        BY <2>1, <2>2, WorksAre
    <2> QED BY <1>4, <1>7, <2>3, PlayTypes DEF PlayWork
<1>8. ASSUME NEW row \in Rows, Resume(row) PROVE TypeOK'
    BY <1>5, <1>8, RowsAreFiles, PlayTypes DEF Resume
<1>9. ASSUME NEW row \in Rows, Forget(row) PROVE TypeOK'
    <2>1. PosOK'
        BY <1>1, <1>9, ClearedTypes DEF Forget
    <2>2. CountOK' /\ LibraryOK' /\ ListOK'
        BY <1>1, <1>3, <1>9, HappensCounts DEF Forget, libraryVars, LibraryOK, ListOK
    <2> QED BY <1>2, <2>1, <2>2
<1>10. ASSUME NEW id \in Files, NEW watched \in BOOLEAN, MarkWatched(id, watched) PROVE TypeOK'
    <2>1. CASE watched
        BY <1>5, <1>10, <2>1, PlayTypes DEF MarkWatched
    <2>2. CASE ~watched
        <3>1. PosOK'
            BY <1>1, <1>10, <2>2, ClearedTypes DEF MarkWatched
        <3>2. CountOK' /\ LibraryOK' /\ ListOK'
            BY <1>1, <1>3, <1>10, HappensCounts DEF MarkWatched, libraryVars, LibraryOK, ListOK
        <3> QED BY <1>2, <3>1, <3>2
    <2> QED BY <2>1, <2>2
<1>11. ASSUME NEW key \in Keys, Save(key) PROVE TypeOK'
    <2>1. ListOK'
        BY <1>1, <1>3, <1>11, WorksHere DEF Save, ListOK
    <2>2. CountOK' /\ LibraryOK' /\ PosOK'
        BY <1>1, <1>11, HappensCounts DEF Save, libraryVars, LibraryOK, PosOK, PlaceType
    <2> QED BY <1>2, <2>1, <2>2
<1>12. ASSUME NEW key \in saved, Unsave(key) PROVE TypeOK'
    <2>1. ListOK'
        BY <1>1, <1>3, <1>12 DEF Unsave, ListOK
    <2>2. CountOK' /\ LibraryOK' /\ PosOK'
        BY <1>1, <1>12, HappensCounts DEF Unsave, libraryVars, LibraryOK, PosOK, PlaceType
    <2> QED BY <1>2, <2>1, <2>2
<1>13. ASSUME NEW id \in Files, Arrives(id) \/ Goes(id) \/ Enrich(id) PROVE TypeOK'
    <2>1. LibraryOK'
        BY <1>1, <1>13 DEF Arrives, Goes, Enrich, LibraryOK
    <2>2. CountOK' /\ PosOK' /\ ListOK'
        BY <1>1, <1>3, <1>13, HappensCounts DEF Arrives, Goes, Enrich, ListOK, PosOK, PlaceType
    <2> QED BY <1>2, <2>1, <2>2
<1>14. CASE UNCHANGED vars
    <2>1. LibraryOK' /\ CountOK' /\ PosOK' /\ ListOK'
        BY <1>1, <1>3, <1>14
           DEF vars, libraryVars, LibraryOK, CountOK, PosOK, PlaceType, ListOK
    <2> QED BY <1>2, <2>1
<1> QED BY <1>6, <1>7, <1>8, <1>9, <1>10, <1>11, <1>12, <1>13, <1>14 DEF Next

(* Where Build shelves as it should, every place is one of the film's and  *)
(* has its turn among those there are, and the list holds keys of works    *)
(* (store.go, SetPlace and ClearPlace; list.go).                           *)
THEOREM HouseholdTypes == Spec /\ []Shelved => []TypeOK
<1>1. Init => TypeOK
    BY HouseholdAssumption DEF Init, TypeOK
<1> QED BY <1>1, TypeStep, PTL DEF Spec

(* Then whoever presses next comes by every member of every work, and can  *)
(* go back (progress.go, Neighbours).                                      *)
THEOREM EveryWorkIsWalked == Spec /\ []Shelved => []EveryFileIsWalkedPast
<1>1. TypeOK /\ Shelved => EveryFileIsWalkedPast
    <2> SUFFICES ASSUME TypeOK, Shelved, NEW i \in DOMAIN TheWorks PROVE WalkedThrough(TheWorks[i])
        BY DEF EveryFileIsWalkedPast
    <2>1. IsWork(TheWorks[i])
        BY WorksAre DEF TypeOK, ToSet
    <2> QED BY <2>1, WalksThrough
<1> QED BY <1>1, HouseholdTypes, PTL

LEMMA ForgetStep ==
    ASSUME TypeOK, Shelved, NEW row \in Rows, Forget(row)
    PROVE  row.key \notin {r.key : r \in Rows'}
<1>1. PICK w \in WorksFor : row \in RowsOf(w, pos)
    BY DEF Rows, ContinueList
<1>2. w \in ToSet(TheWorks) /\ here \subseteq Files
    BY DEF WorksFor, TypeOK
<1>3. IsWork(w) /\ row.key = w.key /\ row.item \in ToSet(w.items)
    BY <1>1, <1>2, WorksAre, RowIsOfItsWork
<1>4. Forgettable(row.item.id) = {it.id : it \in ToSet(w.items)}
    BY <1>2, <1>3, WorkOfIs DEF Forgettable
<1>5. \A it \in ToSet(w.items) : pos'[it.id] = None
    <2>1. pos' = Cleared({it.id : it \in ToSet(w.items)})
        BY <1>4 DEF Forget
    <2>2. \A it \in ToSet(w.items) : it.id \in Files
        BY <1>2, WorksAre
    <2> QED BY <2>1, <2>2 DEF Cleared
<1>6. Placed(w, pos') = {}
    BY <1>5 DEF Placed, ToSet
<1>7. TheWorks' = TheWorks /\ WorksFor' = WorksFor
    BY DEF Forget, libraryVars, TheWorks, WorksOf, WorksFor, Shown
<1>8. Rows' = UNION {RowsOf(v, pos') : v \in WorksFor}
    BY <1>7 DEF Rows, ContinueList
<1>9. ASSUME NEW r \in Rows', r.key = row.key PROVE FALSE
    <2>1. PICK v \in WorksFor : r \in RowsOf(v, pos')
        BY <1>8
    <2>2. v \in ToSet(TheWorks)
        BY DEF WorksFor
    <2>3. r.key = v.key /\ Placed(v, pos') # {}
        BY <1>2, <2>1, <2>2, WorksAre, RowIsOfItsWork
    <2>4. v = w
        BY <1>2, <1>3, <1>9, <2>2, <2>3 DEF Shelved, ToSet
    <2> QED BY <1>6, <2>3, <2>4
<1> QED BY <1>9

(* And the cross on a row clears the whole title: no row of that work is   *)
(* left, whichever of its members the row was of (continue.go).            *)
THEOREM ForgottenTitlesLeave == Spec /\ []Shelved => ForgottenTitleLeaves
<1> DEFINE Step == \A row \in Rows : Forget(row) => row.key \notin {r.key : r \in Rows'}
<1>1. TypeOK /\ Shelved /\ [Next]_vars => [Step]_vars
    BY ForgetStep
<1>2. Spec /\ []Shelved => [][Step]_vars
    BY <1>1, HouseholdTypes, PTL DEF Spec
<1> QED BY <1>2 DEF ForgottenTitleLeaves

-----------------------------------------------------------------------------
(* The shelf asks for the certification of the member that stands for a    *)
(* work, the door for that of the file and, where it has none, for the     *)
(* work's. They agree as long as what is rated in a work is rated alike.   *)
OneRating ==
    \A w \in ToSet(TheWorks) : \A it, other \in ToSet(w.items) :
        it.cert # None /\ other.cert # None => it.cert = other.cert

LEMMA MembersOpen ==
    ASSUME TypeOK, Shelved, OneRating, NEW w \in WorksFor, NEW it \in ToSet(w.items)
    PROVE  ~RefusedItem(it)
<1>1. w \in ToSet(TheWorks) /\ Shown(w) /\ here \subseteq Files
    BY DEF WorksFor, TypeOK
<1>2. Representative(w) \in ToSet(w.items)
    BY <1>1, WorksAre, RepresentativeIs
<1>3. WorkOf(TheWorks, it.id) = w
    BY <1>1, WorkOfIs
<1>4. kid => Representative(w).cert \in Fit /\ Representative(w).cert # None
    BY <1>1, HouseholdAssumption DEF Shown, workCertification
<1>5. kid /\ it.cert # None => it.cert = Representative(w).cert
    BY <1>1, <1>2, <1>4 DEF OneRating
<1> QED BY <1>3, <1>4, <1>5 DEF RefusedItem, workCertification

(* Whatever a shelf offers a child opens, in every state in which no work  *)
(* has members of two certifications: files that TMDB has not answered     *)
(* for, bonus material and a representative that changes with the first    *)
(* poster do not part the shelf from the door (profiles.go).               *)
THEOREM OfferedOpens == Spec /\ []Shelved => [](OneRating => WhatIsOfferedOpens)
<1>1. TypeOK /\ Shelved => (OneRating => WhatIsOfferedOpens)
    <2> SUFFICES ASSUME TypeOK, Shelved, OneRating PROVE WhatIsOfferedOpens
        OBVIOUS
    <2>1. ASSUME NEW row \in Rows PROVE ~RefusedItem(row.item)
        <3>1. PICK w \in WorksFor : row \in RowsOf(w, pos)
            BY DEF Rows, ContinueList
        <3>2. IsWork(w)
            BY WorksAre DEF WorksFor, TypeOK
        <3> QED BY <3>1, <3>2, RowIsOfItsWork, MembersOpen
    <2>2. ASSUME NEW w \in WorksFor PROVE ~RefusedWork(w) /\ ~RefusedItem(PlayTarget(w))
        <3>1. IsWork(w) /\ Shown(w)
            BY WorksAre DEF WorksFor, TypeOK
        <3> QED BY <3>1, PlayTargetIs, MembersOpen DEF RefusedWork
    <2>3. SavedTiles \subseteq WorksFor /\ Because \subseteq WorksFor
        BY DEF SavedTiles, Because
    <2> QED BY <2>1, <2>2, <2>3 DEF WhatIsOfferedOpens
<1> QED BY <1>1, HouseholdTypes, PTL
=============================================================================
