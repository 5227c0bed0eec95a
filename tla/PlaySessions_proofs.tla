------------------------ MODULE PlaySessions_proofs ------------------------
(***************************************************************************)
(* What PlaySessions keeps for every value of its constants.               *)
(***************************************************************************)
EXTENDS PlaySessions, FiniteSetTheorems, SequenceTheorems, TLAPS

-----------------------------------------------------------------------------
(* The least-number principle, without an operator parameter: the          *)
(* intervals 0 .. d are ordered by strict inclusion as the d are by <.     *)
LEMMA LeastNatural ==
    ASSUME NEW T \in SUBSET Nat, T # {}
    PROVE  \E m \in T : \A k \in T : m <= k
<1> DEFINE U == {0 .. d : d \in T}
<1>1. U \subseteq FiniteSubsetsOf(Nat)
    <2>1. ASSUME NEW d \in T PROVE 0 .. d \in FiniteSubsetsOf(Nat)
        <3>1. d \in Int /\ 0 \in Int /\ 0 .. d \subseteq Nat
            OBVIOUS
        <3>2. IsFiniteSet(0 .. d)
            BY <3>1, FS_Interval
        <3> QED BY <3>1, <3>2 DEF FiniteSubsetsOf
    <2> QED BY <2>1
<1>2. U # {}
    OBVIOUS
<1>3. PICK x \in U : \A y \in U : ~ (<<y, x>> \in StrictSubsetOrdering(Nat))
    <2> HIDE DEF U
    <2> QED BY <1>1, <1>2, WFMin, FS_StrictSubsetOrderingWellFounded
<1>4. PICK m \in T : x = 0 .. m
    OBVIOUS
<1>5. ASSUME NEW k \in T PROVE m <= k
    <2>1. SUFFICES ASSUME k < m PROVE FALSE
        OBVIOUS
    <2>2. 0 .. k \in U /\ 0 .. k \subseteq 0 .. m /\ m \in 0 .. m /\ m \notin 0 .. k
        BY <2>1
    <2>3. <<0 .. k, 0 .. m>> \in StrictSubsetOrdering(Nat)
        BY <2>2 DEF StrictSubsetOrdering
    <2> QED BY <2>2, <2>3, <1>3, <1>4
<1> QED BY <1>5

-----------------------------------------------------------------------------
(* What is left of two members or more.                                    *)
LEMMA TailType ==
    ASSUME NEW S, NEW m \in Seq(S), m # <<>>, Len(m) # 1
    PROVE  Tail(m) \in Seq(S) /\ Tail(m) # <<>>
<1>1. Tail(m) \in Seq(S) /\ Len(Tail(m)) = Len(m) - 1
    BY HeadTailProperties
<1>2. Len(m) \in Nat \ {0}
    BY EmptySeq
<1>3. Len(Tail(m)) # 0
    BY <1>1, <1>2
<1>4. ASSUME NEW t, t = <<>> PROVE Len(t) = 0
    BY <1>4, EmptySeq
<1> QED BY <1>1, <1>3, <1>4

(* An item's place in any order: its first, or 1 when it has none.         *)
LEMMA PlaceIsANumber ==
    ASSUME NEW order \in Seq(Items), NEW item
    PROVE  Rules!placeIn(order, item) \in Nat \ {0}
<1>1. CASE \E i \in 1 .. Len(order) : order[i] = item
    <2> DEFINE T == {i \in 1 .. Len(order) : order[i] = item}
    <2>1. T \in SUBSET Nat /\ T # {}
        BY <1>1
    <2>2. PICK m \in T : \A k \in T : m <= k
        BY <2>1, LeastNatural
    <2>3. m \in 1 .. Len(order) /\ order[m] = item /\ \A j \in 1 .. m - 1 : order[j] # item
        BY <2>2
    <2> QED BY <1>1, <2>3 DEF Rules!placeIn
<1>2. CASE ~ \E i \in 1 .. Len(order) : order[i] = item
    BY <1>2 DEF Rules!placeIn
<1> QED BY <1>1, <1>2

(* The works: an item's members, its place among them, the one after it.   *)
LEMMA WorksTypes ==
    ASSUME NEW item \in Items
    PROVE  /\ memberOrder(item) \in Seq(Items)
           /\ Rules!placeIn(memberOrder(item), item) \in Nat \ {0}
           /\ WorkOf(item) # None => memberOrder(item) # <<>> /\ WorkOf(item) \in Works
           /\ nextMember(item) # None => nextMember(item) \in Items
<1> DEFINE order == memberOrder(item)
<1>1. order \in Seq(Items) /\ (WorkOf(item) # None => order # <<>> /\ WorkOf(item) \in Works)
    <2>1. CASE \E w \in Works : item \in Members(w)
        <3>1. WorkOf(item) \in Works /\ item \in Members(WorkOf(item))
            BY <2>1 DEF WorkOf
        <3>2. Order[WorkOf(item)] \in Seq(Items) /\ Order[WorkOf(item)] # <<>>
            BY <3>1, SessionsAssumption DEF Members
        <3> QED BY <3>1, <3>2 DEF memberOrder
    <2>2. CASE ~ \E w \in Works : item \in Members(w)
        BY <2>2 DEF WorkOf, memberOrder
    <2> QED BY <2>1, <2>2
<1>2. Rules!placeIn(order, item) \in Nat \ {0}
    BY <1>1, PlaceIsANumber
<1>3. nextMember(item) # None => nextMember(item) \in Items
    <2> DEFINE at    == Rules!placeIn(order, item)
               later == {i \in DOMAIN order : i > at /\ order[i] \notin Extras}
    <2>1. CASE item \in Extras \/ later = {}
        BY <2>1 DEF nextMember
    <2>2. CASE ~ (item \in Extras \/ later = {})
        <3>1. later \in SUBSET Nat /\ later # {}
            BY <1>1, <2>2
        <3>2. \E m \in later : \A k \in later : m <= k
            BY <3>1, LeastNatural
        <3>3. nextMember(item) = order[CHOOSE i \in later : \A j \in later : i <= j]
            BY <2>2 DEF nextMember
        <3>4. (CHOOSE i \in later : \A j \in later : i <= j) \in DOMAIN order
            BY <3>2
        <3> QED BY <1>1, <3>3, <3>4
    <2> QED BY <2>1, <2>2
<1> QED BY <1>1, <1>2, <1>3

(* What the grammar leaves of a passage is a passage.                      *)
LEMMA PassageTypes ==
    ASSUME NEW item \in Nat, NEW p
    PROVE  /\ p \in Rules!PassageInput =>
                Rules!resolvePassage(p, item) \in Rules!Passage \cup {None}
           /\ p \in Rules!Passage \cup {None} =>
                /\ Rules!passageForNext(p, item) \in Rules!Passage \cup {None}
                /\ Rules!textPassage(p) \in Rules!Passage \cup {None}
<1>1. ASSUME NEW v \in Int \cup {None} PROVE Rules!NonNegative(v) \in Nat \cup {None}
    BY <1>1 DEF Rules!NonNegative
<1>2. ASSUME NEW end \in Nat \cup {None}, NEW until
      PROVE  Rules!endsAt(end, until, item) \in Nat \cup {None}
    BY DEF Rules!endsAt
<1>3. ASSUME p \in Rules!PassageInput
      PROVE  Rules!resolvePassage(p, item) \in Rules!Passage \cup {None}
    <2> DEFINE read == Rules!Parse(p)
    <2>1. CASE read = None
        BY <2>1 DEF Rules!resolvePassage
    <2>2. CASE read # None
        <3>1. /\ read.t \in Nat \cup {None} /\ read.end \in Nat \cup {None}
              /\ read.until \in Nat \cup {None}
              /\ read.from \in Nat \cup {None} /\ read.to \in Nat \cup {None}
            BY <1>1, <1>3, <2>2 DEF Rules!Parse, Rules!PassageInput, Rules!Optional
        <3> HIDE DEF read
        <3>2. Rules!endsAt(read.end, read.until, item) \in Nat \cup {None}
            BY <1>2, <3>1
        <3>3. Rules!resolvePassage(p, item) =
                [t |-> read.t, end |-> read.end, until |-> read.until, from |-> read.from,
                 to |-> read.to, endsAt |-> Rules!endsAt(read.end, read.until, item)]
            BY <2>2 DEF Rules!resolvePassage, read
        <3> QED BY <3>1, <3>2, <3>3 DEF Rules!Passage, Rules!Optional
    <2> QED BY <2>1, <2>2
<1>4. ASSUME p \in Rules!Passage \cup {None}
      PROVE  Rules!passageForNext(p, item) \in Rules!Passage \cup {None}
    BY <1>2, <1>4 DEF Rules!passageForNext, Rules!Passage, Rules!Optional
<1>5. ASSUME p \in Rules!Passage \cup {None}
      PROVE  Rules!textPassage(p) \in Rules!Passage \cup {None}
    BY <1>5 DEF Rules!textPassage, Rules!Passage, Rules!Optional
<1> QED BY <1>3, <1>4, <1>5

(* A snapped mark is a chapter start within reach, or where it was put.    *)
LEMMA SnapType ==
    ASSUME NEW pos \in Nat, NEW starts \in SUBSET Nat, NEW tolerance
    PROVE  Rules!snapToChapter(pos, starts, tolerance) \in starts \cup {pos}
<1> DEFINE D(s) == Rules!Distance(s, pos)
           near == {s \in starts : D(s) <= tolerance}
           best == {s \in near : \A r \in near : D(s) <= D(r)}
<1>1. CASE near = {}
    BY <1>1 DEF Rules!snapToChapter
<1>2. CASE near # {}
    <2> DEFINE T == {D(s) : s \in near}
    <2>1. \A s \in starts : D(s) \in Nat /\ (s = pos + D(s) \/ s = pos - D(s))
        BY DEF Rules!Distance
    <2>2. T \in SUBSET Nat /\ T # {}
        BY <2>1, <1>2
    <2>3. PICK d \in T : \A k \in T : d <= k
        <3> HIDE DEF T
        <3> QED BY <2>2, LeastNatural
    <2>4. PICK n \in near : D(n) = d
        OBVIOUS
    <2>5. n \in best
        BY <2>3, <2>4
    <2>6. ASSUME NEW s \in best PROVE D(s) = d
        <3>1. D(s) <= D(n) /\ d <= D(s)
            BY <2>3, <2>4
        <3> QED BY <3>1, <2>1, <2>2, <2>4
    <2>7. \E s \in best : \A r \in best : r <= s
        <3> HIDE DEF D, near, best, T
        <3>1. \A s \in best : s \in Nat /\ (s = pos + d \/ s = pos - d)
            BY <2>6, <2>1 DEF best, near
        <3>2. d \in Nat
            BY <2>2, <2>3
        <3>3. CASE pos + d \in best
            BY <3>1, <3>2, <3>3
        <3>4. CASE pos + d \notin best
            BY <3>1, <3>2, <3>4, <2>5
        <3> QED BY <3>3, <3>4
    <2>8. Rules!snapToChapter(pos, starts, tolerance)
            = CHOOSE s \in best : \A r \in best : r <= s
        BY <1>2 DEF Rules!snapToChapter
    <2>9. Rules!snapToChapter(pos, starts, tolerance) \in best
        <3> HIDE DEF best
        <3> QED BY <2>7, <2>8
    <2> QED BY <2>9
<1> QED BY <1>1, <1>2

(* Setting or clearing a mark leaves marks.                                *)
LEMMA MarkTypes ==
    ASSUME NEW cur \in Rules!Marks, NEW kind \in {"in", "out"}
    PROVE  /\ Rules!clearMark(cur, kind) \in Rules!Marks
           /\ \A m \in Rules!Mark : \A order :
                Rules!setMark(cur, kind, m, order) \in Rules!Marks
    BY DEF Rules!setMark, Rules!clearMark, Rules!Marks, Rules!Optional

-----------------------------------------------------------------------------
(* Type correctness.                                                       *)
LEMMA RequestStep ==
    ASSUME req \in [Threads -> Request], RequestsCarry,
           NEW th \in Threads, NEW r \in Request, Carries(r),
           req' = [req EXCEPT ![th] = r]
    PROVE  req' \in [Threads -> Request] /\ RequestsCarry'
<1>1. req' \in [Threads -> Request]
    OBVIOUS
<1>2. \A u \in Threads : req'[u] = IF u = th THEN r ELSE req[u]
    OBVIOUS
<1> QED BY <1>1, <1>2 DEF RequestsCarry, Carries

LEMMA IdleType == Idle \in Request /\ Carries(Idle)
    BY DEF Idle, Request, Carries, Stages, Rules!NoMarks, Rules!Marks, Rules!Optional

LEMMA InitTypes == Init => TypeOK /\ RequestsCarry
<1> SUFFICES ASSUME Init PROVE TypeOK /\ RequestsCarry
    OBVIOUS
<1>1. StreamTypeOK
    BY MaxIdleAssumption DEF Init, StreamInit, StreamTypeOK, ReaperState
<1>2. req \in [Threads -> Request] /\ RequestsCarry
    BY IdleType DEF Init, RequestsCarry
<1> QED BY <1>1, <1>2 DEF Init, TypeOK

(* What a thread does to the registers of requests.                        *)
LEMMA AnswerTypes ==
    ASSUME req \in [Threads -> Request], RequestsCarry,
           NEW th \in Threads, Answer(th)
    PROVE  req' \in [Threads -> Request] /\ RequestsCarry'
    BY IdleType, RequestStep DEF Answer

(* Touching a row that is there leaves rows.                               *)
LEMMA TouchTypes ==
    ASSUME rows \in [Sessions -> Row \cup {None}], NEW s \in Sessions, Get(s)
    PROVE  /\ rows' \in [Sessions -> Row \cup {None}]
           /\ rows[s] \in Row
    BY DEF Get, On, Touched, Row

LEMMA PutTypes ==
    ASSUME rows \in [Sessions -> Row \cup {None}], NEW s \in Sessions,
           NEW r, NEW method \in MethodNames,
           r.item \in Items, r.profile \in Profiles,
           r.passage \in Rules!Passage \cup {None}, r.marks \in Rules!Marks,
           Put(s, r, method)
    PROVE  rows' \in [Sessions -> Row \cup {None}]
    BY DEF Put, Row

LEMMA RememberTypes ==
    ASSUME memo \in [Profiles \X Works -> Memo \cup {None}],
           NEW row, NEW marks \in Rules!Marks
    PROVE  Remembered(row, marks) \in [Profiles \X Works -> Memo \cup {None}]
    BY DEF Remembered, Memo

LEMMA InheritTypes ==
    ASSUME memo \in [Profiles \X Works -> Memo \cup {None}],
           NEW profile \in Profiles, NEW item \in Items
    PROVE  marksInWork(profile, item) \in Rules!Marks
<1>1. CASE WorkOf(item) = None
    BY <1>1 DEF marksInWork, Rules!NoMarks, Rules!Marks, Rules!Optional
<1>2. CASE WorkOf(item) # None
    <2>1. memo[<<profile, WorkOf(item)>>] \in Memo \cup {None}
        BY <1>2, WorksTypes
    <2> QED BY <1>2, <2>1
        DEF marksInWork, Memo, Rules!NoMarks, Rules!Marks, Rules!Optional
<1> QED BY <1>1, <1>2

(* A step that leaves the streams alone, one that moves a single entry.    *)
LEMMA StreamTypes ==
    ASSUME StreamTypeOK, NEW s
    PROVE  /\ UNCHANGED streamVars => StreamTypeOK'
           /\ s \in Sessions /\ StartProcess(s) => StreamTypeOK'
           /\ Enter(s) => StreamTypeOK'
           /\ Remove(s) /\ UNCHANGED <<procs, reaper>> => StreamTypeOK'
           /\ Kill(s) /\ UNCHANGED <<streams, reaper>> => StreamTypeOK'
           /\ Touch(s) /\ UNCHANGED <<procs, reaper>> => StreamTypeOK'
           /\ AgeStreams /\ UNCHANGED <<procs, reaper>> => StreamTypeOK'
<1> USE MaxIdleAssumption DEF StreamTypeOK
<1>0. 0 \in 0 .. MaxIdle + 1
    OBVIOUS
<1>1. UNCHANGED streamVars => StreamTypeOK'
    BY DEF streamVars
<1>2. s \in Sessions /\ StartProcess(s) => StreamTypeOK'
    BY DEF StartProcess
<1>3. Enter(s) => StreamTypeOK'
    BY <1>0 DEF Enter
<1>4. Remove(s) /\ UNCHANGED <<procs, reaper>> => StreamTypeOK'
    BY DEF Remove
<1>5. Kill(s) /\ UNCHANGED <<streams, reaper>> => StreamTypeOK'
    BY DEF Kill
<1>6. Touch(s) /\ UNCHANGED <<procs, reaper>> => StreamTypeOK'
    BY <1>0 DEF Touch
<1>7. AgeStreams /\ UNCHANGED <<procs, reaper>> => StreamTypeOK'
    <2>1. \A age \in 0 .. MaxIdle + 1 \cup {None} :
            Aged(age, MaxIdle) \in 0 .. MaxIdle + 1 \cup {None}
        BY DEF Aged
    <2> QED BY <2>1 DEF AgeStreams
<1> QED BY <1>1, <1>2, <1>3, <1>4, <1>5, <1>6, <1>7

(* The requests as they come in.                                           *)
LEMMA ArriveTypes ==
    ASSUME TypeOK, RequestsCarry, NEW th \in Threads, Arrive(th)
    PROVE  TypeOK' /\ RequestsCarry'
<1> USE DEF TypeOK
<1>1. ASSUME NEW r \in Request, Carries(r), Begin(th, r)
      PROVE  req' \in [Threads -> Request] /\ RequestsCarry'
    BY <1>1, RequestStep DEF Begin
<1>2. ASSUME NEW item \in Items, NEW profile \in Profiles,
             NEW passage \in Rules!Passage \cup {None}
      PROVE  LET r == [Idle EXCEPT !.at = "inherit", !.item = item,
                                   !.profile = profile, !.passage = passage]
             IN  r \in Request /\ Carries(r)
    BY IdleType DEF Idle, Request, Carries, Stages
<1>3. ASSUME NEW item \in Items, NEW profile \in Profiles,
             NEW in \in PassageInputs \cup {None}, Play(th, item, profile, in)
      PROVE  TypeOK' /\ RequestsCarry'
    <2>1. (IF in = None THEN None ELSE Rules!resolvePassage(in, item))
            \in Rules!Passage \cup {None}
        BY SessionsAssumption, PassageTypes
    <2> QED BY <1>1, <1>2, <1>3, <2>1, StreamTypes DEF Play
<1>4. ASSUME NEW s \in Sessions, Next_(th, s)
      PROVE  TypeOK' /\ RequestsCarry'
    <2> DEFINE next == nextMember(rows[s].item)
    <2>1. rows' \in [Sessions -> Row \cup {None}] /\ rows[s] \in Row
        BY <1>4, TouchTypes DEF Next_
    <2>2. next \in Items /\ rows[s].profile \in Profiles
          /\ rows[s].passage \in Rules!Passage \cup {None}
        BY <1>4, <2>1, WorksTypes DEF Next_, Row
    <2>3. Rules!passageForNext(rows[s].passage, next) \in Rules!Passage \cup {None}
        BY <2>2, PassageTypes, SessionsAssumption
    <2> HIDE DEF next
    <2> QED BY <1>1, <1>2, <1>4, <2>1, <2>2, <2>3, StreamTypes DEF Next_, next
<1>5. ASSUME NEW stage \in {"write", "clear"}, NEW item \in Items,
             NEW profile \in Profiles, NEW s \in Sessions \cup {None},
             ToWrite(th, stage, item, profile, s)
      PROVE  req' \in [Threads -> Request] /\ RequestsCarry'
    <2> DEFINE r == [Idle EXCEPT !.at = stage, !.item = item, !.profile = profile,
                                 !.id = s, !.members = <<item>>]
    <2>1. <<item>> \in Seq(Items) /\ <<item>> # <<>>
        OBVIOUS
    <2>2. r \in Request
        BY IdleType, <2>1 DEF Idle, Request, Stages
    <2>3. Carries(r)
        BY <2>1 DEF Idle, Carries
    <2> QED BY <1>1, <1>5, <2>2, <2>3 DEF ToWrite
<1>6. ASSUME NEW s \in Sessions, Progress(th, s)
      PROVE  TypeOK' /\ RequestsCarry'
    <2>1. rows' \in [Sessions -> Row \cup {None}] /\ rows[s] \in Row
        BY <1>6, TouchTypes DEF Progress
    <2>2. rows[s].item \in Items /\ rows[s].profile \in Profiles
        BY <2>1 DEF Row
    <2> QED BY <1>5, <1>6, <2>1, <2>2, StreamTypes DEF Progress
<1>7. ASSUME NEW s \in Sessions, KeepWatching(th, s)
      PROVE  TypeOK' /\ RequestsCarry'
    <2>1. rows' \in [Sessions -> Row \cup {None}]
        BY <1>7, TouchTypes DEF KeepWatching
    <2>2. LET r == [Idle EXCEPT !.at = "keep", !.id = s] IN r \in Request /\ Carries(r)
        BY IdleType DEF Idle, Request, Carries, Stages
    <2> QED BY <1>1, <1>7, <2>1, <2>2, StreamTypes DEF KeepWatching
<1>8. ASSUME NEW s \in Sessions, Stop(th, s)
      PROVE  TypeOK' /\ RequestsCarry'
    <2>1. ASSUME NEW stage \in {"kill", "drop"}
          PROVE  LET r == [Idle EXCEPT !.at = stage, !.id = s]
                 IN  r \in Request /\ Carries(r)
        BY IdleType DEF Idle, Request, Carries, Stages
    <2> QED BY <1>1, <1>8, <2>1, StreamTypes DEF Stop
<1>9. ASSUME NEW s \in Sessions, NEW kind \in {"in", "out"}, On(s),
             NEW sec \in MarkInputs[rows[s].profile], Mark(th, s, kind, sec)
      PROVE  TypeOK' /\ RequestsCarry'
    <2>1. rows' \in [Sessions -> Row \cup {None}] /\ rows[s] \in Row
        BY <1>9, TouchTypes DEF Mark
    <2>2. rows[s].item \in Items /\ rows[s].profile \in Profiles
          /\ sec \in Int \cup {None}
        BY <1>9, <2>1, SessionsAssumption DEF Row
    <2> DEFINE r == [Idle EXCEPT !.at = "mark", !.id = s, !.item = rows[s].item,
                        !.profile = rows[s].profile, !.kind = kind, !.seconds = sec]
    <2>3. r \in Request
        BY IdleType, <2>2 DEF Idle, Request, Stages
    <2>4. Carries(r)
        BY <2>2, NoneAssumption DEF Idle, Carries
    <2> QED BY <1>1, <1>9, <2>1, <2>3, <2>4, StreamTypes DEF Mark
<1>10. ASSUME NEW item \in Items, NEW p \in PlaceWriters, Forget(th, item, p)
       PROVE  TypeOK' /\ RequestsCarry'
    <2> DEFINE members == IF WorkOf(item) = None THEN <<item>> ELSE memberOrder(item)
               r == [Idle EXCEPT !.at = "clear", !.item = item, !.profile = p,
                                 !.members = members]
    <2>1. members \in Seq(Items) /\ members # <<>>
        BY WorksTypes
    <2>2. r \in Request /\ Carries(r)
        <3> HIDE DEF members
        <3> QED BY IdleType, <2>1, SessionsAssumption DEF Idle, Request, Carries, Stages
    <2> QED BY <1>1, <1>10, <2>2, StreamTypes DEF Forget
<1>11. ASSUME NEW item \in Items, NEW p \in PlaceWriters,
              NEW stage \in {"write", "clear"}, SetProgress(th, item, p, stage)
       PROVE  TypeOK' /\ RequestsCarry'
    BY <1>5, <1>11, StreamTypes, SessionsAssumption DEF SetProgress
<1> QED BY <1>3, <1>4, <1>6, <1>7, <1>8, <1>9, <1>10, <1>11, SessionsAssumption DEF Arrive

(* What marking or clearing a mark makes of a row's marks.                 *)
LEMMA MarkedType ==
    ASSUME NEW r, r.item \in Items, r.kind \in {"in", "out"},
           r.seconds \in Int \cup {None}, rows[r.id].marks \in Rules!Marks
    PROVE  Marked(r) \in Rules!Marks
<1>1. CASE r.seconds = None
    BY <1>1, MarkTypes DEF Marked
<1>2. CASE r.seconds # None
    <2> DEFINE m == [item |-> r.item, seconds |-> snapped(r.item, r.seconds)]
    <2>1. Rules!markSeconds(r.seconds) \in Nat
        BY <1>2 DEF Rules!markSeconds
    <2>2. Chapters[r.item] \in SUBSET Nat
        BY SessionsAssumption
    <2>3. m.seconds \in Nat
        BY <2>1, <2>2, SnapType DEF snapped
    <2>4. m \in Rules!Mark
        BY <2>3, SessionsAssumption DEF Rules!Mark
    <2>5. Marked(r) = Rules!setMark(rows[r.id].marks, r.kind, m, memberOrder(r.item))
        BY <1>2 DEF Marked
    <2>6. \A x \in Rules!Mark :
            Rules!setMark(rows[r.id].marks, r.kind, x, memberOrder(r.item)) \in Rules!Marks
        BY MarkTypes
    <2> HIDE DEF m
    <2> QED BY <2>4, <2>5, <2>6
<1> QED BY <1>1, <1>2

(* A request that moves to a later stage with new marks.                   *)
LEMMA MarkedRequest ==
    ASSUME NEW r \in Request, NEW at \in Stages, NEW m \in Rules!Marks
    PROVE  LET q == [r EXCEPT !.at = at, !.marks = m]
           IN  /\ q \in Request /\ q.at = at
               /\ q.item = r.item /\ q.profile = r.profile
<1>1. [r EXCEPT !.at = at, !.marks = m] \in Request
    BY DEF Request
<1> QED BY <1>1 DEF Request

LEMMA RememberStep ==
    ASSUME NEW r \in Request, NEW m \in Rules!Marks
    PROVE  LET q == [r EXCEPT !.at = "remember", !.marks = m]
           IN  q \in Request /\ Carries(q)
<1>1. "remember" \in Stages
    BY DEF Stages
<1> DEFINE q == [r EXCEPT !.at = "remember", !.marks = m]
<1>2. q \in Request /\ q.at = "remember"
    BY <1>1, MarkedRequest
<1> HIDE DEF q
<1>3. Carries(q)
    BY <1>2 DEF Carries
<1> QED BY <1>2, <1>3 DEF q

LEMMA ActStep ==
    ASSUME NEW r \in Request, NEW m \in Rules!Marks, r.item \in Items, r.profile \in Profiles,
           NEW q, q = [r EXCEPT !.at = "act", !.marks = m]
    PROVE  q \in Request /\ Carries(q)
<1>1. q = [r EXCEPT !.at = "act", !.marks = m] /\ "act" \in Stages
    BY DEF Stages
<1>2. q \in Request
    BY <1>1 DEF Request
<1>3. q.at = "act" /\ q.item = r.item /\ q.profile = r.profile
    BY <1>1 DEF Request
<1> QED BY <1>2, <1>3 DEF Carries

(* The rest of a handler that has begun.                                   *)
LEMMA ContinueTypes ==
    ASSUME TypeOK, RequestsCarry, NEW th \in Threads, Continue(th)
    PROVE  TypeOK' /\ RequestsCarry'
<1> DEFINE r == req[th]
<1> USE DEF TypeOK
<1>1. r \in Request /\ Carries(r)
    BY DEF RequestsCarry
<1>2. ASSUME Answer(th)
      PROVE  req' \in [Threads -> Request] /\ RequestsCarry'
    BY <1>2, AnswerTypes
<1>3. ASSUME NEW stage \in {"unwind", "drop", "wait"}, r.id \in Sessions,
             stage = "wait" => r.item \in Items /\ r.profile \in Profiles,
             Goto(th, stage)
      PROVE  req' \in [Threads -> Request] /\ RequestsCarry'
    <2> DEFINE q == [r EXCEPT !.at = stage]
    <2>1. q \in Request /\ Carries(q)
        BY <1>1, <1>3 DEF Request, Carries, Stages
    <2>2. req' = [req EXCEPT ![th] = q]
        BY <1>3 DEF Goto
    <2> HIDE DEF q
    <2> QED BY <2>1, <2>2, RequestStep
<1>4. ASSUME Inherit(th) PROVE TypeOK' /\ RequestsCarry'
    <2> DEFINE q == [r EXCEPT !.at = "act", !.marks = marksInWork(r.profile, r.item)]
    <2>1. r.item \in Items /\ r.profile \in Profiles
        BY <1>1, <1>4 DEF Inherit, At, Carries
    <2>2. marksInWork(r.profile, r.item) \in Rules!Marks
        BY <2>1, InheritTypes
    <2>3. q \in Request /\ Carries(q)
        <3> DEFINE m == marksInWork(r.profile, r.item)
        <3>1. m \in Rules!Marks /\ r \in Request /\ q = [r EXCEPT !.at = "act", !.marks = m]
            BY <1>1, <2>2
        <3> HIDE DEF r, m, q
        <3> QED BY <2>1, <3>1, ActStep
    <2>4. req' = [req EXCEPT ![th] = q]
        BY <1>4 DEF Inherit
    <2>5. req' \in [Threads -> Request] /\ RequestsCarry'
        <3> HIDE DEF q
        <3> QED BY <2>3, <2>4, RequestStep
    <2> QED BY <1>4, <2>5, StreamTypes DEF Inherit
<1>5. ASSUME EnterStream(th) PROVE TypeOK' /\ RequestsCarry'
    BY <1>1, <1>3, <1>5, StreamTypes DEF EnterStream, At, Carries
<1>6. ASSUME PutTranscode(th) PROVE TypeOK' /\ RequestsCarry'
    <2>1. r.item \in Items /\ r.profile \in Profiles /\ r.id \in Sessions
        BY <1>1, <1>6 DEF PutTranscode, At, Carries
    <2>2. rows' \in [Sessions -> Row \cup {None}]
        BY <1>1, <1>6, <2>1, PutTypes DEF PutTranscode, Request, MethodNames
    <2> QED BY <1>2, <1>6, <2>2, StreamTypes DEF PutTranscode
<1>7. ASSUME NoPlaylist(th) PROVE TypeOK' /\ RequestsCarry'
    <2>1. r.id \in Sessions
        BY <1>1, <1>7 DEF NoPlaylist, At, Carries
    <2>2. StreamTypeOK'
        BY <1>7, StreamTypes DEF NoPlaylist
    <2> QED BY <1>3, <1>7, <2>1, <2>2 DEF NoPlaylist
<1>8. ASSUME Unwind(th) PROVE TypeOK' /\ RequestsCarry'
    BY <1>2, <1>8, StreamTypes DEF Unwind
<1>9. ASSUME Refuse(th) PROVE TypeOK' /\ RequestsCarry'
    BY <1>2, <1>9, StreamTypes DEF Refuse
<1>10. ASSUME SetPlace(th) PROVE TypeOK' /\ RequestsCarry'
    BY <1>2, <1>10, StreamTypes DEF SetPlace
<1>11. ASSUME ClearPlace(th) PROVE TypeOK' /\ RequestsCarry'
    <2>1. r.members \in Seq(Items) /\ r.members # <<>> /\ r.at = "clear"
        BY <1>1, <1>11 DEF ClearPlace, At, Carries, Request
    <2>2. CASE Len(r.members) = 1
        BY <1>2, <1>11, <2>2, StreamTypes DEF ClearPlace
    <2>3. CASE Len(r.members) # 1
        <3> DEFINE q == [r EXCEPT !.members = Tail(r.members)]
        <3>1. Tail(r.members) \in Seq(Items) /\ Tail(r.members) # <<>>
            BY <2>1, <2>3, TailType
        <3>2. q \in Request
            BY <1>1, <3>1 DEF Request
        <3>3. Carries(q)
            BY <1>1, <2>1, <3>1 DEF Carries, Request
        <3>4. req' = [req EXCEPT ![th] = q]
            BY <1>11, <2>3 DEF ClearPlace
        <3>5. req' \in [Threads -> Request] /\ RequestsCarry'
            <4> HIDE DEF q
            <4> QED BY <3>2, <3>3, <3>4, RequestStep
        <3> QED BY <1>11, <3>5, StreamTypes DEF ClearPlace
    <2> QED BY <2>2, <2>3
<1>12. ASSUME ClearPassage(th) PROVE TypeOK' /\ RequestsCarry'
    <2>1. rows' \in [Sessions -> Row \cup {None}]
        BY <1>1, <1>12 DEF ClearPassage, On, Row, At, Carries
    <2> QED BY <1>2, <1>12, <2>1, StreamTypes DEF ClearPassage
<1>13. ASSUME UpdateMarks(th) PROVE TypeOK' /\ RequestsCarry'
    <2>1. CASE ~ On(r.id)
        BY <1>2, <1>13, <2>1, StreamTypes DEF UpdateMarks
    <2>2. CASE On(r.id)
        <3>1. r.id \in Sessions /\ r.item \in Items /\ r.profile \in Profiles
              /\ r.kind \in {"in", "out"} /\ r.seconds \in Int \cup {None}
            BY <1>1, <1>13 DEF UpdateMarks, At, Carries, Request
        <3>2. rows[r.id] \in Row /\ rows[r.id].marks \in Rules!Marks
            BY <2>2, <3>1 DEF On, Row
        <3>3. Marked(r) \in Rules!Marks
            <4> HIDE DEF r
            <4> QED BY <3>1, <3>2, MarkedType
        <3>4. rows' \in [Sessions -> Row \cup {None}]
            BY <1>13, <2>2, <3>2, <3>3 DEF UpdateMarks, Row
        <3> DEFINE q == [r EXCEPT !.at = "remember", !.marks = Marked(r)]
        <3>5. q \in Request /\ Carries(q)
            BY <1>1, <3>3, RememberStep
        <3>6. req' = [req EXCEPT ![th] = q]
            BY <1>13, <2>2 DEF UpdateMarks
        <3>7. req' \in [Threads -> Request] /\ RequestsCarry'
            <4> HIDE DEF q
            <4> QED BY <3>5, <3>6, RequestStep
        <3> QED BY <1>13, <3>4, <3>7, StreamTypes DEF UpdateMarks
    <2> QED BY <2>1, <2>2
<1>14. ASSUME Remember(th) PROVE TypeOK' /\ RequestsCarry'
    <2>1. r.marks \in Rules!Marks
        BY <1>1 DEF Request
    <2>2. memo' \in [Profiles \X Works -> Memo \cup {None}]
        BY <1>14, <2>1, RememberTypes DEF Remember
    <2> QED BY <1>2, <1>14, <2>2, StreamTypes DEF Remember
<1>15. ASSUME StopKill(th) PROVE TypeOK' /\ RequestsCarry'
    BY <1>1, <1>3, <1>15, StreamTypes DEF StopKill, At, Carries
<1>16. ASSUME Drop(th) PROVE TypeOK' /\ RequestsCarry'
    <2>1. r.id \in Sessions
        BY <1>1, <1>16 DEF Drop, At, Carries
    <2>2. rows' \in [Sessions -> Row \cup {None}]
        BY <1>16 DEF Drop
    <2>3. CASE rows[r.id] = None
        BY <1>2, <1>16, <2>2, <2>3, StreamTypes DEF Drop
    <2>4. CASE rows[r.id] # None
        <3> DEFINE row == rows[r.id]
                   q == [r EXCEPT !.at = "remember", !.item = row.item,
                                  !.profile = row.profile, !.marks = row.marks]
        <3>1. row \in Row
            BY <2>1, <2>4
        <3>2. q \in Request /\ Carries(q)
            <4> DEFINE n == [r EXCEPT !.item = row.item, !.profile = row.profile]
            <4>1. row.item \in Items /\ row.profile \in Profiles /\ row.marks \in Rules!Marks
                BY <3>1 DEF Row
            <4> HIDE DEF row, r
            <4>2. n \in Request /\ q = [n EXCEPT !.at = "remember", !.marks = row.marks]
                BY <1>1, <4>1 DEF Request
            <4> HIDE DEF n, q
            <4> QED BY <4>1, <4>2, RememberStep
        <3>3. req' = [req EXCEPT ![th] = q]
            BY <1>16, <2>4 DEF Drop
        <3>4. req' \in [Threads -> Request] /\ RequestsCarry'
            <4> HIDE DEF q
            <4> QED BY <3>2, <3>3, RequestStep
        <3> QED BY <1>16, <2>2, <3>4, StreamTypes DEF Drop
    <2> QED BY <2>3, <2>4
<1>17. ASSUME NEW s \in Sessions, PutDirect(th, s) PROVE TypeOK' /\ RequestsCarry'
    <2>1. r.item \in Items /\ r.profile \in Profiles
        BY <1>1, <1>17 DEF PutDirect, At, Carries
    <2>2. rows' \in [Sessions -> Row \cup {None}]
        BY <1>1, <1>17, <2>1, PutTypes DEF PutDirect, Request, MethodNames
    <2> QED BY <1>2, <1>17, <2>2, StreamTypes DEF PutDirect
<1>18. ASSUME NEW s \in Sessions, StartTranscode(th, s)
       PROVE  TypeOK' /\ RequestsCarry'
    <2> DEFINE q == [r EXCEPT !.at = "enter", !.id = s]
    <2>1. q \in Request /\ Carries(q)
        BY <1>1, <1>18 DEF StartTranscode, At, Request, Carries, Stages
    <2>2. req' = [req EXCEPT ![th] = q]
        BY <1>18 DEF StartTranscode
    <2>3. req' \in [Threads -> Request] /\ RequestsCarry'
        <3> HIDE DEF q
        <3> QED BY <2>1, <2>2, RequestStep
    <2> QED BY <1>18, <2>3, StreamTypes DEF StartTranscode
<1> HIDE DEF r
<1> QED BY <1>4, <1>5, <1>6, <1>7, <1>8, <1>9, <1>10, <1>11, <1>12, <1>13, <1>14,
           <1>15, <1>16, <1>17, <1>18 DEF Continue

(* The reaper loop, the clock and what takes no thread.                    *)
LEMMA BackgroundTypes ==
    ASSUME TypeOK, RequestsCarry,
           \/ \E s \in Sessions, i \in Items, p \in Profiles,
                 in \in PassageInputs \cup {None} : Read(s, i, p, in)
           \/ \E s \in Sessions : Look(s) \/ Fetch(s) \/ Leave(s)
                                  \/ (Exit(s) /\ UNCHANGED sessionVars)
           \/ ReapLoop
           \/ Tick
    PROVE  TypeOK' /\ RequestsCarry'
<1> USE DEF TypeOK
<1>0. UNCHANGED req => RequestsCarry'
    BY DEF RequestsCarry
<1>1. ASSUME NEW s \in Sessions, NEW i \in Items, NEW p \in Profiles,
             NEW in \in PassageInputs \cup {None}, Read(s, i, p, in)
      PROVE  TypeOK' /\ RequestsCarry'
    <2> DEFINE text == IF in = None THEN None
                       ELSE Rules!textPassage(Rules!resolvePassage(in, i))
    <2>1. text \in Rules!Passage \cup {None}
        BY SessionsAssumption, PassageTypes
    <2>2. [item |-> i, profile |-> p, marks |-> Rules!NoMarks, passage |-> text].marks
            \in Rules!Marks
        BY DEF Rules!NoMarks, Rules!Marks, Rules!Optional
    <2>3. rows' \in [Sessions -> Row \cup {None}]
        <3> HIDE DEF text
        <3> QED BY <1>1, <2>1, <2>2, PutTypes DEF Read, text, MethodNames
    <2> QED BY <1>0, <1>1, <2>3, StreamTypes DEF Read
<1>2. ASSUME NEW s \in Sessions, Look(s) PROVE TypeOK' /\ RequestsCarry'
    BY <1>0, <1>2, TouchTypes, StreamTypes DEF Look
<1>3. ASSUME NEW s \in Sessions, Fetch(s) PROVE TypeOK' /\ RequestsCarry'
    BY <1>0, <1>3, StreamTypes DEF Fetch, sessionVars
<1>4. ASSUME NEW s \in Sessions, Leave(s) PROVE TypeOK' /\ RequestsCarry'
    BY <1>0, <1>4, StreamTypes DEF Leave
<1>5. ASSUME ReapCollect \/ ReapKill \/ ReapDone \/ \E s \in Sessions : ReapStop(s),
             UNCHANGED sessionVars
      PROVE  TypeOK' /\ RequestsCarry'
    <2>1. reaper' \in ReaperState
        <3>1. reaper \in ReaperState
            BY DEF StreamTypeOK
        <3>2. CASE ReapCollect
            BY <3>1, <3>2 DEF ReapCollect, ReaperState
        <3>3. CASE ReapKill \/ ReapDone
            BY <3>1, <3>3 DEF ReapKill, ReapDone, ReaperState
        <3>4. ASSUME NEW s \in Sessions, ReapStop(s) PROVE reaper' \in ReaperState
            BY <3>1, <3>4 DEF ReapStop, ReaperState
        <3> QED BY <1>5, <3>2, <3>3, <3>4
    <2>2. procs' \subseteq Sessions
        BY <1>5 DEF ReapCollect, ReapKill, Kill, ReapDone, ReapStop, StreamTypeOK
    <2>3. streams' \in [Sessions -> 0 .. MaxIdle + 1 \cup {None}]
        BY <1>5 DEF ReapCollect, ReapKill, ReapDone, ReapStop, Remove, StreamTypeOK
    <2> QED BY <1>0, <1>5, <2>1, <2>2, <2>3 DEF StreamTypeOK, sessionVars
<1>6. ASSUME ReapRows PROVE TypeOK' /\ RequestsCarry'
    <2>1. reaper' \in ReaperState /\ rows' \in [Sessions -> Row \cup {None}]
        BY <1>6 DEF ReapRows, StreamTypeOK, ReaperState
    <2> QED BY <1>0, <1>6, <2>1 DEF ReapRows, StreamTypeOK
<1>7. ASSUME Tick PROVE TypeOK' /\ RequestsCarry'
    <2>1. \A age \in Nat, limit \in Nat : Aged(age, limit) \in Nat
        BY MaxIdleAssumption DEF Aged
    <2>2. \A row \in Row : AgedRow(row) \in Row
        BY <2>1, SessionsAssumption, MaxIdleAssumption DEF AgedRow, Row
    <2>3. rows' \in [Sessions -> Row \cup {None}]
        BY <1>7, <2>2 DEF Tick, On
    <2>4. \A m \in Memo : [m EXCEPT !.age = Aged(m.age, MarkMemoTTL)] \in Memo
        BY <2>1, SessionsAssumption DEF Memo
    <2>5. memo' \in [Profiles \X Works -> Memo \cup {None}]
        BY <1>7, <2>4 DEF Tick
    <2> QED BY <1>0, <1>7, <2>3, <2>5, StreamTypes DEF Tick
<1>8. ASSUME NEW s \in Sessions, Exit(s), UNCHANGED sessionVars
      PROVE  TypeOK' /\ RequestsCarry'
    BY <1>0, <1>8 DEF Exit, Kill, StreamTypeOK, sessionVars
<1> QED BY <1>1, <1>2, <1>3, <1>4, <1>5, <1>6, <1>7, <1>8 DEF ReapLoop

LEMMA TypeStep == TypeOK /\ RequestsCarry /\ [Next]_vars => TypeOK' /\ RequestsCarry'
<1> SUFFICES ASSUME TypeOK, RequestsCarry, [Next]_vars PROVE TypeOK' /\ RequestsCarry'
    OBVIOUS
<1>1. CASE UNCHANGED vars
    BY <1>1, StreamTypes DEF vars, sessionVars, TypeOK, RequestsCarry
<1>2. CASE Next
    BY <1>2, ArriveTypes, ContinueTypes, BackgroundTypes DEF Next
<1> QED BY <1>1, <1>2

(* Every reachable state is typed, and a handler at each of its stages     *)
(* holds what the code of that stage reads.                                *)
THEOREM TypeCorrect == Spec => [](TypeOK /\ RequestsCarry)
<1>1. Init => TypeOK /\ RequestsCarry
    BY InitTypes
<1>2. TypeOK /\ RequestsCarry /\ [Next]_vars => (TypeOK /\ RequestsCarry)'
    BY TypeStep
<1> QED BY <1>1, <1>2, PTL DEF Spec

-----------------------------------------------------------------------------
(* The safety properties. Most steps of a handler change one request and   *)
(* touch a row, and neither start nor stop anything.                       *)
LEMMA QuietStep ==
    ASSUME IInv, NEW th \in Threads, NEW q,
           req' = [req EXCEPT ![th] = q],
           UNCHANGED <<procs, streams, reaper, minted>>,
           \A s \in Sessions : On(s)' <=> On(s),
           \A s \in Sessions : On(s) =>
                /\ rows'[s].method = rows[s].method
                /\ rows'[s].passage \in {rows[s].passage, None},
           req[th].at \notin {"enter", "wait", "unwind", "kill"},
           q.at \notin {"enter", "wait", "unwind", "kill", "drop"},
           q.id # None => /\ q.id \in minted
                          /\ \A u \in Threads \ {th} : Starting(u) => req[u].id # q.id,
           q.at = "write" /\ q.id # None /\ On(q.id) => rows[q.id].passage = None
    PROVE  Safe'
<1> USE DEF IInv, Safe, TypeOK
<1>1. \A u \in Threads : req'[u] = IF u = th THEN q ELSE req[u]
    OBVIOUS
<1>2. \A s \in Sessions : Live(s)' <=> Live(s)
    BY DEF Live
<1>3. \A u \in Threads : Starting(u)' <=> u # th /\ Starting(u)
    BY <1>1 DEF Starting
<1>4. \A u \in Threads : Starting(u) \/ req[u].at \in {"kill", "drop"}
            => req[u].id \in Sessions
    BY DEF Starting, RequestsCarry, Carries
<1>5. minted \subseteq Sessions
    OBVIOUS
<1>6. IdsAreFresh'
    <2>1. \A s \in Sessions : On(s)' \/ Live(s)' => s \in minted'
        BY <1>2 DEF IdsAreFresh
    <2>2. \A u \in Threads : req'[u].id # None => req'[u].id \in minted'
        BY <1>1 DEF IdsAreFresh
    <2>3. ASSUME NEW u \in Threads, Starting(u)'
          PROVE  /\ rows'[req'[u].id] = None
                 /\ \A w \in Threads \ {u} : req'[w].id # req'[u].id
        <3>1. u # th /\ Starting(u) /\ req'[u] = req[u] /\ req[u].id \in Sessions
            BY <1>1, <1>3, <1>4, <2>3
        <3>2. ~ On(req[u].id) /\ \A w \in Threads \ {u} : req[w].id # req[u].id
            BY <3>1 DEF IdsAreFresh
        <3>3. rows'[req[u].id] = None
            BY <3>1, <3>2 DEF On
        <3>4. req[u].id # None
            BY <3>1, <3>2, NoneAssumption
        <3> QED BY <1>1, <3>1, <3>2, <3>3, <3>4
    <2> QED BY <2>1, <2>2, <2>3 DEF IdsAreFresh, On
<1>7. StreamsBelong'
    BY <1>1, <1>2, <1>4 DEF StreamsBelong
<1>8. OwnPassageHolds'
    <2>1. ASSUME NEW u \in Threads, req'[u].at = "write", req'[u].id # None,
                 rows'[req'[u].id] # None
          PROVE  rows'[req'[u].id].passage = None
        <3> DEFINE s == req'[u].id
        <3>1. s \in Sessions
            BY <1>1, <1>5, <2>1 DEF IdsAreFresh
        <3>2. On(s)
            BY <2>1, <3>1 DEF On
        <3>3. rows[s].passage = None
            BY <1>1, <2>1, <3>2 DEF OwnPassageHolds, At
        <3> QED BY <3>1, <3>2, <3>3
    <2> QED BY <2>1 DEF OwnPassageHolds, At, On
<1>9. NoOrphanProcess'
    <2>1. procs' = procs /\ reaper' = reaper /\ procs \subseteq Sessions
        BY DEF StreamTypeOK
    <2> QED BY <1>1, <1>2, <2>1 DEF NoOrphanProcess
<1>10. StreamHasOwner'
    BY <1>1, <1>2 DEF StreamHasOwner, At
<1> QED BY <1>6, <1>7, <1>8, <1>9, <1>10

(* What a step does to one request, one stream, one row, seen from         *)
(* everywhere.                                                             *)
LEMMA OneRequest ==
    ASSUME TypeOK, NEW th \in Threads, NEW q, req' = [req EXCEPT ![th] = q]
    PROVE  \A u \in Threads : req'[u] = IF u = th THEN q ELSE req[u]
    BY DEF TypeOK

LEMMA OneRemoved ==
    ASSUME TypeOK, NEW s \in Sessions, Remove(s)
    PROVE  \A x \in Sessions : Live(x)' <=> Live(x) /\ x # s
    BY DEF TypeOK, StreamTypeOK, Remove, Live

LEMMA OneEntered ==
    ASSUME TypeOK, NEW s \in Sessions, Enter(s)
    PROVE  \A x \in Sessions : Live(x)' <=> Live(x) \/ x = s
<1>1. 0 # None
    BY MaxIdleAssumption
<1> QED BY <1>1 DEF TypeOK, StreamTypeOK, Enter, Live

LEMMA OnePut ==
    ASSUME TypeOK, NEW s \in Sessions, NEW r, NEW method \in MethodNames,
           r.item \in Items, r.profile \in Profiles,
           r.passage \in Rules!Passage \cup {None}, r.marks \in Rules!Marks,
           Put(s, r, method)
    PROVE  /\ \A x \in Sessions : On(x)' <=> On(x) \/ x = s
           /\ \A x \in Sessions : x # s => rows'[x] = rows[x]
           /\ rows'[s].method = method
<1> DEFINE row == [item |-> r.item, profile |-> r.profile, method |-> method,
                   passage |-> r.passage, marks |-> r.marks, age |-> 0]
<1>1. row \in Row /\ row # None /\ row.method = method
    BY NoneAssumption DEF Row
<1>2. rows' = [rows EXCEPT ![s] = row]
    BY DEF Put
<1> HIDE DEF row
<1> QED BY <1>1, <1>2 DEF TypeOK, On

(* A stop takes the stream of an id that no starting play holds.           *)
LEMMA StopSafe ==
    ASSUME IInv, NEW th \in Threads, NEW s \in Sessions, Stop(th, s)
    PROVE  Safe'
<1> USE DEF IInv, Safe
<1> DEFINE q == [Idle EXCEPT !.at = IF Live(s) THEN "kill" ELSE "drop", !.id = s]
<1>1. q.id = s /\ q.at = (IF Live(s) THEN "kill" ELSE "drop")
    BY DEF Idle
<1>2. /\ req' = [req EXCEPT ![th] = q] /\ req[th].at = "idle"
      /\ Remove(s) /\ rows' = rows
      /\ UNCHANGED <<procs, reaper, minted>>
    BY DEF Stop, Begin
<1>3. s \in minted /\ \A u \in Threads : Starting(u) => req[u].id # s
    BY DEF Stop, Known, Starting
<1> HIDE DEF q
<1>4. \A u \in Threads : req'[u] = IF u = th THEN q ELSE req[u]
    BY <1>2, OneRequest
<1>5. \A x \in Sessions : Live(x)' <=> Live(x) /\ x # s
    BY <1>2, OneRemoved
<1>6. \A u \in Threads : Starting(u)' <=> Starting(u) /\ u # th
    BY <1>1, <1>2, <1>4 DEF Starting
<1>7. \A u \in Threads : Starting(u) \/ req[u].at \in {"kill", "drop"}
            => req[u].id \in Sessions
    BY DEF Starting, RequestsCarry, Carries
<1>8. IdsAreFresh'
    BY <1>1, <1>2, <1>3, <1>4, <1>5, <1>6, <1>7 DEF IdsAreFresh, On
<1>9. StreamsBelong'
    BY <1>1, <1>2, <1>4, <1>5, <1>7 DEF StreamsBelong, On
<1>10. OwnPassageHolds'
    BY <1>1, <1>2, <1>4 DEF OwnPassageHolds, At, On
<1>11. NoOrphanProcess'
    <2>1. procs \subseteq Sessions
        BY DEF TypeOK, StreamTypeOK
    <2> QED BY <1>1, <1>2, <1>4, <1>5, <2>1 DEF NoOrphanProcess
<1>12. StreamHasOwner'
    BY <1>2, <1>4, <1>5 DEF StreamHasOwner, At, On
<1> QED BY <1>8, <1>9, <1>10, <1>11, <1>12

(* The quiet steps.                                                        *)
LEMMA TouchIsQuiet ==
    ASSUME TypeOK, NEW s \in Sessions, Get(s)
    PROVE  /\ \A x \in Sessions : On(x)' <=> On(x)
           /\ \A x \in Sessions : On(x) =>
                /\ rows'[x].method = rows[x].method
                /\ rows'[x].passage \in {rows[x].passage, None}
           /\ s \notin left /\ On(s)
<1>1. rows[s] \in Row /\ rows' = [rows EXCEPT ![s] = [rows[s] EXCEPT !.age = 0]]
    BY DEF TypeOK, Get, On, Touched
<1>2. [rows[s] EXCEPT !.age = 0] \in Row
    BY <1>1 DEF Row
<1>3. \A x \in Sessions : On(x)' <=> On(x)
    BY <1>1, <1>2, NoneAssumption DEF TypeOK, On
<1>4. \A x \in Sessions : rows'[x].method = rows[x].method
                          /\ rows'[x].passage = rows[x].passage
    BY <1>1 DEF TypeOK, Row
<1> QED BY <1>3, <1>4 DEF Get

(* A live row's id is minted and in no starting play.                      *)
LEMMA LiveIdIsKnown ==
    ASSUME IdsAreFresh, NEW s \in Sessions, On(s)
    PROVE  s \in minted /\ \A u \in Threads : Starting(u) => req[u].id # s
    BY DEF IdsAreFresh

LEMMA ArriveSafe ==
    ASSUME IInv, NEW th \in Threads, Arrive(th)
    PROVE  Safe'
<1> USE DEF IInv
<1>1. req[th].at = "idle"
    BY DEF Arrive, Play, Next_, Progress, KeepWatching, Stop, Mark, Forget,
           SetProgress, ToWrite, Begin
<1>2. \A s \in Sessions : On(s) => s \in minted
            /\ \A u \in Threads \ {th} : Starting(u) => req[u].id # s
    BY LiveIdIsKnown DEF Safe
<1>3. ASSUME NEW item \in Items, NEW profile \in Profiles,
             NEW in \in PassageInputs \cup {None}, Play(th, item, profile, in)
      PROVE  Safe'
    <2> DEFINE passage == IF in = None THEN None ELSE Rules!resolvePassage(in, item)
               q == [Idle EXCEPT !.at = "inherit", !.item = item,
                                 !.profile = profile, !.passage = passage]
    <2>1. q.at = "inherit" /\ q.id = None
        BY DEF Idle
    <2>2. req' = [req EXCEPT ![th] = q] /\ rows' = rows
          /\ UNCHANGED <<procs, streams, reaper, minted>>
        BY <1>3 DEF Play, Begin, streamVars
    <2> HIDE DEF q
    <2> QED BY <1>1, <2>1, <2>2, QuietStep DEF On
<1>4. ASSUME NEW s \in Sessions, Next_(th, s)
      PROVE  Safe'
    <2> DEFINE next == nextMember(rows[s].item)
               q == [Idle EXCEPT !.at = "inherit", !.item = next,
                        !.profile = rows[s].profile,
                        !.passage = Rules!passageForNext(rows[s].passage, next)]
    <2>1. q.at = "inherit" /\ q.id = None
        BY DEF Idle
    <2>2. req' = [req EXCEPT ![th] = q] /\ Get(s)
          /\ UNCHANGED <<procs, streams, reaper, minted>>
        BY <1>4 DEF Next_, Begin, streamVars
    <2> HIDE DEF q
    <2>3. \A x \in Sessions : On(x)' <=> On(x)
        BY <2>2, TouchIsQuiet
    <2>4. \A x \in Sessions : On(x) =>
                /\ rows'[x].method = rows[x].method
                /\ rows'[x].passage \in {rows[x].passage, None}
        BY <2>2, TouchIsQuiet
    <2> QED BY <1>1, <2>1, <2>2, <2>3, <2>4, QuietStep
<1>5. ASSUME NEW s \in Sessions, Progress(th, s)
      PROVE  Safe'
    <2> DEFINE q == [Idle EXCEPT !.at = "write", !.item = rows[s].item,
                        !.profile = rows[s].profile, !.id = s,
                        !.members = <<rows[s].item>>]
    <2>1. q.at = "write" /\ q.id = s
        BY DEF Idle
    <2>2. req' = [req EXCEPT ![th] = q] /\ Get(s) /\ rows[s].passage = None
          /\ UNCHANGED <<procs, streams, reaper, minted>>
        BY <1>5 DEF Progress, ToWrite, Begin, streamVars
    <2> HIDE DEF q
    <2>3. On(s) /\ \A x \in Sessions : On(x)' <=> On(x)
        BY <2>2, TouchIsQuiet
    <2>4. \A x \in Sessions : On(x) =>
                /\ rows'[x].method = rows[x].method
                /\ rows'[x].passage \in {rows[x].passage, None}
        BY <2>2, TouchIsQuiet
    <2> QED BY <1>1, <1>2, <2>1, <2>2, <2>3, <2>4, QuietStep
<1>6. ASSUME NEW s \in Sessions, KeepWatching(th, s)
      PROVE  Safe'
    <2> DEFINE q == [Idle EXCEPT !.at = "keep", !.id = s]
    <2>1. q.at = "keep" /\ q.id = s
        BY DEF Idle
    <2>2. req' = [req EXCEPT ![th] = q] /\ Get(s)
          /\ UNCHANGED <<procs, streams, reaper, minted>>
        BY <1>6 DEF KeepWatching, Begin, streamVars
    <2> HIDE DEF q
    <2>3. On(s) /\ \A x \in Sessions : On(x)' <=> On(x)
        BY <2>2, TouchIsQuiet
    <2>4. \A x \in Sessions : On(x) =>
                /\ rows'[x].method = rows[x].method
                /\ rows'[x].passage \in {rows[x].passage, None}
        BY <2>2, TouchIsQuiet
    <2> QED BY <1>1, <1>2, <2>1, <2>2, <2>3, <2>4, QuietStep
<1>7. ASSUME NEW s \in Sessions, NEW kind \in {"in", "out"},
             NEW sec \in MarkInputs[rows[s].profile], Mark(th, s, kind, sec)
      PROVE  Safe'
    <2> DEFINE q == [Idle EXCEPT !.at = "mark", !.id = s, !.item = rows[s].item,
                        !.profile = rows[s].profile, !.kind = kind, !.seconds = sec]
    <2>1. q.at = "mark" /\ q.id = s
        BY DEF Idle
    <2>2. req' = [req EXCEPT ![th] = q] /\ Get(s)
          /\ UNCHANGED <<procs, streams, reaper, minted>>
        BY <1>7 DEF Mark, Begin, streamVars
    <2> HIDE DEF q
    <2> QED BY <1>1, <1>2, <2>1, <2>2, QuietStep, TouchIsQuiet
<1>8. ASSUME NEW item \in Items, NEW p \in PlaceWriters, Forget(th, item, p)
      PROVE  Safe'
    <2> DEFINE q == [Idle EXCEPT !.at = "clear", !.item = item, !.profile = p,
                        !.members = IF WorkOf(item) = None THEN <<item>>
                                    ELSE memberOrder(item)]
    <2>1. q.at = "clear" /\ q.id = None
        BY DEF Idle
    <2>2. req' = [req EXCEPT ![th] = q] /\ rows' = rows
          /\ UNCHANGED <<procs, streams, reaper, minted>>
        BY <1>8 DEF Forget, Begin, streamVars
    <2> HIDE DEF q
    <2> QED BY <1>1, <2>1, <2>2, QuietStep DEF On
<1>9. ASSUME NEW item \in Items, NEW p \in PlaceWriters, NEW stage \in {"write", "clear"},
             SetProgress(th, item, p, stage)
      PROVE  Safe'
    <2> DEFINE q == [Idle EXCEPT !.at = stage, !.item = item, !.profile = p,
                        !.id = None, !.members = <<item>>]
    <2>1. q.at = stage /\ q.id = None
        BY DEF Idle
    <2>2. req' = [req EXCEPT ![th] = q] /\ rows' = rows
          /\ UNCHANGED <<procs, streams, reaper, minted>>
        BY <1>9 DEF SetProgress, ToWrite, Begin, streamVars
    <2> HIDE DEF q
    <2> QED BY <1>1, <2>1, <2>2, QuietStep DEF On
<1>10. ASSUME NEW s \in Sessions, Stop(th, s)
       PROVE  Safe'
    BY <1>10, StopSafe
<1> QED BY <1>3, <1>4, <1>5, <1>6, <1>7, <1>8, <1>9, <1>10 DEF Arrive

(* The later steps of a handler that neither start nor stop anything.      *)
LEMMA QuietContinueSafe ==
    ASSUME IInv, NEW th \in Threads,
           \/ Inherit(th) \/ Refuse(th) \/ SetPlace(th) \/ ClearPlace(th)
           \/ ClearPassage(th) \/ UpdateMarks(th) \/ Remember(th)
    PROVE  Safe'
<1> USE DEF IInv
<1> DEFINE r == req[th]
<1>1. r \in Request /\ (r.id # None => r.id \in minted)
    BY DEF TypeOK, Safe, IdsAreFresh
<1>2. \A x \in Sessions : On(x) => rows[x] \in Row
    BY DEF On, TypeOK
<1>3. ASSUME NEW q, req' = [req EXCEPT ![th] = q], q.id \in {None, r.id},
             q.at \in {"idle", "act", "clear", "remember"},
             r.at \notin {"enter", "wait", "unwind", "kill"},
             \A x \in Sessions : On(x)' <=> On(x),
             \A x \in Sessions : On(x) =>
                /\ rows'[x].method = rows[x].method
                /\ rows'[x].passage \in {rows[x].passage, None},
             UNCHANGED <<procs, streams, reaper, minted>>
      PROVE  Safe'
    <2>1. q.id # None => q.id \in minted
                /\ \A u \in Threads \ {th} : Starting(u) => req[u].id # q.id
        BY <1>1, <1>3 DEF Safe, IdsAreFresh
    <2> QED BY <1>3, <2>1, QuietStep
<1>4. CASE Inherit(th)
    <2> DEFINE q == [r EXCEPT !.at = "act", !.marks = marksInWork(r.profile, r.item)]
    <2>1. q.id = r.id /\ q.at = "act"
        BY <1>1 DEF Request
    <2>2. req' = [req EXCEPT ![th] = q] /\ rows' = rows /\ r.at = "inherit"
          /\ UNCHANGED <<procs, streams, reaper, minted>>
        BY <1>4 DEF Inherit, At, streamVars
    <2> HIDE DEF q
    <2> QED BY <1>3, <2>1, <2>2 DEF On
<1>5. Idle.id = None /\ Idle.at = "idle"
    BY DEF Idle
<1>6. CASE Refuse(th) \/ SetPlace(th) \/ Remember(th)
    <2>1. req' = [req EXCEPT ![th] = Idle] /\ rows' = rows
          /\ r.at \in {"act", "write", "remember"}
          /\ UNCHANGED <<procs, streams, reaper, minted>>
        BY <1>6 DEF Refuse, SetPlace, Remember, Answer, At, streamVars
    <2> QED BY <1>3, <1>5, <2>1 DEF On
<1>7. CASE ClearPlace(th)
    <2>1. rows' = rows /\ r.at = "clear" /\ UNCHANGED <<procs, streams, reaper, minted>>
        BY <1>7 DEF ClearPlace, At, streamVars
    <2>2. PICK q : /\ req' = [req EXCEPT ![th] = q] /\ q.id \in {None, r.id}
                   /\ q.at \in {"idle", "clear"}
        <3>1. CASE Len(r.members) = 1
            BY <1>5, <1>7, <3>1 DEF ClearPlace, Answer
        <3>2. CASE Len(r.members) # 1
            <4> DEFINE p == [r EXCEPT !.members = Tail(@)]
            <4>1. p.id = r.id /\ p.at = "clear"
                BY <1>1, <2>1 DEF Request
            <4>2. req' = [req EXCEPT ![th] = p]
                BY <1>7, <3>2 DEF ClearPlace
            <4> HIDE DEF p
            <4> QED BY <4>1, <4>2
        <3> QED BY <3>1, <3>2
    <2> QED BY <1>3, <2>1, <2>2 DEF On
<1>8. CASE ClearPassage(th)
    <2>1. /\ req' = [req EXCEPT ![th] = Idle] /\ r.at = "keep" /\ r.id \in Sessions
          /\ UNCHANGED <<procs, streams, reaper, minted>>
        BY <1>8 DEF ClearPassage, Answer, At, streamVars, RequestsCarry, Carries
    <2>2. CASE ~ On(r.id)
        BY <1>3, <1>5, <1>8, <2>1, <2>2 DEF ClearPassage, On
    <2>3. CASE On(r.id)
        <3> DEFINE row == [rows[r.id] EXCEPT !.passage = None, !.age = 0]
        <3>1. rows' = [rows EXCEPT ![r.id] = row]
            BY <1>8, <2>3 DEF ClearPassage
        <3>2. row \in Row /\ row # None
            <4>1. row \in Row
                BY <1>2, <2>1, <2>3 DEF Row
            <4> HIDE DEF row
            <4> QED BY <4>1, NoneAssumption
        <3>4. row.method = rows[r.id].method /\ row.passage = None
            BY <1>2, <2>1, <2>3 DEF Row
        <3> HIDE DEF row
        <3>3. \A x \in Sessions : rows'[x] = IF x = r.id THEN row ELSE rows[x]
            BY <3>1, <2>1 DEF TypeOK
        <3> QED BY <1>3, <1>5, <2>1, <2>3, <3>2, <3>3, <3>4 DEF On
    <2> QED BY <2>2, <2>3
<1>9. CASE UpdateMarks(th)
    <2>1. r.at = "mark" /\ r.id \in Sessions /\ UNCHANGED <<procs, streams, reaper, minted>>
        BY <1>9 DEF UpdateMarks, At, streamVars, RequestsCarry, Carries
    <2>2. CASE ~ On(r.id)
        BY <1>3, <1>5, <1>9, <2>1, <2>2 DEF UpdateMarks, Answer, On
    <2>3. CASE On(r.id)
        <3> DEFINE row == [rows[r.id] EXCEPT !.marks = Marked(r), !.age = 0]
                   q == [r EXCEPT !.at = "remember", !.marks = Marked(r)]
        <3>1. rows' = [rows EXCEPT ![r.id] = row] /\ req' = [req EXCEPT ![th] = q]
            BY <1>9, <2>3 DEF UpdateMarks
        <3>2. row.method = rows[r.id].method /\ row.passage = rows[r.id].passage
            BY <1>2, <2>1, <2>3 DEF Row
        <3>3. row # None
            <4>1. r.item \in Items /\ r.kind \in {"in", "out"} /\ r.seconds \in Int \cup {None}
                BY <1>1, <2>1 DEF RequestsCarry, Carries, Request
            <4>2. rows[r.id] \in Row /\ rows[r.id].marks \in Rules!Marks
                BY <1>2, <2>1, <2>3 DEF Row
            <4>3. Marked(r) \in Rules!Marks
                <5> HIDE DEF r
                <5> QED BY <4>1, <4>2, MarkedType
            <4>4. row \in Row
                BY <4>2, <4>3 DEF Row
            <4> QED BY <4>4, NoneAssumption
        <3>4. q.id = r.id /\ q.at = "remember"
            BY <1>1 DEF Request
        <3> HIDE DEF row, q
        <3>5. \A x \in Sessions : rows'[x] = IF x = r.id THEN row ELSE rows[x]
            BY <3>1, <2>1 DEF TypeOK
        <3> QED BY <1>3, <2>1, <2>3, <3>1, <3>2, <3>3, <3>4, <3>5 DEF On
    <2> QED BY <2>2, <2>3
<1> QED BY <1>4, <1>6, <1>7, <1>8, <1>9

(* The steps that start a play, one lemma each.                            *)
LEMMA StartTranscodeSafe ==
    ASSUME IInv, NEW th \in Threads, NEW s \in Sessions, StartTranscode(th, s)
    PROVE  Safe'
<1> USE DEF IInv, Safe
<1> DEFINE q == [req[th] EXCEPT !.at = "enter", !.id = s]
<1>1. q.id = s /\ q.at = "enter"
    BY DEF TypeOK, Request
<1>2. /\ req' = [req EXCEPT ![th] = q] /\ req[th].at = "act" /\ s \notin minted
      /\ minted' = minted \cup {s} /\ procs' = procs \cup {s}
      /\ UNCHANGED <<streams, reaper, rows>>
    BY DEF StartTranscode, StartProcess, At
<1> HIDE DEF q
<1>3. \A u \in Threads : req'[u] = IF u = th THEN q ELSE req[u]
    BY <1>2, OneRequest
<1>4. ~ On(s) /\ s # None /\ \A u \in Threads : req[u].id # s
    BY <1>2, NoneAssumption DEF IdsAreFresh
<1>5. IdsAreFresh'
    BY <1>1, <1>2, <1>3, <1>4 DEF IdsAreFresh, Starting, On, Live
<1>6. StreamsBelong'
    BY <1>1, <1>2, <1>3 DEF StreamsBelong, On, Live
<1>7. OwnPassageHolds'
    BY <1>1, <1>2, <1>3 DEF OwnPassageHolds, At, On
<1>8. NoOrphanProcess'
    BY <1>1, <1>2, <1>3 DEF NoOrphanProcess, Live
<1>9. StreamHasOwner'
    BY <1>1, <1>2, <1>3 DEF StreamHasOwner, At, On, Live
<1> QED BY <1>5, <1>6, <1>7, <1>8, <1>9

LEMMA EnterSafe ==
    ASSUME IInv, NEW th \in Threads, EnterStream(th)
    PROVE  Safe'
<1> USE DEF IInv, Safe
<1> DEFINE s == req[th].id
           q == [req[th] EXCEPT !.at = "wait"]
<1>1. q.id = s /\ q.at = "wait"
    BY DEF TypeOK, Request
<1>2. /\ req' = [req EXCEPT ![th] = q] /\ req[th].at = "enter" /\ Enter(s)
      /\ UNCHANGED <<procs, reaper, rows, minted>>
    BY DEF EnterStream, Enter, Goto, At
<1>3. s \in Sessions /\ s \in minted /\ s # None
    BY <1>2, NoneAssumption DEF RequestsCarry, Carries, IdsAreFresh
<1>4. ~ On(s) /\ \A u \in Threads \ {th} : req[u].id # s
    BY <1>2 DEF IdsAreFresh, Starting
<1> HIDE DEF q, s
<1>5. \A u \in Threads : req'[u] = IF u = th THEN q ELSE req[u]
    BY <1>2, OneRequest
<1>6. \A x \in Sessions : Live(x)' <=> Live(x) \/ x = s
    BY <1>2, <1>3, OneEntered
<1>7. \A u \in Threads : Starting(u)' <=> Starting(u)
    BY <1>1, <1>2, <1>5 DEF Starting
<1>8. \A u \in Threads : Starting(u) \/ req[u].at \in {"kill", "drop"}
            => req[u].id \in Sessions
    BY DEF Starting, RequestsCarry, Carries
<1>9. req[th].id = s
    BY DEF s
<1>10. IdsAreFresh'
    BY <1>1, <1>2, <1>3, <1>4, <1>5, <1>6, <1>7, <1>9 DEF IdsAreFresh, On
<1>11. StreamsBelong'
    BY <1>1, <1>2, <1>4, <1>5, <1>6, <1>8 DEF StreamsBelong, On
<1>12. OwnPassageHolds'
    BY <1>1, <1>2, <1>5 DEF OwnPassageHolds, At, On
<1>13. NoOrphanProcess'
    <2>1. procs \subseteq Sessions
        BY DEF TypeOK, StreamTypeOK
    <2> QED BY <1>1, <1>2, <1>5, <1>6, <1>9, <2>1 DEF NoOrphanProcess
<1>14. StreamHasOwner'
    BY <1>1, <1>2, <1>5, <1>6, <1>9 DEF StreamHasOwner, At, On
<1> QED BY <1>10, <1>11, <1>12, <1>13, <1>14

LEMMA PutSafe ==
    ASSUME IInv, NEW th \in Threads, NEW s \in Sessions,
           PutDirect(th, s) \/ (s = req[th].id /\ PutTranscode(th))
    PROVE  Safe'
<1> USE DEF IInv, Safe
<1> DEFINE r == req[th]
           q == Idle
<1>1. r \in Request /\ r.item \in Items /\ r.profile \in Profiles
      /\ r.at \in {"act", "wait"}
    BY DEF PutDirect, PutTranscode, At, TypeOK, RequestsCarry, Carries
<1>2. PICK method \in {"direct", "transcode"} :
        /\ Put(s, r, method)
        /\ method = "direct" => s \notin minted
        /\ method = "transcode" => r.at = "wait" /\ s = r.id
        /\ r.at = "wait" => method = "transcode"
    BY DEF PutDirect, PutTranscode, At
<1>3. req' = [req EXCEPT ![th] = q] /\ minted' = minted \cup {s}
      /\ UNCHANGED <<procs, streams, reaper>>
    <2>1. CASE PutDirect(th, s)
        BY <2>1 DEF PutDirect, Answer, streamVars
    <2>2. CASE s = r.id /\ PutTranscode(th)
        <3>1. s \in minted
            BY <2>2, NoneAssumption DEF IdsAreFresh
        <3> QED BY <2>2, <3>1 DEF PutTranscode, Answer, streamVars
    <2> QED BY <2>1, <2>2
<1>4. /\ \A x \in Sessions : On(x)' <=> On(x) \/ x = s
      /\ \A x \in Sessions : x # s => rows'[x] = rows[x]
      /\ rows'[s].method = method
    BY <1>1, <1>2, OnePut DEF MethodNames, Request
<1>5. q.id = None /\ q.at = "idle"
    BY DEF Idle
<1> HIDE DEF q
<1>6. \A u \in Threads : req'[u] = IF u = th THEN q ELSE req[u]
    BY <1>3 DEF TypeOK
<1>7. s # None /\ \A u \in Threads \ {th} : req[u].id # s
    BY <1>2, NoneAssumption DEF IdsAreFresh, Starting
<1>8. method = "direct" => ~ Live(s)
    BY <1>2 DEF IdsAreFresh
<1>9. \A x \in Sessions : Live(x)' <=> Live(x)
    BY <1>3 DEF Live
<1>10. minted \subseteq Sessions /\ procs \subseteq Sessions
    BY DEF TypeOK, StreamTypeOK
<1> HIDE DEF r
<1>11. IdsAreFresh'
    <2>1. \A x \in Sessions : On(x)' \/ Live(x)' => x \in minted'
        BY <1>3, <1>4, <1>9 DEF IdsAreFresh
    <2>2. \A u \in Threads : req'[u].id # None => req'[u].id \in minted'
        BY <1>3, <1>5, <1>6 DEF IdsAreFresh
    <2>3. ASSUME NEW u \in Threads, Starting(u)'
          PROVE  /\ rows'[req'[u].id] = None
                 /\ \A w \in Threads \ {u} : req'[w].id # req'[u].id
        <3>1. u # th /\ Starting(u) /\ req'[u] = req[u]
            BY <1>5, <1>6, <2>3 DEF Starting
        <3>2. req[u].id \in Sessions /\ req[u].id # None /\ req[u].id # s
            BY <1>7, <3>1, NoneAssumption DEF RequestsCarry, Carries, Starting
        <3>3. ~ On(req[u].id) /\ \A w \in Threads \ {u} : req[w].id # req[u].id
            BY <3>1 DEF IdsAreFresh
        <3>4. rows'[req[u].id] = None
            BY <1>4, <3>2, <3>3 DEF On
        <3> QED BY <1>5, <1>6, <3>1, <3>2, <3>3, <3>4
    <2> QED BY <2>1, <2>2, <2>3 DEF IdsAreFresh, On
<1>12. StreamsBelong'
    <2>1. \A x \in Sessions : On(x)' /\ rows'[x].method # "transcode" => ~ Live(x)'
        BY <1>2, <1>4, <1>8, <1>9 DEF StreamsBelong
    <2>2. \A u \in Threads : req'[u].at \in {"kill", "drop"} => streams'[req'[u].id] = None
        BY <1>3, <1>5, <1>6 DEF StreamsBelong, Live
    <2> QED BY <2>1, <2>2 DEF StreamsBelong, Live
<1>13. OwnPassageHolds'
    <2>1. ASSUME NEW u \in Threads, req'[u].at = "write", req'[u].id # None,
                 rows'[req'[u].id] # None
          PROVE  rows'[req'[u].id].passage = None
        <3>1. u # th /\ req'[u] = req[u] /\ req[u].id # s
            BY <1>5, <1>6, <1>7, <2>1
        <3>2. req[u].id \in Sessions
            BY <1>10, <2>1, <3>1 DEF IdsAreFresh
        <3>3. rows'[req[u].id] = rows[req[u].id]
            BY <1>4, <3>1, <3>2
        <3> QED BY <2>1, <3>1, <3>3 DEF OwnPassageHolds, At, On
    <2> QED BY <2>1 DEF OwnPassageHolds, At, On
<1>14. NoOrphanProcess'
    <2>1. req[th].at \notin {"enter", "unwind", "kill"}
        BY <1>1 DEF r
    <2> QED BY <1>3, <1>6, <1>9, <1>10, <2>1 DEF NoOrphanProcess
<1>15. StreamHasOwner'
    <2>1. req[th].at = "wait" => req[th].id = s
        BY <1>2 DEF r
    <2> QED BY <1>4, <1>6, <1>9, <2>1 DEF StreamHasOwner, At
<1> QED BY <1>11, <1>12, <1>13, <1>14, <1>15

(* The steps that end something: a stream's entry, a process, a row. None  *)
(* of them adds an id, a row or a stream, or takes up a write.             *)
LEMMA EndingStep ==
    ASSUME IInv,
           minted' = minted,
           \A x \in Sessions : Live(x)' => Live(x),
           \A x \in Sessions : On(x)' => /\ On(x)
                                        /\ rows'[x].method = rows[x].method
                                        /\ rows'[x].passage = rows[x].passage,
           \A u \in Threads : req'[u].id \in {None, req[u].id},
           \A u \in Threads : req'[u].at \in {"enter", "wait", "unwind"}
                => Starting(u) /\ req'[u].id = req[u].id,
           \A u \in Threads : req'[u].at \in {"kill", "drop"} =>
                req[u].at \in {"kill", "drop"} /\ req'[u].id = req[u].id,
           \A u \in Threads : req'[u].at = "write" => req'[u] = req[u],
           \A x \in Sessions : Live(x)' /\ ~ On(x)' =>
                \E u \in Threads : req'[u].at = "wait" /\ req'[u].id = x,
           \A x \in procs' : \/ Live(x)'
                             \/ \E u \in Threads : /\ req'[u].id = x
                                                   /\ req'[u].at \in {"enter", "unwind", "kill"}
                             \/ reaper'.at = "killing" /\ reaper'.id = x
    PROVE  Safe'
<1> USE DEF IInv, Safe
<1>1. minted \subseteq Sessions
    BY DEF TypeOK
<1>2. IdsAreFresh'
    <2>1. \A x \in Sessions : On(x)' \/ Live(x)' => x \in minted'
        BY DEF IdsAreFresh, On
    <2>2. \A u \in Threads : req'[u].id # None => req'[u].id \in minted'
        BY DEF IdsAreFresh
    <2>3. ASSUME NEW u \in Threads, Starting(u)'
          PROVE  /\ rows'[req'[u].id] = None
                 /\ \A w \in Threads \ {u} : req'[w].id # req'[u].id
        <3>1. Starting(u) /\ req'[u].id = req[u].id
            BY <2>3 DEF Starting
        <3>2. req[u].id \in Sessions /\ req[u].id # None
            BY <3>1, NoneAssumption DEF RequestsCarry, Carries, Starting
        <3>3. ~ On(req[u].id) /\ \A w \in Threads \ {u} : req[w].id # req[u].id
            BY <3>1 DEF IdsAreFresh
        <3> QED BY <3>1, <3>2, <3>3 DEF On
    <2> QED BY <2>1, <2>2, <2>3 DEF IdsAreFresh, On
<1>3. StreamsBelong'
    <2>1. \A x \in Sessions : On(x)' /\ rows'[x].method # "transcode" => ~ Live(x)'
        BY DEF StreamsBelong, On
    <2>2. ASSUME NEW u \in Threads, req'[u].at \in {"kill", "drop"}
          PROVE  streams'[req'[u].id] = None
        <3>1. req[u].id \in Sessions /\ ~ Live(req[u].id) /\ req'[u].id = req[u].id
            BY <2>2 DEF StreamsBelong, RequestsCarry, Carries
        <3> QED BY <3>1 DEF Live
    <2> QED BY <2>1, <2>2 DEF StreamsBelong, Live
<1>4. OwnPassageHolds'
    <2>1. ASSUME NEW u \in Threads, req'[u].at = "write", req'[u].id # None,
                 rows'[req'[u].id] # None
          PROVE  rows'[req'[u].id].passage = None
        <3>1. req'[u] = req[u] /\ req[u].id \in Sessions
            BY <1>1, <2>1 DEF IdsAreFresh
        <3> QED BY <2>1, <3>1 DEF OwnPassageHolds, At, On
    <2> QED BY <2>1 DEF OwnPassageHolds, At, On
<1>5. NoOrphanProcess'
    BY DEF NoOrphanProcess
<1>6. StreamHasOwner'
    BY DEF StreamHasOwner, At
<1> QED BY <1>2, <1>3, <1>4, <1>5, <1>6

LEMMA EndingContinueSafe ==
    ASSUME IInv, NEW th \in Threads,
           NoPlaylist(th) \/ Unwind(th) \/ StopKill(th) \/ Drop(th)
    PROVE  Safe'
<1> USE DEF IInv
<1> DEFINE s == req[th].id
<1>1. req[th].at \in {"wait", "unwind", "kill", "drop"} /\ s \in Sessions
      /\ req[th] \in Request
    BY DEF NoPlaylist, Unwind, StopKill, Drop, At, RequestsCarry, Carries, TypeOK
<1>2. procs \subseteq Sessions
    BY DEF TypeOK, StreamTypeOK
<1>3. ASSUME NEW q, req' = [req EXCEPT ![th] = q], q.id \in {None, s}
      PROVE  /\ \A u \in Threads : req'[u] = IF u = th THEN q ELSE req[u]
             /\ \A u \in Threads : req'[u].id \in {None, req[u].id}
    BY <1>3 DEF TypeOK
<1>4. CASE NoPlaylist(th)
    <2> DEFINE q == [req[th] EXCEPT !.at = "unwind"]
    <2>1. q.id = s /\ q.at = "unwind"
        BY <1>1 DEF Request
    <2>2. req' = [req EXCEPT ![th] = q] /\ Remove(s) /\ req[th].at = "wait"
          /\ UNCHANGED <<procs, reaper, rows, minted>>
        BY <1>4 DEF NoPlaylist, Goto, At
    <2> HIDE DEF q
    <2>3. \A x \in Sessions : Live(x)' <=> Live(x) /\ x # s
        BY <1>1, <2>2, OneRemoved
    <2>4. \A u \in Threads : req'[u] = IF u = th THEN q ELSE req[u]
        BY <1>3, <2>1, <2>2
    <2>5. \A x \in Sessions : Live(x)' /\ ~ On(x)' =>
            \E u \in Threads : req'[u].at = "wait" /\ req'[u].id = x
        BY <2>2, <2>3, <2>4 DEF Safe, StreamHasOwner, On, At
    <2>6. \A x \in procs' : \/ Live(x)'
                            \/ \E u \in Threads : /\ req'[u].id = x
                                                  /\ req'[u].at \in {"enter", "unwind", "kill"}
                            \/ reaper'.at = "killing" /\ reaper'.id = x
        BY <1>2, <2>1, <2>2, <2>3, <2>4 DEF Safe, NoOrphanProcess
    <2>7. \A x \in Sessions : On(x)' <=> On(x)
        BY <2>2 DEF On
    <2>8. \A u \in Threads : req'[u].id \in {None, req[u].id}
        BY <2>1, <2>4
    <2> QED BY <2>1, <2>2, <2>3, <2>4, <2>5, <2>6, <2>7, <2>8, EndingStep DEF Starting
<1>5. CASE Unwind(th)
    <2> DEFINE q == Idle
    <2>1. q.id = None /\ q.at = "idle"
        BY DEF Idle
    <2>2. req' = [req EXCEPT ![th] = q] /\ procs' = procs \ {s}
          /\ UNCHANGED <<streams, reaper, rows, minted>> /\ req[th].at = "unwind"
        BY <1>5 DEF Unwind, Kill, Answer, At
    <2> HIDE DEF q
    <2> QED BY <1>1, <1>2, <1>3, <2>1, <2>2, EndingStep
            DEF On, Live, Starting, Safe, NoOrphanProcess, StreamHasOwner, At
<1>6. CASE StopKill(th)
    <2> DEFINE q == [req[th] EXCEPT !.at = "drop"]
    <2>1. q.id = s /\ q.at = "drop"
        BY <1>1 DEF Request
    <2>2. req' = [req EXCEPT ![th] = q] /\ procs' = procs \ {s}
          /\ UNCHANGED <<streams, reaper, rows, minted>> /\ req[th].at = "kill"
        BY <1>6 DEF StopKill, Kill, Goto, At
    <2> HIDE DEF q
    <2> QED BY <1>1, <1>2, <1>3, <2>1, <2>2, EndingStep
            DEF On, Live, Starting, Safe, NoOrphanProcess, StreamHasOwner, At
<1>7. CASE Drop(th)
    <2>1. PICK q : /\ req' = [req EXCEPT ![th] = q] /\ q.id \in {None, s}
                   /\ q.at \in {"idle", "remember"}
        <3>1. CASE rows[s] = None
            <4>1. Idle.id = None /\ Idle.at = "idle"
                BY DEF Idle
            <4>2. req' = [req EXCEPT ![th] = Idle]
                BY <1>7, <3>1 DEF Drop, Answer
            <4> QED BY <4>1, <4>2
        <3>2. CASE rows[s] # None
            <4> DEFINE p == [req[th] EXCEPT !.at = "remember", !.item = rows[s].item,
                                !.profile = rows[s].profile, !.marks = rows[s].marks]
            <4>1. p.id = s /\ p.at = "remember"
                BY <1>1 DEF Request
            <4>2. req' = [req EXCEPT ![th] = p]
                BY <1>7, <3>2 DEF Drop
            <4> HIDE DEF p
            <4> QED BY <4>1, <4>2
        <3> QED BY <3>1, <3>2
    <2>2. rows' = [rows EXCEPT ![s] = None] /\ req[th].at = "drop"
          /\ UNCHANGED <<procs, streams, reaper, minted>>
        BY <1>7 DEF Drop, At, streamVars
    <2>3. \A x \in Sessions : rows'[x] = IF x = s THEN None ELSE rows[x]
        BY <2>2 DEF TypeOK
    <2>4. ~ Live(s)
        BY <2>2 DEF Safe, StreamsBelong
    <2> QED BY <1>1, <1>2, <1>3, <2>1, <2>2, <2>3, <2>4, EndingStep
            DEF On, Live, Starting, Safe, NoOrphanProcess, StreamHasOwner, At
<1> QED BY <1>4, <1>5, <1>6, <1>7

LEMMA ReadSafe ==
    ASSUME IInv, NEW s \in Sessions, NEW i \in Items, NEW p \in Profiles,
           NEW in \in PassageInputs \cup {None}, Read(s, i, p, in)
    PROVE  Safe'
<1> USE DEF IInv, Safe
<1> DEFINE text == IF in = None THEN None ELSE Rules!textPassage(Rules!resolvePassage(in, i))
           r == [item |-> i, profile |-> p, marks |-> Rules!NoMarks, passage |-> text]
<1>1. text \in Rules!Passage \cup {None}
    BY SessionsAssumption, PassageTypes
<1>2. Rules!NoMarks \in Rules!Marks
    BY DEF Rules!NoMarks, Rules!Marks, Rules!Optional
<1>3. /\ Put(s, r, "read") /\ s \notin minted /\ minted' = minted \cup {s}
      /\ req' = req /\ UNCHANGED <<procs, streams, reaper>>
    BY DEF Read, streamVars
<1> HIDE DEF text
<1>4. r.item \in Items /\ r.profile \in Profiles /\ r.marks \in Rules!Marks
      /\ r.passage \in Rules!Passage \cup {None}
    BY <1>1, <1>2
<1> HIDE DEF r
<1>5. /\ \A x \in Sessions : On(x)' <=> On(x) \/ x = s
      /\ \A x \in Sessions : x # s => rows'[x] = rows[x]
      /\ rows'[s].method = "read"
    BY <1>3, <1>4, OnePut DEF MethodNames
<1>6. s # None /\ ~ Live(s) /\ \A u \in Threads : req[u].id # s
    BY <1>3, NoneAssumption DEF IdsAreFresh
<1>7. \A x \in Sessions : Live(x)' <=> Live(x)
    BY <1>3 DEF Live
<1>8. minted \subseteq Sessions
    BY DEF TypeOK
<1>9. IdsAreFresh'
    <2>1. \A x \in Sessions : On(x)' \/ Live(x)' => x \in minted'
        BY <1>3, <1>5, <1>7 DEF IdsAreFresh
    <2>2. \A u \in Threads : req'[u].id # None => req'[u].id \in minted'
        BY <1>3 DEF IdsAreFresh
    <2>3. ASSUME NEW u \in Threads, Starting(u)
          PROVE  /\ rows'[req[u].id] = None
                 /\ \A w \in Threads \ {u} : req[w].id # req[u].id
        <3>1. req[u].id \in Sessions /\ req[u].id # s
            BY <1>6, <2>3 DEF RequestsCarry, Carries, Starting
        <3> QED BY <1>5, <2>3, <3>1 DEF IdsAreFresh, On
    <2> QED BY <1>3, <2>1, <2>2, <2>3 DEF IdsAreFresh, On, Starting
<1>10. StreamsBelong'
    <2>1. \A x \in Sessions : On(x)' /\ rows'[x].method # "transcode" => ~ Live(x)'
        BY <1>5, <1>6, <1>7 DEF StreamsBelong
    <2>2. \A u \in Threads : req[u].at \in {"kill", "drop"} => streams[req[u].id] = None
        BY DEF StreamsBelong, Live
    <2> QED BY <1>3, <2>1, <2>2 DEF StreamsBelong, Live
<1>11. OwnPassageHolds'
    <2>1. ASSUME NEW u \in Threads, req[u].at = "write", req[u].id # None,
                 rows'[req[u].id] # None
          PROVE  rows'[req[u].id].passage = None
        <3>1. req[u].id \in Sessions /\ req[u].id # s
            BY <1>6, <1>8, <2>1 DEF IdsAreFresh
        <3> QED BY <1>5, <2>1, <3>1 DEF OwnPassageHolds, At, On
    <2> QED BY <1>3, <2>1 DEF OwnPassageHolds, At, On
<1>12. NoOrphanProcess'
    BY <1>3, <1>7 DEF NoOrphanProcess, TypeOK, StreamTypeOK
<1>13. StreamHasOwner'
    BY <1>3, <1>5, <1>7 DEF StreamHasOwner, At
<1> QED BY <1>9, <1>10, <1>11, <1>12, <1>13

(* The steps no thread takes, the reading sessions' start aside.           *)
LEMMA BackgroundSafe ==
    ASSUME IInv,
           \/ \E s \in Sessions : Look(s) \/ Fetch(s) \/ Leave(s)
                                  \/ (Exit(s) /\ UNCHANGED sessionVars)
           \/ ReapLoop
           \/ Tick
    PROVE  Safe'
<1> USE DEF IInv
<1>1. procs \subseteq Sessions
    BY DEF TypeOK, StreamTypeOK
<1>2. ASSUME UNCHANGED <<req, minted>>,
             \A x \in Sessions : Live(x)' => Live(x),
             \A x \in Sessions : On(x)' => /\ On(x)
                                           /\ rows'[x].method = rows[x].method
                                           /\ rows'[x].passage = rows[x].passage,
             \A x \in Sessions : Live(x)' /\ On(x) => On(x)',
             \A x \in procs' : /\ x \in procs
                               /\ \/ Live(x) /\ ~ Live(x)'
                                  \/ reaper.at = "killing" /\ reaper.id = x
                                  => Live(x)' \/ (reaper'.at = "killing" /\ reaper'.id = x)
      PROVE  Safe'
    BY <1>1, <1>2, EndingStep DEF Safe, Starting, NoOrphanProcess, StreamHasOwner, At
<1>3. ASSUME NEW s \in Sessions, Look(s) PROVE Safe'
    <2>1. \A x \in Sessions : On(x)' <=> On(x)
        BY <1>3, TouchIsQuiet DEF Look
    <2>2. \A x \in Sessions : On(x) => /\ rows'[x].method = rows[x].method
                                       /\ rows'[x].passage = rows[x].passage
        BY <1>3 DEF Look, Get, Touched, TypeOK, On, Row
    <2>3. UNCHANGED <<procs, streams, reaper, req, minted>>
        BY <1>3 DEF Look, streamVars
    <2>4. \A x \in Sessions : Live(x)' <=> Live(x)
        BY <2>3 DEF Live
    <2>5. \A x \in procs' : x \in procs
        BY <2>3
    <2>6. reaper'.at = reaper.at /\ reaper'.id = reaper.id
        BY <2>3
    <2>7. req' = req /\ minted' = minted
        BY <2>3
    <2>8. \A x \in Sessions : On(x)' => /\ rows'[x].method = rows[x].method
                                         /\ rows'[x].passage = rows[x].passage
        BY <2>1, <2>2
    <2> QED BY <1>2, <1>1, <2>1, <2>4, <2>5, <2>6, <2>7, <2>8
<1>4. ASSUME NEW s \in Sessions, Fetch(s) PROVE Safe'
    <2>1. \A x \in Sessions : Live(x)' <=> Live(x)
        BY <1>4, MaxIdleAssumption DEF Fetch, Touch, Live, TypeOK, StreamTypeOK
    <2>2. UNCHANGED <<procs, reaper, rows, req, minted>>
        BY <1>4 DEF Fetch, sessionVars
    <2>3. \A x \in Sessions : On(x)' => /\ On(x)
                                         /\ rows'[x].method = rows[x].method
                                         /\ rows'[x].passage = rows[x].passage
        BY <2>2 DEF On
    <2>4. \A x \in Sessions : Live(x)' /\ On(x) => On(x)'
        BY <2>2 DEF On
    <2> QED BY <1>2, <1>1, <2>1, <2>2, <2>3, <2>4
<1>5. ASSUME NEW s \in Sessions, Leave(s) PROVE Safe'
    BY <1>2, <1>5 DEF Leave, streamVars, Live, On
<1>6. CASE ReapCollect /\ UNCHANGED sessionVars
    BY <1>2, <1>6 DEF ReapCollect, sessionVars, Live, On
<1>7. ASSUME NEW s \in Sessions, ReapStop(s), UNCHANGED sessionVars PROVE Safe'
    <2>1. \A x \in Sessions : Live(x)' <=> Live(x) /\ x # s
        BY <1>7, OneRemoved DEF ReapStop
    <2>2. reaper.at = "stopping" /\ (Live(s) => reaper'.at = "killing" /\ reaper'.id = s)
          /\ procs' = procs
        BY <1>7 DEF ReapStop
    <2> QED BY <1>1, <1>2, <1>7, <2>1, <2>2 DEF sessionVars, On
<1>8. CASE ReapKill /\ UNCHANGED sessionVars
    <2>1. procs' = procs \ {reaper.id} /\ streams' = streams
        BY <1>8 DEF ReapKill, Kill
    <2> QED BY <1>2, <1>8, <2>1 DEF sessionVars, Live, On
<1>9. CASE ReapDone /\ UNCHANGED sessionVars
    BY <1>2, <1>9 DEF ReapDone, sessionVars, Live, On
<1>10. CASE ReapRows
    <2>1. reaper.at = "sweeping" /\ UNCHANGED <<procs, streams, req, minted>>
        BY <1>10 DEF ReapRows
    <2>2. \A x \in Sessions : rows'[x] = IF On(x) /\ Gone(rows[x], x) THEN None ELSE rows[x]
        BY <1>10 DEF ReapRows
    <2>3. \A x \in Sessions : On(x) /\ Live(x) => ~ Gone(rows[x], x)
        BY DEF Gone, Safe, StreamsBelong
    <2> QED BY <1>2, <2>1, <2>2, <2>3 DEF On, Live
<1>11. CASE Tick
    <2>1. \A x \in Sessions : Live(x)' <=> Live(x)
        BY <1>11, MaxIdleAssumption DEF Tick, AgeStreams, Aged, Live, TypeOK, StreamTypeOK
    <2>2. \A x \in Sessions : On(x) =>
            /\ AgedRow(rows[x]) \in Row
            /\ AgedRow(rows[x]).method = rows[x].method
            /\ AgedRow(rows[x]).passage = rows[x].passage
        <3> TAKE x \in Sessions
        <3> HAVE On(x)
        <3> DEFINE age == IF rows[x].method = "transcode" THEN rows[x].age
                          ELSE Aged(rows[x].age, IF rows[x].method = "read"
                                                 THEN ReadIdle ELSE MaxIdle)
        <3>1. rows[x] \in Row
            BY DEF TypeOK, On
        <3>2. age \in Nat
            BY <3>1, SessionsAssumption, MaxIdleAssumption DEF Aged, Row
        <3>3. AgedRow(rows[x]) = [rows[x] EXCEPT !.age = age]
            BY <3>1 DEF AgedRow, Row
        <3> HIDE DEF age
        <3> QED BY <3>1, <3>2, <3>3 DEF Row
    <2>3. \A x \in Sessions : rows'[x] = IF On(x) THEN AgedRow(rows[x]) ELSE None
        BY <1>11 DEF Tick
    <2>4. \A x \in Sessions : On(x)' <=> On(x)
        BY <2>2, <2>3, NoneAssumption DEF On
    <2>5. UNCHANGED <<procs, reaper, req, minted>>
        BY <1>11 DEF Tick
    <2>6. \A x \in Sessions : On(x)' => /\ rows'[x].method = rows[x].method
                                         /\ rows'[x].passage = rows[x].passage
        BY <2>2, <2>3, <2>4
    <2>7. \A x \in procs' : x \in procs
        BY <2>5
    <2>8. reaper'.at = reaper.at /\ reaper'.id = reaper.id
        BY <2>5
    <2>9. req' = req /\ minted' = minted
        BY <2>5
    <2> QED BY <1>2, <1>1, <2>1, <2>4, <2>6, <2>7, <2>8, <2>9
<1>12. ASSUME NEW s \in Sessions, Exit(s), UNCHANGED sessionVars PROVE Safe'
    <2>1. procs' = procs \ {s} /\ UNCHANGED <<streams, reaper, rows, req, minted>>
        BY <1>12 DEF Exit, Kill, sessionVars
    <2> QED BY <1>2, <2>1 DEF Live, On
<1> QED BY <1>3, <1>4, <1>5, <1>6, <1>7, <1>8, <1>9, <1>10, <1>11, <1>12 DEF ReapLoop

LEMMA SafeStep == IInv /\ [Next]_vars => Safe'
<1> SUFFICES ASSUME IInv, [Next]_vars PROVE Safe'
    OBVIOUS
<1>1. CASE UNCHANGED vars
    BY <1>1 DEF vars, streamVars, sessionVars, IInv, Safe, IdsAreFresh, StreamsBelong,
        OwnPassageHolds, NoOrphanProcess, StreamHasOwner, On, Live, Starting, At
<1>2. ASSUME NEW th \in Threads, Continue(th) PROVE Safe'
    <2>1. ASSUME PutTranscode(th) PROVE req[th].id \in Sessions
        BY <2>1 DEF PutTranscode, At, IInv, RequestsCarry, Carries
    <2> QED BY <1>2, <2>1, QuietContinueSafe, EndingContinueSafe, StartTranscodeSafe,
               EnterSafe, PutSafe DEF Continue
<1> QED BY <1>1, <1>2, ArriveSafe, ReadSafe, BackgroundSafe DEF Next

LEMMA InitSafe == Init => Safe
    BY DEF Init, StreamInit, Safe, IdsAreFresh, StreamsBelong, OwnPassageHolds,
        NoOrphanProcess, StreamHasOwner, On, Live, Starting, At, Idle

(* The invariant the three below rest on, in every behaviour: fresh ids    *)
(* and streams that belong, with them (session.go, pipeline.go).           *)
THEOREM Inductive == Spec => []IInv
<1>1. Init => IInv
    BY InitTypes, InitSafe DEF IInv
<1>2. IInv /\ [Next]_vars => IInv'
    BY TypeStep, SafeStep DEF IInv
<1> QED BY <1>1, <1>2, PTL DEF Spec

(* A place write of a session is never on its way while the session's own  *)
(* passage is on, whatever the library, the clients and their number.      *)
THEOREM PassageHolds == Spec => []OwnPassageHolds
<1>1. IInv => OwnPassageHolds
    BY DEF IInv, Safe
<1> QED BY <1>1, Inductive, PTL

(* No ffmpeg process is ever left that nobody knows how to stop.           *)
THEOREM NoOrphan == Spec => []NoOrphanProcess
<1>1. IInv => NoOrphanProcess
    BY DEF IInv, Safe
<1> QED BY <1>1, Inductive, PTL

(* No stream outlives the row of its session, except while its play still  *)
(* waits for the playlist.                                                 *)
THEOREM StreamOwned == Spec => []StreamHasOwner
<1>1. IInv => StreamHasOwner
    BY DEF IInv, Safe
<1> QED BY <1>1, Inductive, PTL

-----------------------------------------------------------------------------
(* Which steps touch a row, and how.                                       *)
LEMMA SameRows ==
    ASSUME rows' = rows
    PROVE  \A x \in Sessions : KeepsItsItem(x)
    BY DEF KeepsItsItem

LEMMA GetKeeps ==
    ASSUME TypeOK, NEW s \in Sessions, Get(s)
    PROVE  \A x \in Sessions : KeepsItsItem(x)
<1>1. rows[s] \in Row /\ rows' = [rows EXCEPT ![s] = [rows[s] EXCEPT !.age = 0]]
    BY DEF TypeOK, Get, On, Touched
<1>2. \A x \in Sessions : /\ rows'[x].item = rows[x].item
                          /\ rows'[x].profile = rows[x].profile
                          /\ rows'[x].method = rows[x].method
                          /\ rows'[x].passage = rows[x].passage
    BY <1>1 DEF TypeOK, Row
<1> QED BY <1>2 DEF KeepsItsItem

LEMMA PutKeeps ==
    ASSUME TypeOK, NEW s \in Sessions, NEW r, NEW method, ~ On(s), Put(s, r, method)
    PROVE  \A x \in Sessions : KeepsItsItem(x)
<1>1. \A x \in Sessions : x # s => rows'[x] = rows[x]
    BY DEF Put, TypeOK
<1> QED BY <1>1 DEF KeepsItsItem

LEMMA ItemStep == IInv /\ [Next]_vars => [\A s \in Sessions : KeepsItsItem(s)]_vars
<1> SUFFICES ASSUME IInv, Next PROVE \A x \in Sessions : KeepsItsItem(x)
    BY DEF vars
<1>0. TypeOK /\ IdsAreFresh
    BY DEF IInv, Safe
<1>1. ASSUME NEW th \in Threads, Arrive(th) PROVE \A x \in Sessions : KeepsItsItem(x)
    <2>1. rows' = rows \/ \E s \in Sessions : Get(s)
        BY <1>1 DEF Arrive, Play, Next_, Progress, KeepWatching, Stop, Mark, Forget, SetProgress
    <2> QED BY <1>0, <2>1, SameRows, GetKeeps
<1>2. ASSUME NEW th \in Threads, Continue(th) PROVE \A x \in Sessions : KeepsItsItem(x)
    <2> DEFINE id == req[th].id
    <2>1. CASE Inherit(th) \/ EnterStream(th) \/ NoPlaylist(th) \/ Unwind(th) \/ Refuse(th)
               \/ SetPlace(th) \/ ClearPlace(th) \/ Remember(th) \/ StopKill(th)
               \/ \E s \in Sessions : StartTranscode(th, s)
        <3>1. rows' = rows
            BY <2>1 DEF Inherit, EnterStream, NoPlaylist, Unwind, Refuse, SetPlace, ClearPlace,
                Remember, StopKill, StartTranscode
        <3> QED BY <3>1, SameRows
    <2>2. CASE PutTranscode(th)
        <3>1. id \in Sessions /\ ~ On(id) /\ Put(id, req[th], "transcode")
            BY <1>0, <2>2 DEF PutTranscode, At, IInv, RequestsCarry, Carries, IdsAreFresh,
                Starting
        <3> QED BY <1>0, <3>1, PutKeeps
    <2>3. ASSUME NEW s \in Sessions, PutDirect(th, s)
          PROVE  \A x \in Sessions : KeepsItsItem(x)
        <3>1. ~ On(s) /\ Put(s, req[th], "direct")
            BY <1>0, <2>3 DEF PutDirect, IdsAreFresh
        <3> QED BY <1>0, <3>1, PutKeeps
    <2>4. CASE ClearPassage(th)
        <3>1. CASE On(id)
            <4>1. /\ id \in Sessions /\ rows[id] \in Row
                  /\ rows' = [rows EXCEPT ![id] = [rows[id] EXCEPT !.passage = None, !.age = 0]]
                BY <1>0, <2>4, <3>1 DEF ClearPassage, At, IInv, RequestsCarry, Carries, TypeOK, On
            <4> QED BY <1>0, <4>1 DEF KeepsItsItem, TypeOK, Row
        <3>2. CASE ~ On(id)
            BY <2>4, <3>2, SameRows DEF ClearPassage
        <3> QED BY <3>1, <3>2
    <2>5. CASE UpdateMarks(th)
        <3>1. CASE On(id)
            <4> DEFINE m == Marked(req[th])
            <4>1. /\ id \in Sessions /\ rows[id] \in Row
                  /\ rows' = [rows EXCEPT ![id] = [rows[id] EXCEPT !.marks = m, !.age = 0]]
                BY <1>0, <2>5, <3>1 DEF UpdateMarks, At, IInv, RequestsCarry, Carries, TypeOK, On
            <4> HIDE DEF m
            <4> QED BY <1>0, <4>1 DEF KeepsItsItem, TypeOK, Row
        <3>2. CASE ~ On(id)
            BY <2>5, <3>2, SameRows DEF UpdateMarks
        <3> QED BY <3>1, <3>2
    <2>6. CASE Drop(th)
        <3>1. rows' = [rows EXCEPT ![id] = None]
            BY <2>6 DEF Drop
        <3> QED BY <1>0, <3>1 DEF KeepsItsItem, TypeOK, On
    <2> QED BY <1>2, <2>1, <2>2, <2>3, <2>4, <2>5, <2>6 DEF Continue
<1>3. ASSUME NEW s \in Sessions, NEW i \in Items, NEW p \in Profiles,
             NEW in \in PassageInputs \cup {None}, Read(s, i, p, in)
      PROVE  \A x \in Sessions : KeepsItsItem(x)
    <2>1. ~ On(s) /\ \E r : Put(s, r, "read")
        BY <1>0, <1>3 DEF Read, IdsAreFresh
    <2> QED BY <1>0, <2>1, PutKeeps
<1>4. CASE \E s \in Sessions : Look(s)
    BY <1>0, <1>4, GetKeeps DEF Look
<1>5. CASE \/ \E s \in Sessions : Fetch(s) \/ Leave(s) \/ (Exit(s) /\ UNCHANGED sessionVars)
           \/ ReapLoop /\ ~ ReapRows
    <2>1. rows' = rows
        BY <1>5 DEF Fetch, Leave, ReapLoop, sessionVars
    <2> QED BY <2>1, SameRows
<1>6. CASE ReapRows
    <2>1. \A x \in Sessions : rows'[x] \in {None, rows[x]}
        BY <1>6 DEF ReapRows
    <2> QED BY <2>1 DEF KeepsItsItem, On
<1>7. CASE Tick
    <2>1. ASSUME NEW x \in Sessions, On(x)
          PROVE  /\ rows'[x].item = rows[x].item
                 /\ rows'[x].profile = rows[x].profile
                 /\ rows'[x].method = rows[x].method
                 /\ rows'[x].passage = rows[x].passage
        <3>1. rows[x] \in Row /\ rows'[x] = AgedRow(rows[x])
            BY <1>0, <1>7, <2>1 DEF Tick, TypeOK, On
        <3> QED BY <3>1 DEF AgedRow, Row
    <2> QED BY <2>1 DEF KeepsItsItem
<1> QED BY <1>1, <1>2, <1>3, <1>4, <1>5, <1>6, <1>7 DEF Next

(* The item, the profile and the method of a session never change, and a   *)
(* passage that ended never comes back: put is only ever given an id that  *)
(* no row has, and update leaves these alone.                              *)
THEOREM ItemKept == Spec => SessionsKeepTheirItem
    BY Inductive, ItemStep, PTL DEF Spec, SessionsKeepTheirItem

-----------------------------------------------------------------------------
(* The marks of a passage in the making are handed from a row to the memo, *)
(* from the memo to a request and from there to another row. What holds of *)
(* them wherever they are: they were made by this profile, in members of   *)
(* this work, and the in point comes first.                                *)
OrderOf(w) == IF w = None THEN <<>> ELSE Order[w]
MarkedBy(p, item) == {snapped(item, x) : x \in MarkInputs[p] \ {None}}
Made(m, p, w) == WorkOf(m.item) = w /\ m.seconds \in MarkedBy(p, m.item)
MarksFit(marks, p, w) ==
    /\ marks.in # None => Made(marks.in, p, w)
    /\ marks.out # None => Made(marks.out, p, w)
    /\ marks.in # None /\ marks.out # None => Rules!Before(marks.in, marks.out, OrderOf(w))

RowFits(row) == MarksFit(row.marks, row.profile, WorkOf(row.item))
(* A request that carries marks; and one about to set a mark on the row it *)
(* read, which may be gone since but is not another play's.                *)
RequestFits(r, table) ==
    /\ r.at \in {"act", "enter", "wait", "remember"} => RowFits(r)
    /\ r.at = "mark" =>
          /\ r.seconds \in MarkInputs[r.profile]
          /\ table[r.id] # None => table[r.id].item = r.item /\ table[r.id].profile = r.profile

RowsHome == \A s \in Sessions : On(s) => RowFits(rows[s])
MemoHome ==
    \A p \in Profiles, w \in Works :
        memo[<<p, w>>] # None => MarksFit(memo[<<p, w>>].marks, p, w)
RequestsHome == \A th \in Threads : RequestFits(req[th], rows)
Home == RowsHome /\ MemoHome /\ RequestsHome

-----------------------------------------------------------------------------
LEMMA NoMarksFit ==
    ASSUME NEW p, NEW w
    PROVE  MarksFit(Rules!NoMarks, p, w)
BY DEF MarksFit, Rules!NoMarks

(* The swap and the drop of setMark leave the in point before the out.     *)
LEMMA SetMarkFits ==
    ASSUME NEW cur, NEW kind \in {"in", "out"}, NEW m, NEW p, NEW w,
           MarksFit(cur, p, w), Made(m, p, w)
    PROVE  MarksFit(Rules!setMark(cur, kind, m, OrderOf(w)), p, w)
<1> DEFINE in == IF kind = "in" THEN m ELSE cur.in
           out == IF kind = "in" THEN cur.out ELSE m
           B(a, b) == Rules!Before(a, b, OrderOf(w))
<1>1. (in # None => Made(in, p, w)) /\ (out # None => Made(out, p, w))
    BY DEF MarksFit
<1>2. Rules!setMark(cur, kind, m, OrderOf(w)) =
          IF in = None \/ out = None \/ B(in, out) THEN [in |-> in, out |-> out]
          ELSE IF B(out, in) THEN [in |-> out, out |-> in]
               ELSE [in |-> in, out |-> None]
    BY DEF Rules!setMark
<1> HIDE DEF in, out
<1>3. CASE in = None \/ out = None \/ B(in, out)
    <2>1. Rules!setMark(cur, kind, m, OrderOf(w)) = [in |-> in, out |-> out]
        BY <1>2, <1>3
    <2> QED BY <1>1, <1>3, <2>1 DEF MarksFit
<1>4. CASE ~(in = None \/ out = None \/ B(in, out)) /\ B(out, in)
    <2>1. Rules!setMark(cur, kind, m, OrderOf(w)) = [in |-> out, out |-> in]
        BY <1>2, <1>4
    <2> QED BY <1>1, <1>4, <2>1 DEF MarksFit
<1>5. CASE ~(in = None \/ out = None \/ B(in, out)) /\ ~B(out, in)
    <2>1. Rules!setMark(cur, kind, m, OrderOf(w)) = [in |-> in, out |-> None]
        BY <1>2, <1>5
    <2> QED BY <1>1, <1>5, <2>1 DEF MarksFit
<1> QED BY <1>3, <1>4, <1>5

LEMMA ClearMarkFits ==
    ASSUME NEW cur \in Rules!Marks, NEW kind \in {"in", "out"}, NEW p, NEW w, MarksFit(cur, p, w)
    PROVE  MarksFit(Rules!clearMark(cur, kind), p, w)
<1> DEFINE c == Rules!clearMark(cur, kind)
<1>1. CASE kind = "in"
    <2>1. c.in = None /\ c.out = cur.out
        BY <1>1 DEF Rules!clearMark, Rules!Marks
    <2> QED BY <2>1 DEF MarksFit
<1>2. CASE kind = "out"
    <2>1. c.in = cur.in /\ c.out = None
        BY <1>2 DEF Rules!clearMark, Rules!Marks
    <2> QED BY <2>1 DEF MarksFit
<1> QED BY <1>1, <1>2

(* What a mark makes of the marks of its row.                              *)
LEMMA MarkedFits ==
    ASSUME NEW r, r.kind \in {"in", "out"}, NEW row, row = rows[r.id], row.marks \in Rules!Marks,
           RowFits(row), row.item = r.item, row.profile = r.profile,
           r.seconds \in MarkInputs[r.profile]
    PROVE  MarksFit(Marked(r), r.profile, WorkOf(r.item))
<1>0. PICK w : w = WorkOf(r.item)
    OBVIOUS
<1>1. MarksFit(row.marks, r.profile, w)
    BY <1>0 DEF RowFits
<1>2. CASE r.seconds = None
    <2>1. Marked(r) = Rules!clearMark(row.marks, r.kind)
        BY <1>2, Zenon DEF Marked
    <2> QED BY <1>0, <1>1, <2>1, ClearMarkFits
<1>3. CASE r.seconds # None
    <2> DEFINE m == [item |-> r.item, seconds |-> snapped(r.item, r.seconds)]
    <2>1. Made(m, r.profile, w)
        BY <1>0, <1>3 DEF Made, MarkedBy
    <2>2. memberOrder(r.item) = OrderOf(w)
        BY <1>0 DEF memberOrder, OrderOf
    <2>3. Marked(r) = Rules!setMark(row.marks, r.kind, m, OrderOf(w))
        BY <1>3, <2>2, Zenon DEF Marked
    <2> HIDE DEF m
    <2> QED BY <1>0, <1>1, <2>1, <2>3, SetMarkFits
<1> QED BY <1>2, <1>3

(* What a session inherits.                                                *)
LEMMA InheritedFits ==
    ASSUME MemoHome, NEW p \in Profiles, NEW item \in Items
    PROVE  MarksFit(marksInWork(p, item), p, WorkOf(item))
<1>0. PICK w : w = WorkOf(item)
    OBVIOUS
<1>1. CASE w = None
    BY <1>0, <1>1, NoMarksFit DEF marksInWork
<1>2. CASE w # None
    <2>1. w \in Works
        BY <1>0, <1>2, WorksTypes
    <2> DEFINE m == memo[<<p, w>>]
    <2>2. marksInWork(p, item) = IF m = None \/ m.age > MarkMemoTTL THEN Rules!NoMarks ELSE m.marks
        BY <1>0, <1>2, Zenon DEF marksInWork
    <2>3. m # None => MarksFit(m.marks, p, w)
        BY <2>1 DEF MemoHome
    <2> HIDE DEF m
    <2> QED BY <1>0, <2>2, <2>3, NoMarksFit
<1> QED BY <1>1, <1>2

-----------------------------------------------------------------------------
(* A row that stays is the row it was, its age and its passage aside.      *)
RowKept(x) ==
    On(x)' => /\ On(x)
              /\ rows'[x].marks = rows[x].marks
              /\ rows'[x].item = rows[x].item /\ rows'[x].profile = rows[x].profile

LEMMA RowsStayHome ==
    ASSUME RowsHome, \A x \in Sessions : RowKept(x)
    PROVE  RowsHome'
BY DEF RowsHome, RowKept, RowFits

LEMMA RequestStaysHome ==
    ASSUME RequestsCarry, RequestsHome, \A x \in Sessions : RowKept(x), NEW u \in Threads
    PROVE  RequestFits(req[u], rows')
<1>1. RequestFits(req[u], rows) /\ (req[u].at = "mark" => req[u].id \in Sessions)
    BY DEF RequestsHome, RequestsCarry, Carries
<1>2. ASSUME req[u].at = "mark", rows'[req[u].id] # None
      PROVE  rows'[req[u].id].item = req[u].item /\ rows'[req[u].id].profile = req[u].profile
    <2>1. RowKept(req[u].id)
        BY <1>1, <1>2
    <2> QED BY <1>1, <1>2, <2>1 DEF RequestFits, RowKept, On
<1> QED BY <1>1, <1>2, Zenon DEF RequestFits

LEMMA QuietHome ==
    ASSUME IInv, Home, \A x \in Sessions : RowKept(x), memo' = memo, NEW th \in Threads,
           NEW q, req' = [req EXCEPT ![th] = q], RequestFits(q, rows')
    PROVE  Home'
<1>1. TypeOK /\ RequestsCarry
    BY DEF IInv
<1>2. \A u \in Threads : req'[u] = IF u = th THEN q ELSE req[u]
    BY <1>1, OneRequest
<1>3. RequestsHome'
    BY <1>1, <1>2, RequestStaysHome DEF Home, RequestsHome
<1>4. RowsHome' /\ MemoHome'
    BY RowsStayHome DEF Home, MemoHome
<1> QED BY <1>3, <1>4 DEF Home

LEMMA NobodysHome ==
    ASSUME IInv, Home, \A x \in Sessions : RowKept(x), memo' = memo, req' = req
    PROVE  Home'
<1>1. TypeOK /\ RequestsCarry
    BY DEF IInv
<1>2. RequestsHome'
    BY <1>1, RequestStaysHome DEF Home, RequestsHome
<1>3. RowsHome' /\ MemoHome'
    BY RowsStayHome DEF Home, MemoHome
<1> QED BY <1>2, <1>3 DEF Home

LEMMA SameRowsKept ==
    ASSUME rows' = rows
    PROVE  \A x \in Sessions : RowKept(x)
BY DEF RowKept, On

LEMMA TouchedRowsKept ==
    ASSUME TypeOK, NEW s \in Sessions, Get(s)
    PROVE  \A x \in Sessions : RowKept(x)
<1>1. rows[s] \in Row /\ rows' = [rows EXCEPT ![s] = [rows[s] EXCEPT !.age = 0]] /\ On(s)
    BY DEF TypeOK, Get, On, Touched
<1>2. ASSUME NEW x \in Sessions, x # s PROVE RowKept(x)
    BY <1>1, <1>2 DEF RowKept, TypeOK, On
<1>3. RowKept(s)
    <2>1. rows'[s] = [rows[s] EXCEPT !.age = 0]
        BY <1>1 DEF TypeOK
    <2>2. /\ rows'[s].marks = rows[s].marks /\ rows'[s].item = rows[s].item
          /\ rows'[s].profile = rows[s].profile
        BY <1>1, <2>1 DEF Row
    <2> QED BY <1>1, <2>2 DEF RowKept
<1> QED BY <1>2, <1>3

LEMMA ElsewhereFits ==
    ASSUME NEW q, NEW table, q.at \notin {"act", "enter", "wait", "remember", "mark"}
    PROVE  RequestFits(q, table)
BY DEF RequestFits

LEMMA IdleFits ==
    ASSUME NEW table
    PROVE  RequestFits(Idle, table)
BY ElsewhereFits DEF Idle

(* A request that begins, a mark aside, carries none.                      *)
LEMMA ArriveHome ==
    ASSUME IInv, Home, NEW th \in Threads, Arrive(th)
    PROVE  Home'
<1>0. TypeOK /\ memo' = memo
    BY DEF IInv, Arrive, Play, Next_, Progress, KeepWatching, Stop, Mark, Forget, SetProgress
<1>1. ASSUME NEW q, req' = [req EXCEPT ![th] = q],
             q.at \notin {"act", "enter", "wait", "remember", "mark"},
             rows' = rows \/ \E s \in Sessions : Get(s)
      PROVE  Home'
    <2>1. \A x \in Sessions : RowKept(x)
        BY <1>0, <1>1, SameRowsKept, TouchedRowsKept
    <2> QED BY <1>0, <1>1, <2>1, ElsewhereFits, QuietHome
<1>2. ASSUME NEW item \in Items, NEW profile \in Profiles,
             NEW in \in PassageInputs \cup {None}, Play(th, item, profile, in)
      PROVE  Home'
    <2> DEFINE passage == IF in = None THEN None ELSE Rules!resolvePassage(in, item)
               q == [Idle EXCEPT !.at = "inherit", !.item = item,
                                 !.profile = profile, !.passage = passage]
    <2>1. q.at = "inherit" /\ req' = [req EXCEPT ![th] = q] /\ rows' = rows
        BY <1>2 DEF Idle, Play, Begin
    <2> HIDE DEF q
    <2> QED BY <1>1, <2>1
<1>3. ASSUME NEW s \in Sessions, Next_(th, s) PROVE Home'
    <2> DEFINE next == nextMember(rows[s].item)
               q == [Idle EXCEPT !.at = "inherit", !.item = next,
                        !.profile = rows[s].profile,
                        !.passage = Rules!passageForNext(rows[s].passage, next)]
    <2>1. q.at = "inherit" /\ req' = [req EXCEPT ![th] = q] /\ Get(s)
        BY <1>3 DEF Idle, Next_, Begin
    <2> HIDE DEF q
    <2> QED BY <1>1, <2>1
<1>4. ASSUME NEW s \in Sessions, Progress(th, s) PROVE Home'
    <2> DEFINE q == [Idle EXCEPT !.at = "write", !.item = rows[s].item,
                        !.profile = rows[s].profile, !.id = s,
                        !.members = <<rows[s].item>>]
    <2>1. q.at = "write" /\ req' = [req EXCEPT ![th] = q] /\ Get(s)
        BY <1>4 DEF Idle, Progress, ToWrite, Begin
    <2> HIDE DEF q
    <2> QED BY <1>1, <2>1
<1>5. ASSUME NEW s \in Sessions, KeepWatching(th, s) PROVE Home'
    <2> DEFINE q == [Idle EXCEPT !.at = "keep", !.id = s]
    <2>1. q.at = "keep" /\ req' = [req EXCEPT ![th] = q] /\ Get(s)
        BY <1>5 DEF Idle, KeepWatching, Begin
    <2> HIDE DEF q
    <2> QED BY <1>1, <2>1
<1>6. ASSUME NEW s \in Sessions, Stop(th, s) PROVE Home'
    <2> DEFINE q == [Idle EXCEPT !.at = IF Live(s) THEN "kill" ELSE "drop", !.id = s]
    <2>1. q.at \in {"kill", "drop"} /\ req' = [req EXCEPT ![th] = q] /\ rows' = rows
        BY <1>6 DEF Idle, Stop, Begin
    <2> HIDE DEF q
    <2> QED BY <1>1, <2>1
<1>7. ASSUME NEW item \in Items, NEW p \in PlaceWriters, Forget(th, item, p) PROVE Home'
    <2> DEFINE q == [Idle EXCEPT !.at = "clear", !.item = item, !.profile = p,
                        !.members = IF WorkOf(item) = None THEN <<item>>
                                    ELSE memberOrder(item)]
    <2>1. q.at = "clear" /\ req' = [req EXCEPT ![th] = q] /\ rows' = rows
        BY <1>7 DEF Idle, Forget, Begin
    <2> HIDE DEF q
    <2> QED BY <1>1, <2>1
<1>8. ASSUME NEW item \in Items, NEW p \in PlaceWriters, NEW stage \in {"write", "clear"},
             SetProgress(th, item, p, stage)
      PROVE  Home'
    <2> DEFINE q == [Idle EXCEPT !.at = stage, !.item = item, !.profile = p,
                        !.id = None, !.members = <<item>>]
    <2>1. q.at = stage /\ req' = [req EXCEPT ![th] = q] /\ rows' = rows
        BY <1>8 DEF Idle, SetProgress, ToWrite, Begin
    <2> HIDE DEF q
    <2> QED BY <1>1, <2>1
<1>9. ASSUME NEW s \in Sessions, NEW kind \in {"in", "out"},
             NEW sec \in MarkInputs[rows[s].profile], Mark(th, s, kind, sec)
      PROVE  Home'
    <2> DEFINE q == [Idle EXCEPT !.at = "mark", !.id = s, !.item = rows[s].item,
                        !.profile = rows[s].profile, !.kind = kind, !.seconds = sec]
    <2>1. /\ q.at = "mark" /\ q.id = s /\ q.item = rows[s].item
          /\ q.profile = rows[s].profile /\ q.seconds = sec
        BY DEF Idle
    <2>2. req' = [req EXCEPT ![th] = q] /\ Get(s)
        BY <1>9 DEF Mark, Begin
    <2> HIDE DEF q
    <2>3. \A x \in Sessions : RowKept(x)
        BY <1>0, <2>2, TouchedRowsKept
    <2>4. RequestFits(q, rows')
        <3>1. rows'[s] # None => rows'[s].item = rows[s].item /\ rows'[s].profile = rows[s].profile
            BY <2>3 DEF RowKept, On
        <3> QED BY <2>1, <3>1 DEF RequestFits
    <2> QED BY <1>0, <2>2, <2>3, <2>4, QuietHome
<1> QED BY <1>2, <1>3, <1>4, <1>5, <1>6, <1>7, <1>8, <1>9 DEF Arrive

-----------------------------------------------------------------------------
(* A row that is put stands in nobody's way.                               *)
LEMMA PutHome ==
    ASSUME IInv, Home, NEW s \in Sessions, ~On(s), NEW r, NEW method, RowFits(r), Put(s, r, method),
           \A u \in Threads : req[u].at = "mark" => req[u].id # s,
           memo' = memo, req' = req \/ \E th \in Threads : req' = [req EXCEPT ![th] = Idle]
    PROVE  Home'
<1>0. TypeOK /\ RequestsCarry /\ rows \in [Sessions -> Row \cup {None}]
    BY DEF IInv, TypeOK
<1> DEFINE row == [item |-> r.item, profile |-> r.profile, method |-> method,
                   passage |-> r.passage, marks |-> r.marks, age |-> 0]
<1>1. rows' = [rows EXCEPT ![s] = row]
    BY DEF Put
<1>2. RowFits(row)
    BY DEF RowFits
<1> HIDE DEF row
<1>3. \A x \in Sessions : rows'[x] = IF x = s THEN row ELSE rows[x]
    BY <1>0, <1>1
<1>4. RowsHome'
    BY <1>2, <1>3 DEF Home, RowsHome, On
<1>5. ASSUME NEW u \in Threads PROVE RequestFits(req[u], rows')
    <2>1. RequestFits(req[u], rows) /\ (req[u].at = "mark" => req[u].id \in Sessions /\ req[u].id # s)
        BY <1>0 DEF Home, RequestsHome, RequestsCarry, Carries
    <2>2. req[u].at = "mark" => rows'[req[u].id] = rows[req[u].id]
        BY <1>3, <2>1
    <2> QED BY <2>1, <2>2, Zenon DEF RequestFits
<1>6. RequestsHome'
    <2>1. CASE req' = req
        BY <1>5, <2>1 DEF RequestsHome
    <2>2. ASSUME NEW th \in Threads, req' = [req EXCEPT ![th] = Idle] PROVE RequestsHome'
        <3>1. \A u \in Threads : req'[u] = IF u = th THEN Idle ELSE req[u]
            BY <1>0, <2>2, OneRequest
        <3> QED BY <1>5, <3>1, IdleFits DEF RequestsHome
    <2> QED BY <2>1, <2>2
<1>7. MemoHome'
    BY DEF Home, MemoHome
<1> QED BY <1>4, <1>6, <1>7 DEF Home

(* Whose id is nobody's, has neither a row nor a request.                  *)
LEMMA FreshIsNobodys ==
    ASSUME IInv, NEW s \in Sessions, s \notin minted
    PROVE  ~On(s) /\ \A u \in Threads : req[u].id # s
<1>1. s # None
    BY NoneAssumption
<1> QED BY <1>1 DEF IInv, Safe, IdsAreFresh

LEMMA StartingHome ==
    ASSUME IInv, Home, NEW th \in Threads,
           \/ Inherit(th) \/ EnterStream(th) \/ PutTranscode(th)
           \/ \E s \in Sessions : PutDirect(th, s) \/ StartTranscode(th, s)
    PROVE  Home'
<1> DEFINE r == req[th]
<1>0. TypeOK /\ r \in Request /\ Carries(r) /\ RequestFits(r, rows)
    BY DEF IInv, TypeOK, RequestsCarry, Home, RequestsHome
<1>1. CASE Inherit(th)
    <2> DEFINE m == marksInWork(r.profile, r.item)
               q == [r EXCEPT !.at = "act", !.marks = m]
    <2>1. r.item \in Items /\ r.profile \in Profiles
        BY <1>0, <1>1 DEF Inherit, At, Carries
    <2>2. m \in Rules!Marks /\ MarksFit(m, r.profile, WorkOf(r.item))
        BY <1>0, <2>1, InheritTypes, InheritedFits DEF Home, TypeOK
    <2>3. req' = [req EXCEPT ![th] = q] /\ rows' = rows /\ memo' = memo
        BY <1>1 DEF Inherit
    <2>4. q.at = "act" /\ q.item = r.item /\ q.profile = r.profile /\ q.marks = m
        <3> HIDE DEF m, r
        <3> QED BY <1>0, <2>2 DEF Request
    <2> HIDE DEF q, m, r
    <2>5. RequestFits(q, rows')
        BY <2>2, <2>4 DEF RequestFits, RowFits
    <2> QED BY <2>3, <2>5, SameRowsKept, QuietHome
<1>2. CASE EnterStream(th)
    <2> DEFINE q == [r EXCEPT !.at = "wait"]
    <2>1. req' = [req EXCEPT ![th] = q] /\ rows' = rows /\ memo' = memo /\ r.at = "enter"
        BY <1>2 DEF EnterStream, Goto, At
    <2>2. q.at = "wait" /\ q.item = r.item /\ q.profile = r.profile /\ q.marks = r.marks
        BY <1>0 DEF Request
    <2> HIDE DEF q, r
    <2>3. RequestFits(q, rows')
        BY <1>0, <2>1, <2>2 DEF RequestFits, RowFits
    <2> QED BY <2>1, <2>3, SameRowsKept, QuietHome
<1>3. ASSUME NEW s \in Sessions, StartTranscode(th, s) PROVE Home'
    <2> DEFINE q == [r EXCEPT !.at = "enter", !.id = s]
    <2>0. req' = [req EXCEPT ![th] = q]
        BY <1>3 DEF StartTranscode
    <2>1. req' = [req EXCEPT ![th] = q] /\ rows' = rows /\ memo' = memo /\ r.at = "act"
        <3> HIDE DEF q
        <3> QED BY <1>3, <2>0 DEF StartTranscode, At
    <2>2. q.at = "enter" /\ q.item = r.item /\ q.profile = r.profile /\ q.marks = r.marks
        BY <1>0 DEF Request
    <2> HIDE DEF q, r
    <2>3. RequestFits(q, rows')
        BY <1>0, <2>1, <2>2 DEF RequestFits, RowFits
    <2> QED BY <2>1, <2>3, SameRowsKept, QuietHome
<1>4. CASE PutTranscode(th)
    <2>1. /\ r.at = "wait" /\ r.id \in Sessions /\ Put(r.id, r, "transcode") /\ memo' = memo
          /\ req' = [req EXCEPT ![th] = Idle]
        BY <1>0, <1>4 DEF PutTranscode, At, Carries, Answer
    <2>2. ~On(r.id) /\ \A u \in Threads \ {th} : req[u].id # r.id
        BY <2>1 DEF IInv, Safe, IdsAreFresh, Starting
    <2>3. RowFits(r)
        BY <1>0, <2>1 DEF RequestFits
    <2>4. \A u \in Threads : req[u].at = "mark" => req[u].id # r.id
        BY <2>1, <2>2
    <2> HIDE DEF r
    <2> QED BY <2>1, <2>2, <2>3, <2>4, PutHome
<1>5. ASSUME NEW s \in Sessions, PutDirect(th, s) PROVE Home'
    <2>1. /\ r.at = "act" /\ s \notin minted /\ Put(s, r, "direct") /\ memo' = memo
          /\ req' = [req EXCEPT ![th] = Idle]
        BY <1>5 DEF PutDirect, At, Answer
    <2>2. RowFits(r)
        BY <1>0, <2>1 DEF RequestFits
    <2>3. ~On(s) /\ \A u \in Threads : req[u].id # s
        BY <2>1, FreshIsNobodys
    <2> HIDE DEF r
    <2> QED BY <2>1, <2>2, <2>3, PutHome
<1> QED BY <1>1, <1>2, <1>3, <1>4, <1>5

-----------------------------------------------------------------------------
(* Marks are set, remembered and forgotten.                                *)
LEMMA UpdateMarksHome ==
    ASSUME IInv, Home, NEW th \in Threads, UpdateMarks(th)
    PROVE  Home'
<1> DEFINE r == req[th]
<1>0. /\ TypeOK /\ r \in Request /\ Carries(r) /\ RequestFits(r, rows) /\ r.at = "mark"
      /\ memo' = memo
    BY DEF IInv, TypeOK, RequestsCarry, Home, RequestsHome, UpdateMarks, At
<1>1. /\ r.id \in Sessions /\ r.kind \in {"in", "out"} /\ r.seconds \in MarkInputs[r.profile]
    BY <1>0 DEF Carries, Request, RequestFits
<1>2. CASE ~On(r.id)
    <2>1. rows' = rows /\ req' = [req EXCEPT ![th] = Idle]
        BY <1>2 DEF UpdateMarks, Answer
    <2> QED BY <1>0, <2>1, IdleFits, SameRowsKept, QuietHome
<1>3. CASE On(r.id)
    <2> DEFINE m == Marked(r)
               row == rows[r.id]
               new == [row EXCEPT !.marks = m, !.age = 0]
               q == [r EXCEPT !.at = "remember", !.marks = m]
    <2>1. rows' = [rows EXCEPT ![r.id] = new] /\ req' = [req EXCEPT ![th] = q]
        BY <1>3 DEF UpdateMarks
    <2>2. row \in Row /\ row.marks \in Rules!Marks
        BY <1>0, <1>1, <1>3 DEF TypeOK, On, Row
    <2>3. row.item = r.item /\ row.profile = r.profile /\ RowFits(row)
        BY <1>0, <1>1, <1>3 DEF RequestFits, Home, RowsHome, On
    <2>4. MarksFit(m, r.profile, WorkOf(r.item))
        <3> HIDE DEF r
        <3>1. row = rows[r.id]
            OBVIOUS
        <3> HIDE DEF row
        <3> QED BY <1>1, <2>2, <2>3, <3>1, MarkedFits
    <2>5. q.at = "remember" /\ q.item = r.item /\ q.profile = r.profile /\ q.marks = m
        <3> HIDE DEF m, r
        <3> QED BY <1>0 DEF Request
    <2>6. new.marks = m /\ new.item = row.item /\ new.profile = row.profile
        <3> HIDE DEF m, row
        <3> QED BY <2>2 DEF Row
    <2> HIDE DEF new, q, m, row, r
    <2>7. RowFits(new) /\ RowFits(q)
        BY <2>3, <2>4, <2>5, <2>6 DEF RowFits
    <2>8. \A x \in Sessions : rows'[x] = IF x = r.id THEN new ELSE rows[x]
        BY <1>0, <2>1 DEF TypeOK
    <2>9. RowsHome'
        BY <2>7, <2>8 DEF Home, RowsHome, On
    <2>10. \A u \in Threads : req'[u] = IF u = th THEN q ELSE req[u]
        BY <1>0, <2>1, OneRequest
    <2>11. ASSUME NEW u \in Threads PROVE RequestFits(req'[u], rows')
        <3>1. CASE u = th
            BY <2>5, <2>7, <2>10, <3>1 DEF RequestFits
        <3>2. CASE u # th
            <4>1. req'[u] = req[u] /\ RequestFits(req[u], rows)
                BY <2>10, <3>2 DEF Home, RequestsHome
            <4>2. req[u].at = "mark" => req[u].id \in Sessions
                BY DEF IInv, RequestsCarry, Carries
            <4>3. row = rows[r.id] /\ row # None
                BY <1>3 DEF row, On
            <4>4. req[u].at = "mark" /\ rows'[req[u].id] # None =>
                    /\ rows[req[u].id] # None
                    /\ rows'[req[u].id].item = rows[req[u].id].item
                    /\ rows'[req[u].id].profile = rows[req[u].id].profile
                BY <2>6, <2>8, <4>2, <4>3
            <4> QED BY <4>1, <4>4, Zenon DEF RequestFits
        <3> QED BY <3>1, <3>2
    <2>12. RequestsHome' /\ MemoHome'
        BY <1>0, <2>11 DEF RequestsHome, Home, MemoHome
    <2> QED BY <2>9, <2>12 DEF Home
<1> QED BY <1>2, <1>3

LEMMA RememberHome ==
    ASSUME IInv, Home, NEW th \in Threads, Remember(th)
    PROVE  Home'
<1> DEFINE r == req[th]
<1>0. /\ TypeOK /\ RowFits(r) /\ rows' = rows /\ memo' = Remembered(r, r.marks)
      /\ req' = [req EXCEPT ![th] = Idle]
    BY DEF IInv, TypeOK, Home, RequestsHome, RequestFits, Remember, At, Answer
<1> HIDE DEF r
<1>1. RowsHome' /\ RequestsHome'
    <2>1. \A u \in Threads : req'[u] = IF u = th THEN Idle ELSE req[u]
        BY <1>0, OneRequest
    <2> QED BY <1>0, <2>1, IdleFits DEF Home, RowsHome, RequestsHome, On
<1>2. ASSUME NEW p \in Profiles, NEW w \in Works, memo'[<<p, w>>] # None
      PROVE  MarksFit(memo'[<<p, w>>].marks, p, w)
    <2>0. memo[<<p, w>>] # None => MarksFit(memo[<<p, w>>].marks, p, w)
        BY DEF Home, MemoHome
    <2>1. CASE memo'[<<p, w>>] = memo[<<p, w>>]
        BY <1>2, <2>0, <2>1
    <2>2. CASE memo'[<<p, w>>] # memo[<<p, w>>]
        <3> DEFINE k == <<r.profile, WorkOf(r.item)>>
                   v == IF r.marks = Rules!NoMarks THEN None ELSE [marks |-> r.marks, age |-> 0]
        <3>1. memo' = [memo EXCEPT ![k] = v]
            BY <1>0, <2>2 DEF Remembered
        <3> HIDE DEF k, v
        <3>2. k = <<p, w>> /\ memo'[<<p, w>>] = v
            BY <1>0, <2>2, <3>1 DEF TypeOK
        <3>3. r.profile = p /\ WorkOf(r.item) = w
            BY <3>2 DEF k
        <3>4. memo'[<<p, w>>].marks = r.marks
            BY <1>2, <3>2 DEF v
        <3> QED BY <1>0, <3>3, <3>4 DEF RowFits
    <2> QED BY <2>1, <2>2
<1>3. MemoHome'
    BY <1>2 DEF MemoHome
<1> QED BY <1>1, <1>3 DEF Home

LEMMA DropHome ==
    ASSUME IInv, Home, NEW th \in Threads, Drop(th)
    PROVE  Home'
<1> DEFINE r == req[th]
           row == rows[r.id]
<1>0. /\ TypeOK /\ r \in Request /\ r.id \in Sessions /\ memo' = memo
      /\ rows' = [rows EXCEPT ![r.id] = None]
    BY DEF IInv, TypeOK, RequestsCarry, Carries, Drop, At
<1>1. \A x \in Sessions : RowKept(x)
    <2> HIDE DEF r
    <2> QED BY <1>0 DEF RowKept, TypeOK, On
<1>2. CASE row = None
    <2>1. req' = [req EXCEPT ![th] = Idle]
        BY <1>2 DEF Drop, Answer
    <2> QED BY <1>0, <1>1, <2>1, IdleFits, QuietHome
<1>3. CASE row # None
    <2> DEFINE q == [r EXCEPT !.at = "remember", !.item = row.item,
                              !.profile = row.profile, !.marks = row.marks]
    <2>1. req' = [req EXCEPT ![th] = q]
        BY <1>3 DEF Drop
    <2>2. RowFits(row)
        BY <1>0, <1>3 DEF Home, RowsHome, On
    <2>3. /\ q.at = "remember" /\ q.item = row.item /\ q.profile = row.profile
          /\ q.marks = row.marks
        <3> HIDE DEF row, r
        <3> QED BY <1>0 DEF Request
    <2> HIDE DEF q, row, r
    <2>4. RequestFits(q, rows')
        BY <2>2, <2>3 DEF RequestFits, RowFits
    <2> QED BY <1>0, <1>1, <2>1, <2>4, QuietHome
<1> QED BY <1>2, <1>3

LEMMA EndingHome ==
    ASSUME IInv, Home, NEW th \in Threads,
           \/ NoPlaylist(th) \/ Unwind(th) \/ Refuse(th) \/ SetPlace(th) \/ ClearPlace(th)
           \/ ClearPassage(th) \/ StopKill(th)
    PROVE  Home'
<1> DEFINE r == req[th]
<1>0. TypeOK /\ r \in Request /\ Carries(r) /\ memo' = memo
    BY DEF IInv, TypeOK, RequestsCarry, NoPlaylist, Unwind, Refuse, SetPlace, ClearPlace,
           ClearPassage, StopKill
<1>1. ASSUME Answer(th), \A x \in Sessions : RowKept(x) PROVE Home'
    BY <1>0, <1>1, IdleFits, QuietHome DEF Answer
<1>2. ASSUME NEW stage \in {"unwind", "drop"}, Goto(th, stage), rows' = rows PROVE Home'
    <2> DEFINE q == [r EXCEPT !.at = stage]
    <2>1. req' = [req EXCEPT ![th] = q]
        BY <1>2 DEF Goto
    <2>2. q.at = stage
        BY <1>0 DEF Request
    <2> HIDE DEF q
    <2>3. RequestFits(q, rows')
        BY <2>2, ElsewhereFits
    <2> QED BY <1>0, <1>2, <2>1, <2>3, SameRowsKept, QuietHome
<1>3. CASE NoPlaylist(th)
    BY <1>2, <1>3 DEF NoPlaylist
<1>4. CASE StopKill(th)
    BY <1>2, <1>4 DEF StopKill
<1>5. CASE Unwind(th) \/ Refuse(th) \/ SetPlace(th)
    BY <1>1, <1>5, SameRowsKept DEF Unwind, Refuse, SetPlace
<1>6. CASE ClearPlace(th)
    <2>1. rows' = rows /\ r.at = "clear"
        BY <1>6 DEF ClearPlace, At
    <2>2. CASE Len(r.members) = 1
        BY <1>1, <1>6, <2>1, <2>2, SameRowsKept DEF ClearPlace
    <2>3. CASE Len(r.members) # 1
        <3> DEFINE q == [r EXCEPT !.members = Tail(r.members)]
        <3>1. req' = [req EXCEPT ![th] = q]
            BY <1>6, <2>3 DEF ClearPlace
        <3>2. q.at = "clear"
            BY <1>0, <2>1 DEF Request
        <3> HIDE DEF q
        <3>3. RequestFits(q, rows')
            BY <3>2, ElsewhereFits
        <3> QED BY <1>0, <2>1, <3>1, <3>3, SameRowsKept, QuietHome
    <2> QED BY <2>2, <2>3
<1>7. CASE ClearPassage(th)
    <2>1. \A x \in Sessions : RowKept(x)
        <3>1. CASE On(r.id)
            <4>1. /\ r.id \in Sessions /\ rows[r.id] \in Row
                  /\ rows' = [rows EXCEPT ![r.id] = [rows[r.id] EXCEPT !.passage = None, !.age = 0]]
                BY <1>0, <1>7, <3>1 DEF ClearPassage, At, Carries, TypeOK, On
            <4> HIDE DEF r
            <4> QED BY <1>0, <3>1, <4>1 DEF RowKept, TypeOK, Row, On
        <3>2. CASE ~On(r.id)
            BY <1>7, <3>2, SameRowsKept DEF ClearPassage
        <3> QED BY <3>1, <3>2
    <2> QED BY <1>1, <1>7, <2>1 DEF ClearPassage
<1> QED BY <1>3, <1>4, <1>5, <1>6, <1>7

LEMMA ContinueHome ==
    ASSUME IInv, Home, NEW th \in Threads, Continue(th)
    PROVE  Home'
BY StartingHome, UpdateMarksHome, RememberHome, DropHome, EndingHome DEF Continue

-----------------------------------------------------------------------------
(* The reaper, the clock and what takes no thread.                         *)
LEMMA TickHome ==
    ASSUME IInv, Home, Tick
    PROVE  Home'
<1>0. TypeOK /\ req' = req
    BY DEF IInv, Tick
<1>1. \A x \in Sessions : RowKept(x)
    <2>1. ASSUME NEW x \in Sessions, On(x)
          PROVE  /\ rows'[x].item = rows[x].item /\ rows'[x].profile = rows[x].profile
                 /\ rows'[x].marks = rows[x].marks
        <3>1. rows[x] \in Row /\ rows'[x] = AgedRow(rows[x])
            BY <1>0, <2>1 DEF Tick, TypeOK, On
        <3> QED BY <3>1 DEF AgedRow, Row
    <2>2. \A x \in Sessions : On(x)' => On(x)
        BY DEF Tick, On
    <2> QED BY <2>1, <2>2 DEF RowKept
<1>2. RowsHome' /\ RequestsHome'
    BY <1>0, <1>1, RowsStayHome, RequestStaysHome DEF Home, RequestsHome, IInv
<1>3. ASSUME NEW p \in Profiles, NEW w \in Works, memo'[<<p, w>>] # None
      PROVE  MarksFit(memo'[<<p, w>>].marks, p, w)
    <2> DEFINE k == <<p, w>>
    <2>1. memo[k] \in Memo \cup {None} /\ k \in DOMAIN memo
        BY <1>0 DEF TypeOK
    <2>2. memo'[k] = IF memo[k] = None THEN None
                     ELSE [memo[k] EXCEPT !.age = Aged(@, MarkMemoTTL)]
        BY <2>1 DEF Tick
    <2>3. memo[k] # None => MarksFit(memo[k].marks, p, w)
        BY DEF Home, MemoHome
    <2>4. memo'[k] # None
        BY <1>3
    <2> HIDE DEF k
    <2>5. memo'[k].marks = memo[k].marks /\ memo[k] # None
        BY <2>1, <2>2, <2>4 DEF Memo
    <2>6. MarksFit(memo'[k].marks, p, w)
        BY <2>3, <2>5
    <2> QED BY <2>6 DEF k
<1>4. MemoHome'
    BY <1>3 DEF MemoHome
<1> QED BY <1>2, <1>4 DEF Home

LEMMA BackgroundHome ==
    ASSUME IInv, Home,
           \/ \E s \in Sessions, i \in Items, p \in Profiles,
                 in \in PassageInputs \cup {None} : Read(s, i, p, in)
           \/ \E s \in Sessions : Look(s) \/ Fetch(s) \/ Leave(s)
                                  \/ (Exit(s) /\ UNCHANGED sessionVars)
           \/ ReapLoop
    PROVE  Home'
<1>0. TypeOK
    BY DEF IInv
<1>1. ASSUME NEW s \in Sessions, NEW i \in Items, NEW p \in Profiles,
             NEW in \in PassageInputs \cup {None}, Read(s, i, p, in)
      PROVE  Home'
    <2> DEFINE r == [item |-> i, profile |-> p, marks |-> Rules!NoMarks,
                     passage |-> IF in = None THEN None
                                 ELSE Rules!textPassage(Rules!resolvePassage(in, i))]
    <2>1. Put(s, r, "read") /\ s \notin minted /\ memo' = memo /\ req' = req
        BY <1>1 DEF Read
    <2>2. RowFits(r)
        BY NoMarksFit DEF RowFits
    <2>3. ~On(s) /\ \A u \in Threads : req[u].id # s
        BY <2>1, FreshIsNobodys
    <2> HIDE DEF r
    <2> QED BY <2>1, <2>2, <2>3, PutHome
<1>2. ASSUME NEW s \in Sessions, Look(s) PROVE Home'
    BY <1>0, <1>2, TouchedRowsKept, NobodysHome DEF Look
<1>3. CASE \/ \E s \in Sessions : Fetch(s) \/ Leave(s) \/ (Exit(s) /\ UNCHANGED sessionVars)
           \/ ReapLoop /\ ~ReapRows
    <2>1. rows' = rows /\ memo' = memo /\ req' = req
        BY <1>3 DEF Fetch, Leave, ReapLoop, sessionVars
    <2> QED BY <2>1, SameRowsKept, NobodysHome
<1>4. CASE ReapRows
    <2>1. \A x \in Sessions : rows'[x] \in {None, rows[x]}
        BY <1>4 DEF ReapRows
    <2>2. \A x \in Sessions : RowKept(x)
        BY <2>1 DEF RowKept, On
    <2>3. memo' = memo /\ req' = req
        BY <1>4 DEF ReapRows
    <2> QED BY <2>2, <2>3, NobodysHome
<1> QED BY <1>1, <1>2, <1>3, <1>4

LEMMA HomeStep == IInv /\ Home /\ [Next]_vars => Home'
<1> SUFFICES ASSUME IInv, Home, [Next]_vars PROVE Home'
    OBVIOUS
<1>1. CASE UNCHANGED vars
    <2>1. rows' = rows /\ memo' = memo /\ req' = req
        BY <1>1 DEF vars, sessionVars
    <2> QED BY <2>1, SameRowsKept, NobodysHome
<1>2. ASSUME NEW th \in Threads, Arrive(th) \/ Continue(th) PROVE Home'
    BY <1>2, ArriveHome, ContinueHome
<1>3. CASE Tick
    BY <1>3, TickHome
<1> QED BY <1>1, <1>2, <1>3, BackgroundHome DEF Next

LEMMA InitHome == Init => Home
BY IdleFits DEF Init, Home, RowsHome, MemoHome, RequestsHome, On

(* Rows, memo and every request in flight hold only marks of their own     *)
(* profile and work, in order: what the two theorems below follow from.    *)
THEOREM MarksInductive == Spec => [](IInv /\ Home)
<1>1. Init => Home
    BY InitHome
<1>2. IInv /\ Home /\ [Next]_vars => Home'
    BY HomeStep
<1> QED BY <1>1, <1>2, Inductive, PTL DEF Spec

-----------------------------------------------------------------------------
(* A mark stays with the profile that made it and within the work it was   *)
(* made in, at a second that profile's client posted, snapped to a chapter *)
(* of that very file: through every hand-over from session to memo and     *)
(* back (memoKey, marksInWork, remember), for any number of requests.      *)
THEOREM MarksStay == Spec => []MarksStayHome
<1>1. Home => MarksStayHome
    <2> SUFFICES ASSUME Home, NEW s \in Sessions, On(s),
                        NEW m \in {rows[s].marks.in, rows[s].marks.out} \ {None}
                 PROVE  /\ m.seconds \in {snapped(m.item, x) : x \in MarkInputs[rows[s].profile] \ {None}}
                        /\ WorkOf(m.item) = WorkOf(rows[s].item)
        BY DEF MarksStayHome
    <2>1. MarksFit(rows[s].marks, rows[s].profile, WorkOf(rows[s].item))
        BY DEF Home, RowsHome, RowFits
    <2>2. Made(m, rows[s].profile, WorkOf(rows[s].item))
        BY <2>1 DEF MarksFit
    <2> QED BY <2>2 DEF Made, MarkedBy
<1> QED BY <1>1, MarksInductive, PTL

(* Two marks in one file mint a passage that its own link keeps whole.     *)
LEMMA MintedWhole ==
    ASSUME NEW m \in Rules!Marks, NEW order \in Seq(Items), m.in # None, m.out # None,
           Rules!Before(m.in, m.out, order), m.in.item = m.out.item
    PROVE  LET p == Rules!markedPassage(m) IN Rules!resolvePassage(p, m.in.item) = p
<1> DEFINE t == m.in.seconds
           end == m.out.seconds
           p == [t |-> t, end |-> end, until |-> None, from |-> None, to |-> None,
                 endsAt |-> end]
<1>1. t \in Nat /\ end \in Nat
    BY DEF Rules!Marks, Rules!Mark, Rules!Optional
<1>2. t < end
    <2>1. Rules!placeIn(order, m.in.item) = Rules!placeIn(order, m.out.item)
        BY Zenon
    <2> DEFINE a == Rules!placeIn(order, m.in.item)
    <2>2. a < a \/ t < end
        BY <2>1 DEF Rules!Before
    <2>3. a \in Nat
        BY PlaceIsANumber
    <2> HIDE DEF a
    <2> QED BY <2>2, <2>3
<1>3. Rules!markedPassage(m) = p
    BY DEF Rules!markedPassage, Rules!endsAt
<1>4. t # None /\ end # None
    BY <1>1, NoneAssumption
<1> HIDE DEF t, end
<1>5. Rules!Parse(p) = [t |-> t, end |-> end, until |-> None, from |-> None, to |-> None]
    BY <1>1, <1>2, <1>4 DEF Rules!Parse, Rules!NonNegative
<1>6. Rules!Parse(p) # None
    <2>1. Rules!Parse(p) \in Rules!PassageInput
        BY <1>1, <1>5 DEF Rules!PassageInput, Rules!Optional
    <2> QED BY <2>1, NoneAssumption
<1>7. Rules!resolvePassage(p, m.in.item) = p
    BY <1>5, <1>6 DEF Rules!resolvePassage, Rules!endsAt
<1> QED BY <1>3, <1>7

(* The in point of a session's marks lies before the out point in the      *)
(* order of its work, wherever the two were set and however they were      *)
(* inherited, and two marks in one file mint a passage that survives the   *)
(* grammar of its own link (setMark, markedPassage, resolvePassage).       *)
THEOREM MarksMint == Spec => []MarksMintAWholePassage
<1>1. IInv /\ Home => MarksMintAWholePassage
    <2> SUFFICES ASSUME IInv, Home, NEW s \in Sessions, On(s),
                        rows[s].marks.in # None, rows[s].marks.out # None
                 PROVE  LET m == rows[s].marks
                            p == Rules!markedPassage(m)
                        IN  /\ Rules!Before(m.in, m.out, memberOrder(rows[s].item))
                            /\ m.in.item = m.out.item => Rules!resolvePassage(p, m.in.item) = p
        BY DEF MarksMintAWholePassage
    <2> DEFINE m == rows[s].marks
    <2>1. m \in Rules!Marks
        BY DEF IInv, TypeOK, On, Row
    <2>2. MarksFit(m, rows[s].profile, WorkOf(rows[s].item))
        BY DEF Home, RowsHome, RowFits
    <2>3. Rules!Before(m.in, m.out, OrderOf(WorkOf(rows[s].item)))
        BY <2>2 DEF MarksFit
    <2>4. memberOrder(rows[s].item) = OrderOf(WorkOf(rows[s].item))
        BY DEF memberOrder, OrderOf
    <2>5. Rules!Before(m.in, m.out, memberOrder(rows[s].item))
        BY <2>3, <2>4
    <2>6. memberOrder(rows[s].item) \in Seq(Items)
        BY WorksTypes DEF IInv, TypeOK, On, Row
    <2>7. ASSUME m.in.item = m.out.item
          PROVE  LET p == Rules!markedPassage(m) IN Rules!resolvePassage(p, m.in.item) = p
        BY <2>1, <2>5, <2>6, <2>7, MintedWhole
    <2> QED BY <2>5, <2>7
<1> QED BY <1>1, MarksInductive, PTL
=============================================================================
