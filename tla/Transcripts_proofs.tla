------------------------- MODULE Transcripts_proofs -------------------------
(***************************************************************************)
(* What holds of transcription for any number of files and workers, any    *)
(* length of the queue's answers and however much happens: the types, and  *)
(* that a transcript on record is a track that can be served.              *)
(***************************************************************************)
EXTENDS Transcripts, FiniteSetTheorems, WellFoundedInduction, SequenceTheorems, TLAPS

(* What TypeOK tells in part, whole. Contents run up to n.                 *)
Flag == BOOLEAN
RowType(n) == [etag : 1 .. n, captioned : Flag, born : 1 .. n]
RowsType(n) == [Ids -> RowType(n) \cup {None}]
AskType(n) ==
    [at : {"idle", "items", "walking", "signing"}, items : RowsType(n) \cup {<<>>},
     todo : SUBSET Ids, list : Seq(Entry)]
WorkType(n) ==
    [at : {"idle", "asking", "hearing", "posting", "waiting"}, list : Seq(Entry), text : 0 .. n]
JobType(n) ==
    [at : {"idle", "body", "row", "cues", "drop"}, id : Nat, etag : 0 .. n, text : 0 .. n]
Silent(n) == [id : Ids, etag : 1 .. n]
StageType(n) ==
    [at : {"idle", "rows", "hearing", "text", "row", "cues"}, rows : RowsType(n) \cup {<<>>},
     todo : SUBSET Silent(n), text : 0 .. n]

(* A read of the queue walks over rows that are there, and hands out no    *)
(* more than the limit.                                                    *)
AskFits(a, n) ==
    /\ Len(a.list) <= Limit
    /\ a.at # "idle" => a.items \in RowsType(n)
    /\ a.at \in {"walking", "signing"} => \A i \in a.todo : a.items[i] # None
    /\ a.at = "signing" => a.todo # {} /\ Len(a.list) < Limit
(* A worker at work has an entry before it, and posts a text.              *)
WorkFits(k) ==
    /\ k.at \notin {"idle", "asking"} <=> k.list # <<>>
    /\ k.at = "posting" => k.text # 0
(* A delivery brings a text, and its row follows the text on disk: these   *)
(* two, and their like in the stage of this box, carry RowsAreServable.    *)
JobFits(d, disk) ==
    /\ d.at # "idle" => d.id \in Ids
    /\ d.at = "body" => d.text # 0
    /\ d.at = "row" => disk[d.id] # 0
First(todo) == CHOOSE e \in todo : \A f \in todo : e.id <= f.id
StageFits(l, n, disk) ==
    /\ l.at \notin {"idle", "rows"} => l.todo # {}
    /\ l.at = "rows" => l.rows \in RowsType(n)
    /\ l.at = "text" => l.text # 0
    /\ l.at = "row" => disk[First(l.todo).id] # 0

BucketOK == written \in Nat /\ file \in [Ids -> 0 .. written]
RowsOK == row \in RowsType(written)
HeardOK ==
    /\ transcripts \in [Ids -> 0 .. written \cup {None}]
    /\ cues \in [Ids -> 0 .. written] /\ vtt \in [Ids -> 0 .. written]
CountsOK == leased \subseteq Ids /\ crossed \subseteq Ids /\ events \in 0 .. MaxEvents
AsksOK == asked \in [Workers -> AskType(written)] /\ \A w \in Workers : AskFits(asked[w], written)
WorkOK == worker \in [Workers -> WorkType(written)] /\ \A w \in Workers : WorkFits(worker[w])
JobsOK == delivery \in [Workers -> JobType(written)] /\ \A w \in Workers : JobFits(delivery[w], vtt)
StageOK == local \in StageType(written) /\ StageFits(local, written, vtt)

IInv ==
    /\ BucketOK /\ RowsOK /\ HeardOK /\ CountsOK
    /\ AsksOK /\ WorkOK /\ JobsOK /\ StageOK
    /\ RowsAreServable
-----------------------------------------------------------------------------
(* A nonempty set of numbers has a least.                                  *)
LEMMA ThereIsALeast ==
    ASSUME NEW S \in SUBSET Nat, S # {}
    PROVE  \E x \in S : \A y \in S : x <= y
<1> DEFINE T == {0 .. y : y \in S}
<1>1. T \subseteq FiniteSubsetsOf(Nat) /\ T # {}
    <2>1. \A y \in S : IsFiniteSet(0 .. y) /\ 0 .. y \in SUBSET Nat
        BY FS_Interval
    <2> QED BY <2>1 DEF FiniteSubsetsOf
<1>2. PICK t \in T : \A u \in T : <<u, t>> \notin StrictSubsetOrdering(Nat)
    BY <1>1, FS_StrictSubsetOrderingWellFounded, WFMin
<1>3. PICK x \in S : t = 0 .. x
    BY <1>2
<1>4. ASSUME NEW y \in S PROVE x <= y
    <2>1. <<0 .. y, 0 .. x>> \notin StrictSubsetOrdering(Nat)
        BY <1>2, <1>3
    <2>2. 0 .. y \subseteq Nat /\ 0 .. x \subseteq Nat
        OBVIOUS
    <2>3. ~(0 .. y \subseteq 0 .. x /\ 0 .. y # 0 .. x)
        BY <2>1, <2>2 DEF StrictSubsetOrdering
    <2> QED BY <2>3
<1> QED BY <1>3, <1>4

LEMMA LeastIsOfThem ==
    ASSUME NEW S \in SUBSET Ids, S # {}
    PROVE  Least(S) \in S
BY ThereIsALeast, TranscriptsAssumption DEF Least

LEMMA FirstIsOfThem ==
    ASSUME NEW n \in Nat, NEW todo \in SUBSET Silent(n), todo # {}
    PROVE  First(todo) \in todo /\ First(todo).id \in Ids /\ First(todo).etag \in 1 .. n
<1> DEFINE S == {e.id : e \in todo}
<1>1. S \subseteq Nat /\ S # {}
    BY TranscriptsAssumption DEF Silent
<1>2. PICK x \in S : \A y \in S : x <= y
    BY <1>1, ThereIsALeast
<1>3. PICK e \in todo : \A f \in todo : e.id <= f.id
    BY <1>2
<1>4. First(todo) \in todo
    BY <1>3 DEF First
<1> QED BY <1>4 DEF Silent

-----------------------------------------------------------------------------
(* Contents only become more: what was of a type is of it still.           *)
LEMMA MoreContents ==
    ASSUME NEW m \in Nat, NEW n \in Nat, m <= n
    PROVE  /\ RowType(m) \subseteq RowType(n) /\ RowsType(m) \subseteq RowsType(n)
           /\ AskType(m) \subseteq AskType(n) /\ WorkType(m) \subseteq WorkType(n)
           /\ JobType(m) \subseteq JobType(n) /\ StageType(m) \subseteq StageType(n)
<1>1. 1 .. m \subseteq 1 .. n /\ 0 .. m \subseteq 0 .. n
    OBVIOUS
<1>2. RowType(m) \subseteq RowType(n)
    BY <1>1 DEF RowType
<1>3. RowsType(m) \subseteq RowsType(n)
    BY <1>2 DEF RowsType
<1>4. AskType(m) \subseteq AskType(n)
    BY <1>3, Zenon DEF AskType
<1>5. WorkType(m) \subseteq WorkType(n)
    BY <1>1 DEF WorkType
<1>6. JobType(m) \subseteq JobType(n)
    BY <1>1 DEF JobType
<1>7. Silent(m) \subseteq Silent(n)
    BY <1>1 DEF Silent
<1>8. StageType(m) \subseteq StageType(n)
    BY <1>1, <1>3, <1>7, Zenon DEF StageType
<1> QED BY <1>2, <1>3, <1>4, <1>5, <1>6, <1>8

LEMMA NothingIsAtWork ==
    ASSUME NEW n \in Nat
    PROVE  /\ NoAsk \in AskType(n) /\ AskFits(NoAsk, n)
           /\ NoWork \in WorkType(n) /\ WorkFits(NoWork)
           /\ NoJob \in JobType(n) /\ \A disk : JobFits(NoJob, disk)
           /\ NoStage \in StageType(n) /\ \A disk : StageFits(NoStage, n, disk)
<1>1. <<>> \in Seq(Entry) /\ Len(<<>>) = 0
    OBVIOUS
<1>2. NoAsk \in AskType(n) /\ AskFits(NoAsk, n)
    BY <1>1, TranscriptsAssumption DEF NoAsk, AskType, AskFits
<1>3. NoWork \in WorkType(n) /\ WorkFits(NoWork)
    BY <1>1 DEF NoWork, WorkType, WorkFits
<1>4. NoJob \in JobType(n) /\ \A disk : JobFits(NoJob, disk)
    BY DEF NoJob, JobType, JobFits
<1>5. NoStage \in StageType(n) /\ \A disk : StageFits(NoStage, n, disk)
    BY DEF NoStage, StageType, StageFits
<1> QED BY <1>2, <1>3, <1>4, <1>5

LEMMA InitIInv == Init => IInv
<1> SUFFICES ASSUME Init PROVE IInv
    OBVIOUS
<1>1. written = 2 /\ file \in [Ids -> 1 .. 2]
    BY DEF Init
<1>2. BucketOK
    BY <1>1 DEF BucketOK
<1>3. RowsOK
    <2>1. FALSE \in Flag
        BY DEF Flag
    <2>2. \A i \in Ids : [etag |-> file[i], captioned |-> FALSE, born |-> file[i]] \in RowType(2)
        BY <1>1, <2>1 DEF RowType
    <2>3. row = [i \in Ids |-> [etag |-> file[i], captioned |-> FALSE, born |-> file[i]]]
        BY DEF Init
    <2> QED BY <1>1, <2>2, <2>3 DEF RowsOK, RowsType
<1>4. HeardOK
    BY <1>1 DEF Init, HeardOK
<1>5. CountsOK
    BY TranscriptsAssumption DEF Init, CountsOK
<1>6. AsksOK
    BY <1>1, NothingIsAtWork DEF Init, AsksOK
<1>7. WorkOK
    BY <1>1, NothingIsAtWork DEF Init, WorkOK
<1>8. JobsOK
    BY <1>1, NothingIsAtWork DEF Init, JobsOK
<1>9. StageOK
    BY <1>1, NothingIsAtWork DEF Init, StageOK
<1>10. RowsAreServable
    BY DEF Init, RowsAreServable
<1> QED BY <1>2, <1>3, <1>4, <1>5, <1>6, <1>7, <1>8, <1>9, <1>10 DEF IInv

-----------------------------------------------------------------------------
(* One actor moves, the others stay as they are.                           *)
LEMMA AskMoves ==
    ASSUME AsksOK, UNCHANGED written, NEW w \in Workers, NEW a \in AskType(written),
           AskFits(a, written), asked' = [asked EXCEPT ![w] = a]
    PROVE  AsksOK'
BY DEF AsksOK

LEMMA WorkerMoves ==
    ASSUME WorkOK, UNCHANGED written, NEW w \in Workers, NEW k \in WorkType(written),
           WorkFits(k), worker' = [worker EXCEPT ![w] = k]
    PROVE  WorkOK'
BY DEF WorkOK

(* A text that is on disk stays there.                                     *)
DiskStays == \A i \in Ids : vtt[i] # 0 => vtt'[i] # 0

LEMMA JobMoves ==
    ASSUME JobsOK, UNCHANGED written, DiskStays, NEW w \in Workers, NEW d \in JobType(written),
           JobFits(d, vtt'), delivery' = [delivery EXCEPT ![w] = d]
    PROVE  JobsOK'
<1>1. delivery' \in [Workers -> JobType(written)]
    BY DEF JobsOK
<1>2. ASSUME NEW v \in Workers PROVE JobFits(delivery'[v], vtt')
    <2>1. CASE v = w
        BY <2>1 DEF JobsOK
    <2>2. CASE v # w
        <3>1. delivery'[v] = delivery[v] /\ JobFits(delivery[v], vtt)
            BY <2>2 DEF JobsOK
        <3> QED BY <3>1 DEF JobFits, DiskStays
    <2> QED BY <2>1, <2>2
<1> QED BY <1>1, <1>2 DEF JobsOK

LEMMA JobsStay ==
    ASSUME JobsOK, UNCHANGED <<written, delivery>>, DiskStays
    PROVE  JobsOK'
BY DEF JobsOK, JobFits, DiskStays

LEMMA StageStays ==
    ASSUME StageOK, BucketOK, UNCHANGED <<written, local>>, DiskStays
    PROVE  StageOK'
<1>1. local \in StageType(written) /\ StageFits(local, written, vtt) /\ written \in Nat
    BY DEF StageOK, BucketOK
<1>2. ASSUME local.at = "row" PROVE vtt'[First(local.todo).id] # 0
    <2>1. local.todo # {} /\ vtt[First(local.todo).id] # 0
        BY <1>1, <1>2 DEF StageFits
    <2>2. local.todo \subseteq Silent(written)
        BY <1>1 DEF StageType
    <2>3. First(local.todo).id \in Ids
        BY <1>1, <2>1, <2>2, FirstIsOfThem
    <2> QED BY <2>1, <2>3 DEF DiskStays
<1>3. StageFits(local, written, vtt')
    BY <1>1, <1>2 DEF StageFits
<1> QED BY <1>1, <1>3 DEF StageOK

(* What the rest of a list leaves a worker to do.                          *)
LEMMA GoingIsWork ==
    ASSUME NEW n \in Nat, NEW list \in Seq(Entry)
    PROVE  Going(list) \in WorkType(n) /\ WorkFits(Going(list))
<1>1. CASE list = <<>>
    BY <1>1, NothingIsAtWork DEF Going
<1>2. CASE list # <<>>
    BY <1>2 DEF Going, WorkType, WorkFits
<1> QED BY <1>1, <1>2

LEMMA NextEntryIsWork ==
    ASSUME WorkOK, BucketOK, UNCHANGED written, NEW w \in Workers,
           worker[w].at \notin {"idle", "asking"},
           worker' = [worker EXCEPT ![w] = Going(Tail(@.list))]
    PROVE  WorkOK'
<1>1. worker[w].list \in Seq(Entry) /\ worker[w].list # <<>> /\ written \in Nat
    BY DEF WorkOK, BucketOK, WorkType, WorkFits
<1>2. Tail(worker[w].list) \in Seq(Entry)
    BY <1>1
<1>3. Going(Tail(worker[w].list)) \in WorkType(written) /\ WorkFits(Going(Tail(worker[w].list)))
    BY <1>1, <1>2, GoingIsWork
<1>4. worker' = [worker EXCEPT ![w] = Going(Tail(worker[w].list))]
    OBVIOUS
<1> QED BY <1>3, <1>4, WorkerMoves

LEMMA EndsIsWork ==
    ASSUME WorkOK, JobsOK, BucketOK, UNCHANGED <<written, vtt>>, NEW w \in Workers, Ends(w)
    PROVE  WorkOK' /\ JobsOK'
<1>1. WorkOK'
    <2>1. CASE worker[w].at = "waiting"
        <3>1. worker' = [worker EXCEPT ![w] = Going(Tail(@.list))]
            BY <2>1 DEF Ends, NextEntry
        <3> QED BY <2>1, <3>1, NextEntryIsWork
    <2>2. CASE worker[w].at # "waiting"
        <3>1. worker' = worker
            BY <2>2 DEF Ends
        <3> QED BY <3>1 DEF WorkOK
    <2> QED BY <2>1, <2>2
<1>2. JobsOK'
    <2>1. DiskStays /\ written \in Nat
        BY DEF DiskStays, BucketOK
    <2>2. NoJob \in JobType(written) /\ JobFits(NoJob, vtt')
        BY <2>1, NothingIsAtWork
    <2>3. delivery' = [delivery EXCEPT ![w] = NoJob] /\ written' = written
        BY Zenon DEF Ends
    <2> QED BY <2>1, <2>2, <2>3, JobMoves
<1> QED BY <1>1, <1>2

(* The parts of the invariant, for the steps to name.                      *)
LEMMA Parts ==
    ASSUME IInv
    PROVE  /\ BucketOK /\ RowsOK /\ HeardOK /\ CountsOK /\ RowsAreServable
           /\ AsksOK /\ WorkOK /\ JobsOK /\ StageOK /\ written \in Nat
BY DEF IInv, BucketOK

(* A step that leaves the bucket and the store alone; and one that leaves  *)
(* the actors as they are.                                                 *)
LEMMA InMemory ==
    ASSUME IInv, UNCHANGED <<bucketVars, storeVars>>,
           AsksOK', WorkOK', JobsOK', StageOK', CountsOK'
    PROVE  IInv'
<1>1. UNCHANGED <<file, written, row, transcripts, cues, vtt>>
    BY DEF bucketVars, storeVars
<1> QED BY <1>1 DEF IInv, BucketOK, RowsOK, HeardOK, RowsAreServable

LEMMA ActorsStay ==
    ASSUME IInv, UNCHANGED written
    PROVE  /\ UNCHANGED asked => AsksOK'
           /\ UNCHANGED worker => WorkOK'
           /\ UNCHANGED delivery /\ DiskStays => JobsOK'
           /\ UNCHANGED local /\ DiskStays => StageOK'
           /\ UNCHANGED vtt => DiskStays
           /\ UNCHANGED <<leased, crossed, events>> => CountsOK'
<1>1. UNCHANGED asked => AsksOK'
    BY DEF IInv, AsksOK
<1>2. UNCHANGED worker => WorkOK'
    BY DEF IInv, WorkOK
<1>3. UNCHANGED delivery /\ DiskStays => JobsOK'
    BY JobsStay DEF IInv
<1>4. UNCHANGED local /\ DiskStays => StageOK'
    BY StageStays DEF IInv
<1>5. UNCHANGED vtt => DiskStays
    BY DEF DiskStays
<1>6. UNCHANGED <<leased, crossed, events>> => CountsOK'
    BY DEF IInv, CountsOK
<1> QED BY <1>1, <1>2, <1>3, <1>4, <1>5, <1>6

LEMMA Counted ==
    ASSUME IInv, events < MaxEvents, events' = events + 1, UNCHANGED crossed, leased' \subseteq Ids
    PROVE  CountsOK'
BY TranscriptsAssumption DEF IInv, CountsOK

-----------------------------------------------------------------------------
(* The queue.                                                              *)
LEMMA AskQueueStep ==
    ASSUME IInv, NEW w \in Workers, AskQueue(w)
    PROVE  IInv'
<1>1. UNCHANGED <<bucketVars, storeVars, written, vtt, delivery, local, leased, crossed, events>>
    BY DEF AskQueue, bucketVars, storeVars
<1>2. written \in Nat /\ row \in RowsType(written)
    BY Parts DEF RowsOK
<1>3. AsksOK'
    <2> DEFINE a == [NoAsk EXCEPT !.at = "items", !.items = row]
    <2>1. NoAsk \in AskType(written) /\ AskFits(NoAsk, written)
        BY <1>2, NothingIsAtWork
    <2>2. a \in AskType(written)
        BY <1>2, <2>1 DEF AskType
    <2>3. a.at = "items" /\ a.items = row /\ a.list = NoAsk.list
        BY <2>1 DEF AskType
    <2>4. asked' = [asked EXCEPT ![w] = a]
        BY DEF AskQueue
    <2> HIDE DEF a
    <2>5. AskFits(a, written)
        BY <1>2, <2>1, <2>3, Zenon DEF AskFits
    <2> QED BY <1>1, <2>2, <2>4, <2>5, Parts, AskMoves
<1>4. WorkOK'
    <2> DEFINE k == [worker[w] EXCEPT !.at = "asking"]
    <2>1. worker[w] \in WorkType(written) /\ WorkFits(worker[w]) /\ worker[w].at = "idle"
        BY Parts DEF AskQueue, WorkOK
    <2>2. k \in WorkType(written) /\ WorkFits(k)
        BY <2>1 DEF WorkType, WorkFits
    <2>3. worker' = [worker EXCEPT ![w] = k]
        BY DEF AskQueue
    <2> HIDE DEF k
    <2> QED BY <1>1, <2>2, <2>3, Parts, WorkerMoves
<1> QED BY <1>1, <1>3, <1>4, ActorsStay, InMemory

LEMMA PickNeedyStep ==
    ASSUME IInv, NEW w \in Workers, PickNeedy(w)
    PROVE  IInv'
<1>1. UNCHANGED <<bucketVars, storeVars, written, vtt, worker, delivery, local, leased, crossed,
                  events>>
    BY DEF PickNeedy, bucketVars, storeVars
<1>2. AsksOK'
    <2> DEFINE todo == {i \in Ids : Needs(i, asked[w].items[i])}
               a == [asked[w] EXCEPT !.at = "walking", !.todo = todo]
    <2>1. asked[w] \in AskType(written) /\ AskFits(asked[w], written) /\ asked[w].at = "items"
        BY Parts DEF PickNeedy, AsksOK
    <2>2. todo \in SUBSET Ids /\ \A i \in todo : asked[w].items[i] # None
        BY DEF Needs
    <2>3. asked' = [asked EXCEPT ![w] = a]
        BY DEF PickNeedy
    <2> HIDE DEF todo
    <2>4. a \in AskType(written)
        BY <2>1, <2>2 DEF AskType
    <2>5. a.at = "walking" /\ a.items = asked[w].items /\ a.todo = todo /\ a.list = asked[w].list
        BY <2>1 DEF AskType
    <2> HIDE DEF a
    <2>6. AskFits(a, written)
        BY <2>1, <2>2, <2>5, Zenon DEF AskFits
    <2> QED BY <1>1, <2>3, <2>4, <2>6, Parts, AskMoves
<1> QED BY <1>1, <1>2, ActorsStay, InMemory

LEMMA LookAtLeaseStep ==
    ASSUME IInv, NEW w \in Workers, LookAtLease(w)
    PROVE  IInv'
<1>1. UNCHANGED <<bucketVars, storeVars, written, vtt, worker, delivery, local, leased, crossed,
                  events>>
    BY DEF LookAtLease, bucketVars, storeVars
<1>2. /\ asked[w] \in AskType(written) /\ AskFits(asked[w], written)
      /\ asked[w].at = "walking" /\ asked[w].todo # {}
    BY Parts DEF LookAtLease, AsksOK
<1> DEFINE i == Least(asked[w].todo)
<1>3. CASE Passed(w, i)
    <2> DEFINE a == [asked[w] EXCEPT !.todo = @ \ {i}]
    <2>1. asked' = [asked EXCEPT ![w] = a]
        BY <1>3 DEF LookAtLease
    <2> HIDE DEF i
    <2>2. a \in AskType(written)
        BY <1>2 DEF AskType
    <2>3. /\ a.at = "walking" /\ a.items = asked[w].items /\ a.todo = asked[w].todo \ {i}
          /\ a.list = asked[w].list
        BY <1>2 DEF AskType
    <2> HIDE DEF a
    <2>4. \A j \in a.todo : j \in asked[w].todo
        BY <2>3
    <2>5. AskFits(a, written)
        BY <1>2, <2>3, <2>4, Zenon DEF AskFits
    <2>6. AsksOK'
        BY <1>1, <2>1, <2>2, <2>5, Parts, AskMoves
    <2> QED BY <1>1, <2>6, ActorsStay, InMemory
<1>4. CASE ~Passed(w, i)
    <2> DEFINE a == [asked[w] EXCEPT !.at = "signing"]
    <2>1. asked' = [asked EXCEPT ![w] = a]
        BY <1>4 DEF LookAtLease
    <2>2. a \in AskType(written)
        BY <1>2 DEF AskType
    <2>3. /\ a.at = "signing" /\ a.items = asked[w].items /\ a.todo = asked[w].todo
          /\ a.list = asked[w].list
        BY <1>2 DEF AskType
    <2>4. Len(asked[w].list) < Limit
        <3>1. Len(asked[w].list) \in Nat
            BY <1>2 DEF AskType
        <3> QED BY <1>4, <3>1, TranscriptsAssumption DEF Passed
    <2> HIDE DEF a
    <2>5. AskFits(a, written)
        BY <1>2, <2>3, <2>4, Zenon DEF AskFits
    <2>6. AsksOK'
        BY <1>1, <2>1, <2>2, <2>5, Parts, AskMoves
    <2> QED BY <1>1, <2>6, ActorsStay, InMemory
<1> QED BY <1>3, <1>4

LEMMA HandOutStep ==
    ASSUME IInv, NEW w \in Workers, HandOut(w)
    PROVE  IInv'
<1>1. UNCHANGED <<bucketVars, storeVars, written, vtt, worker, delivery, local, crossed, events>>
    BY DEF HandOut, bucketVars, storeVars
<1>2. /\ asked[w] \in AskType(written) /\ AskFits(asked[w], written) /\ asked[w].at = "signing"
      /\ written \in Nat
    BY Parts DEF HandOut, AsksOK
<1>3. asked[w].todo \in SUBSET Ids /\ asked[w].todo # {} /\ Len(asked[w].list) < Limit
    BY <1>2 DEF AskType, AskFits
<1> DEFINE i == Least(asked[w].todo)
           entry == [id |-> i, etag |-> asked[w].items[i].etag]
           a == [asked[w] EXCEPT !.at = "walking", !.todo = @ \ {i}, !.list = Append(@, entry)]
<1>4. asked' = [asked EXCEPT ![w] = a] /\ leased' = leased \cup {i}
    BY DEF HandOut
<1>5. i \in asked[w].todo /\ i \in Ids
    BY <1>3, LeastIsOfThem
<1> HIDE DEF i
<1>6. asked[w].items[i] \in RowType(written)
    BY <1>2, <1>5 DEF AskFits, RowsType
<1>7. entry \in Entry
    BY <1>5, <1>6, <1>2 DEF RowType, Entry
<1> HIDE DEF entry
<1>8. /\ asked[w].list \in Seq(Entry) /\ Append(asked[w].list, entry) \in Seq(Entry)
      /\ Len(Append(asked[w].list, entry)) <= Limit
    <2>1. asked[w].list \in Seq(Entry)
        BY <1>2 DEF AskType
    <2>2. Append(asked[w].list, entry) \in Seq(Entry)
        BY <1>7, <2>1
    <2>3. Len(Append(asked[w].list, entry)) = Len(asked[w].list) + 1 /\ Len(asked[w].list) \in Nat
        BY <1>7, <2>1
    <2> QED BY <1>3, <2>1, <2>2, <2>3, TranscriptsAssumption
<1>9. a \in AskType(written)
    BY <1>2, <1>8 DEF AskType
<1>10. /\ a.at = "walking" /\ a.items = asked[w].items /\ a.todo = asked[w].todo \ {i}
       /\ a.list = Append(asked[w].list, entry)
    BY <1>2 DEF AskType
<1> HIDE DEF a
<1>11. AskFits(a, written)
    <2>1. \A j \in a.todo : j \in asked[w].todo
        BY <1>10
    <2> QED BY <1>2, <1>8, <1>10, <2>1, Zenon DEF AskFits
<1>12. AsksOK'
    BY <1>1, <1>4, <1>9, <1>11, Parts, AskMoves
<1>13. CountsOK'
    BY <1>1, <1>4, <1>5, Parts DEF CountsOK
<1> QED BY <1>1, <1>12, <1>13, ActorsStay, InMemory

LEMMA AnswerStep ==
    ASSUME IInv, NEW w \in Workers, Answer(w)
    PROVE  IInv'
<1>1. UNCHANGED <<bucketVars, storeVars, written, vtt, delivery, local, leased, crossed, events>>
    BY DEF Answer, bucketVars, storeVars
<1>2. AsksOK'
    <2>1. NoAsk \in AskType(written) /\ AskFits(NoAsk, written)
        BY Parts, NothingIsAtWork
    <2> QED BY <1>1, <2>1, Parts, AskMoves DEF Answer
<1>3. WorkOK'
    <2>1. asked[w].list \in Seq(Entry)
        BY Parts DEF AsksOK, AskType
    <2>2. Going(asked[w].list) \in WorkType(written) /\ WorkFits(Going(asked[w].list))
        BY <2>1, Parts, GoingIsWork
    <2> QED BY <1>1, <2>2, Parts, WorkerMoves DEF Answer
<1> QED BY <1>1, <1>2, <1>3, ActorsStay, InMemory

LEMMA LapseStep ==
    ASSUME IInv, NEW i \in Ids, Lapse(i)
    PROVE  IInv'
<1>1. UNCHANGED <<bucketVars, storeVars, written, vtt, asked, worker, delivery, local, crossed,
                  events>> /\ leased' = leased \ {i}
    BY DEF Lapse, bucketVars, storeVars, actorVars
<1>2. CountsOK'
    BY <1>1, Parts DEF CountsOK
<1> QED BY <1>1, <1>2, ActorsStay, InMemory

-----------------------------------------------------------------------------
(* The worker and what it delivers.                                        *)
LEMMA TheEntryBefore ==
    ASSUME IInv, NEW w \in Workers, worker[w].at \notin {"idle", "asking"}
    PROVE  Head(worker[w].list).id \in Ids /\ Head(worker[w].list) \in Entry
<1>1. worker[w].list \in Seq(Entry) /\ worker[w].list # <<>>
    BY Parts DEF WorkOK, WorkType, WorkFits
<1>2. Head(worker[w].list) \in Entry
    BY <1>1
<1> QED BY <1>2 DEF Entry

LEMMA HearStep ==
    ASSUME IInv, NEW w \in Workers, Hear(w)
    PROVE  IInv'
<1>1. UNCHANGED <<bucketVars, storeVars, written, vtt, asked, delivery, local, leased, crossed,
                  events>> /\ worker[w].at = "hearing"
    BY DEF Hear, bucketVars, storeVars
<1>2. worker[w] \in WorkType(written) /\ WorkFits(worker[w]) /\ written \in Nat
    BY Parts DEF WorkOK
<1> DEFINE it == Head(worker[w].list)
<1>3. it.id \in Ids
    BY <1>1, TheEntryBefore
<1>4. CASE file[it.id] = 0
    <2>1. worker' = [worker EXCEPT ![w] = Going(Tail(worker[w].list))]
        BY <1>4 DEF Hear
    <2>2. WorkOK'
        BY <1>1, <2>1, Parts, NextEntryIsWork
    <2> QED BY <1>1, <2>2, ActorsStay, InMemory
<1>5. CASE file[it.id] # 0
    <2> DEFINE k == [worker[w] EXCEPT !.at = "posting", !.text = file[it.id]]
    <2>1. worker' = [worker EXCEPT ![w] = k]
        BY <1>5 DEF Hear
    <2>2. file[it.id] \in 0 .. written
        BY <1>3, Parts DEF BucketOK
    <2> HIDE DEF it
    <2>3. k \in WorkType(written)
        BY <1>2, <2>2 DEF WorkType
    <2>4. k.at = "posting" /\ k.text = file[it.id] /\ k.list = worker[w].list
        BY <1>2 DEF WorkType
    <2> HIDE DEF k
    <2>5. WorkFits(k)
        BY <1>1, <1>2, <1>5, <2>4 DEF WorkFits
    <2>6. WorkOK'
        BY <1>1, <2>1, <2>3, <2>5, Parts, WorkerMoves
    <2> QED BY <1>1, <2>6, ActorsStay, InMemory
<1> QED BY <1>4, <1>5

LEMMA PostStep ==
    ASSUME IInv, NEW w \in Workers, Post(w)
    PROVE  IInv'
<1>1. UNCHANGED <<bucketVars, storeVars, written, vtt, asked, local, leased, crossed, events>>
      /\ worker[w].at = "posting"
    BY DEF Post, bucketVars, storeVars
<1>2. worker[w] \in WorkType(written) /\ WorkFits(worker[w]) /\ written \in Nat
    BY Parts DEF WorkOK
<1> DEFINE it == Head(worker[w].list)
<1>3. it.id \in Ids
    BY <1>1, TheEntryBefore
<1>4. CASE Accepts(it)
    <2> DEFINE k == [worker[w] EXCEPT !.at = "waiting"]
               d == [at |-> "body", id |-> it.id, etag |-> row[it.id].etag,
                     text |-> worker[w].text]
    <2>1. worker' = [worker EXCEPT ![w] = k] /\ delivery' = [delivery EXCEPT ![w] = d]
        BY <1>4 DEF Post
    <2>2. k \in WorkType(written) /\ WorkFits(k)
        BY <1>1, <1>2 DEF WorkType, WorkFits
    <2>3. row[it.id] \in RowType(written)
        BY <1>3, <1>4, Parts DEF RowsOK, RowsType, Accepts
    <2> HIDE DEF it, k
    <2>4. WorkOK'
        BY <1>1, <2>1, <2>2, Parts, WorkerMoves
    <2>5. row[it.id].etag \in 0 .. written
        BY <1>2, <2>3 DEF RowType
    <2>6. worker[w].text \in 0 .. written /\ worker[w].text # 0
        BY <1>1, <1>2 DEF WorkType, WorkFits
    <2>7. d \in JobType(written) /\ JobFits(d, vtt')
        BY <1>3, <2>5, <2>6, TranscriptsAssumption DEF JobType, JobFits
    <2> HIDE DEF d
    <2>8. JobsOK'
        BY <1>1, <2>1, <2>7, Parts, ActorsStay, JobMoves
    <2> QED BY <1>1, <2>4, <2>8, ActorsStay, InMemory
<1>5. CASE ~Accepts(it)
    <2>1. worker' = [worker EXCEPT ![w] = Going(Tail(worker[w].list))] /\ delivery' = delivery
        BY <1>5 DEF Post, NextEntry
    <2>2. WorkOK'
        BY <1>1, <2>1, Parts, NextEntryIsWork
    <2> QED BY <1>1, <2>1, <2>2, ActorsStay, InMemory
<1> QED BY <1>4, <1>5

LEMMA GiveUpStep ==
    ASSUME IInv, NEW w \in Workers, GiveUp(w)
    PROVE  IInv'
<1>1. /\ UNCHANGED <<bucketVars, storeVars, written, vtt, asked, delivery, local, leased, crossed>>
      /\ worker[w].at = "waiting" /\ events < MaxEvents /\ events' = events + 1
      /\ worker' = [worker EXCEPT ![w] = Going(Tail(worker[w].list))]
    BY DEF GiveUp, NextEntry, bucketVars, storeVars
<1>2. WorkOK'
    BY <1>1, Parts, NextEntryIsWork
<1>3. CountsOK'
    BY <1>1, Parts, Counted DEF CountsOK
<1> QED BY <1>1, <1>2, <1>3, ActorsStay, InMemory

LEMMA EndStep ==
    ASSUME IInv, NEW w \in Workers, Ends(w), UNCHANGED <<bucketVars, storeVars, asked, local>>,
           CountsOK'
    PROVE  IInv'
<1>1. UNCHANGED <<written, vtt>>
    BY DEF bucketVars, storeVars
<1>2. WorkOK' /\ JobsOK'
    BY <1>1, Parts, EndsIsWork
<1> QED BY <1>1, <1>2, ActorsStay, InMemory

LEMMA TheDelivery ==
    ASSUME IInv, NEW w \in Workers, delivery[w].at # "idle"
    PROVE  /\ delivery[w] \in JobType(written) /\ JobFits(delivery[w], vtt)
           /\ delivery[w].id \in Ids /\ delivery[w].etag \in 0 .. written
           /\ delivery[w].text \in 0 .. written
<1>1. delivery[w] \in JobType(written) /\ JobFits(delivery[w], vtt)
    BY Parts DEF JobsOK
<1> QED BY <1>1 DEF JobType, JobFits

LEMMA CrossedIsOK ==
    ASSUME IInv, UNCHANGED <<leased, events>>, NEW i \in Ids, NEW others,
           crossed' = CrossedWith(i, others)
    PROVE  CountsOK'
BY Parts DEF CountsOK, CrossedWith

LEMMA WriteFileStep ==
    ASSUME IInv, NEW w \in Workers, WriteFile(w)
    PROVE  IInv'
<1>1. /\ UNCHANGED <<written, file, row, transcripts, cues, asked, worker, local, leased, events>>
      /\ delivery[w].at = "body"
    BY DEF WriteFile, bucketVars
<1> DEFINE i == delivery[w].id
           d == [delivery[w] EXCEPT !.at = "row"]
<1>2. /\ vtt' = [vtt EXCEPT ![i] = delivery[w].text] /\ delivery' = [delivery EXCEPT ![w] = d]
      /\ crossed' = CrossedWith(i, Writing(i) # {w} \/ Hearing(i))
    BY DEF WriteFile
<1>3. /\ delivery[w] \in JobType(written) /\ i \in Ids
      /\ delivery[w].text \in 0 .. written /\ delivery[w].text # 0
    BY <1>1, TheDelivery DEF JobFits
<1>4. vtt \in [Ids -> 0 .. written] /\ vtt' \in [Ids -> 0 .. written] /\ vtt'[i] # 0
    BY <1>2, <1>3, Parts DEF HeardOK
<1>5. DiskStays
    BY <1>2, <1>3, <1>4 DEF DiskStays
<1>6. d \in JobType(written) /\ d.at = "row" /\ d.id = i
    BY <1>3 DEF JobType
<1> HIDE DEF i, d
<1>7. JobFits(d, vtt')
    BY <1>3, <1>4, <1>6 DEF JobFits
<1>8. JobsOK'
    BY <1>1, <1>2, <1>5, <1>6, <1>7, Parts, JobMoves
<1>9. CountsOK'
    BY <1>1, <1>2, <1>3, CrossedIsOK
<1>10. BucketOK' /\ RowsOK' /\ HeardOK'
    BY <1>1, <1>4, Parts DEF BucketOK, RowsOK, HeardOK
<1>11. RowsAreServable'
    BY <1>1, <1>5, Parts DEF RowsAreServable, DiskStays
<1> QED BY <1>1, <1>5, <1>8, <1>9, <1>10, <1>11, ActorsStay DEF IInv

LEMMA SetTranscriptStep ==
    ASSUME IInv, NEW w \in Workers, SetTranscript(w)
    PROVE  IInv'
<1>1. /\ UNCHANGED <<written, file, row, vtt, cues, asked, worker, local, leased, events, crossed>>
      /\ delivery[w].at = "row"
    BY DEF SetTranscript, bucketVars
<1> DEFINE i == delivery[w].id
           d == [delivery[w] EXCEPT !.at = "cues"]
<1>2. /\ transcripts' = [transcripts EXCEPT ![i] = delivery[w].etag]
      /\ delivery' = [delivery EXCEPT ![w] = d]
    BY DEF SetTranscript
<1>3. /\ delivery[w] \in JobType(written) /\ i \in Ids
      /\ delivery[w].etag \in 0 .. written /\ vtt[i] # 0
    BY <1>1, TheDelivery DEF JobFits
<1>4. d \in JobType(written) /\ d.at = "cues" /\ d.id = i
    BY <1>3 DEF JobType
<1> HIDE DEF i, d
<1>5. JobFits(d, vtt')
    BY <1>3, <1>4 DEF JobFits
<1>6. DiskStays
    BY <1>1 DEF DiskStays
<1>7. JobsOK'
    BY <1>1, <1>2, <1>4, <1>5, <1>6, Parts, JobMoves
<1>8. BucketOK' /\ RowsOK'
    BY <1>1, Parts DEF BucketOK, RowsOK
<1>9. HeardOK'
    BY <1>1, <1>2, <1>3, Parts DEF HeardOK
<1>10. RowsAreServable'
    BY <1>1, <1>2, <1>3, Parts DEF RowsAreServable, HeardOK
<1> QED BY <1>1, <1>6, <1>7, <1>8, <1>9, <1>10, ActorsStay DEF IInv

LEMMA SetCuesStep ==
    ASSUME IInv, NEW w \in Workers, SetCues(w)
    PROVE  IInv'
<1>1. /\ UNCHANGED <<written, file, row, vtt, transcripts, asked, worker, local, leased, events,
                     crossed>>
      /\ delivery[w].at = "cues"
    BY DEF SetCues, bucketVars
<1> DEFINE i == delivery[w].id
           d == [delivery[w] EXCEPT !.at = "drop"]
<1>2. cues' = [cues EXCEPT ![i] = vtt[i]] /\ delivery' = [delivery EXCEPT ![w] = d]
    BY DEF SetCues
<1>3. delivery[w] \in JobType(written) /\ i \in Ids
    BY <1>1, TheDelivery
<1>4. d \in JobType(written) /\ d.at = "drop" /\ d.id = i
    BY <1>3 DEF JobType
<1> HIDE DEF i, d
<1>5. JobFits(d, vtt')
    BY <1>3, <1>4 DEF JobFits
<1>6. DiskStays
    BY <1>1 DEF DiskStays
<1>7. JobsOK'
    BY <1>1, <1>2, <1>4, <1>5, <1>6, Parts, JobMoves
<1>8. BucketOK' /\ RowsOK'
    BY <1>1, Parts DEF BucketOK, RowsOK
<1>9. HeardOK'
    BY <1>1, <1>2, <1>3, Parts DEF HeardOK
<1>10. RowsAreServable'
    BY <1>1, Parts DEF RowsAreServable
<1> QED BY <1>1, <1>6, <1>7, <1>8, <1>9, <1>10, ActorsStay DEF IInv

LEMMA DeliveryStepKeeps ==
    ASSUME IInv, NEW w \in Workers, DeliveryStep(w) \/ DeliveryFails(w)
    PROVE  IInv'
<1>1. CASE RefuseEmpty(w)
    <2>1. CountsOK'
        BY <1>1, Parts DEF RefuseEmpty, CountsOK
    <2> QED BY <1>1, <2>1, EndStep DEF RefuseEmpty
<1>2. CASE DropLease(w)
    <2>1. CountsOK'
        BY <1>2, Parts DEF DropLease, CountsOK
    <2> QED BY <1>2, <2>1, EndStep DEF DropLease
<1>3. CASE DeliveryFails(w)
    <2>1. CountsOK'
        BY <1>3, Parts, Counted DEF DeliveryFails, CountsOK
    <2> QED BY <1>3, <2>1, EndStep DEF DeliveryFails
<1> QED BY <1>1, <1>2, <1>3, WriteFileStep, SetTranscriptStep, SetCuesStep DEF DeliveryStep

-----------------------------------------------------------------------------
(* The stage of this box.                                                  *)
LEMMA StageIsOK ==
    ASSUME BucketOK, UNCHANGED written, NEW todo \in SUBSET Silent(written), local' = Stage(todo)
    PROVE  StageOK'
<1>1. written \in Nat
    BY DEF BucketOK
<1>2. CASE todo = {}
    <2>1. local' = NoStage
        BY <1>2 DEF Stage
    <2>2. NoStage \in StageType(written) /\ StageFits(NoStage, written, vtt')
        BY <1>1, NothingIsAtWork
    <2> QED BY <2>1, <2>2 DEF StageOK
<1>3. CASE todo # {}
    <2>1. local' = [at |-> "hearing", rows |-> <<>>, todo |-> todo, text |-> 0]
        BY <1>3 DEF Stage, NoStage
    <2>2. local' \in StageType(written) /\ StageFits(local', written', vtt')
        BY <1>1, <1>3, <2>1 DEF StageType, StageFits
    <2> QED BY <2>2 DEF StageOK
<1> QED BY <1>2, <1>3

LEMMA TheTurn ==
    ASSUME IInv, local.at \notin {"idle", "rows"}
    PROVE  /\ Turn = First(local.todo) /\ Turn \in local.todo
           /\ local \in StageType(written) /\ local.todo \in SUBSET Silent(written)
           /\ Turn.id \in Ids /\ Turn.etag \in 1 .. written
<1>1. Turn = First(local.todo)
    BY DEF Turn, First
<1>2. local \in StageType(written) /\ local.todo # {} /\ written \in Nat
    BY Parts DEF StageOK, StageFits
<1>3. local.todo \in SUBSET Silent(written)
    BY <1>2 DEF StageType
<1> QED BY <1>1, <1>2, <1>3, FirstIsOfThem

LEMMA BeginStageStep ==
    ASSUME IInv, BeginStage
    PROVE  IInv'
<1>1. UNCHANGED <<bucketVars, storeVars, written, vtt, asked, worker, delivery, leased, crossed,
                  events>>
    BY DEF BeginStage, bucketVars, storeVars
<1>2. local' = [at |-> "rows", rows |-> row, todo |-> {}, text |-> 0]
    BY DEF BeginStage, NoStage
<1>3. row \in RowsType(written) /\ 0 \in 0 .. written
    BY Parts DEF RowsOK
<1>4. local' \in StageType(written) /\ StageFits(local', written', vtt')
    BY <1>1, <1>2, <1>3 DEF StageType, StageFits
<1>5. StageOK'
    BY <1>1, <1>4 DEF StageOK
<1> QED BY <1>1, <1>5, ActorsStay, InMemory

LEMMA StagePicksStep ==
    ASSUME IInv, StagePicks
    PROVE  IInv'
<1>1. UNCHANGED <<bucketVars, storeVars, written, vtt, asked, worker, delivery, leased, crossed,
                  events>>
    BY DEF StagePicks, bucketVars, storeVars
<1> DEFINE needy == {j \in Ids : Needs(j, local.rows[j])}
           todo == {[id |-> i, etag |-> local.rows[i].etag] : i \in needy}
<1>2. local.at = "rows" /\ local' = Stage(todo)
    BY DEF StagePicks
<1>3. ASSUME NEW i \in needy
      PROVE  [id |-> i, etag |-> local.rows[i].etag] \in Silent(written)
    <2>1. local.rows[i] \in RowType(written)
        BY <1>2, <1>3, Parts DEF Needs, StageOK, StageFits, RowsType
    <2>2. local.rows[i].etag \in 1 .. written
        BY <2>1 DEF RowType
    <2> QED BY <1>3, <2>2 DEF Silent
<1>4. todo \in SUBSET Silent(written)
    BY <1>3
<1> HIDE DEF todo
<1>5. StageOK'
    BY <1>1, <1>2, <1>4, Parts, StageIsOK
<1> QED BY <1>1, <1>5, ActorsStay, InMemory

LEMMA StageHearsStep ==
    ASSUME IInv, StageHears
    PROVE  IInv'
<1>1. /\ UNCHANGED <<bucketVars, storeVars, written, vtt, asked, worker, delivery, leased, crossed,
                     events>>
      /\ local.at = "hearing"
    BY DEF StageHears, bucketVars, storeVars
<1>2. /\ Turn.id \in Ids /\ local.todo # {}
      /\ local \in StageType(written) /\ local.todo \in SUBSET Silent(written)
    BY <1>1, TheTurn
<1>3. StageOK'
    <2>1. CASE file[Turn.id] = 0
        <3>1. local' = Stage(local.todo \ {Turn})
            BY <2>1 DEF StageHears
        <3> QED BY <1>1, <1>2, <3>1, Parts, StageIsOK
    <2>2. CASE file[Turn.id] # 0
        <3>1. local' = [local EXCEPT !.at = "text", !.text = file[Turn.id]]
            BY <2>2 DEF StageHears
        <3>2. file[Turn.id] \in 0 .. written
            BY <1>2, Parts DEF BucketOK
        <3>3. local' \in StageType(written) /\ StageFits(local', written', vtt')
            BY <1>1, <1>2, <2>2, <3>1, <3>2 DEF StageType, StageFits
        <3> QED BY <1>1, <3>3 DEF StageOK
    <2> QED BY <2>1, <2>2
<1> QED BY <1>1, <1>3, ActorsStay, InMemory

LEMMA StagePlacesStep ==
    ASSUME IInv, StagePlaces
    PROVE  IInv'
<1>1. /\ UNCHANGED <<written, file, row, transcripts, cues, asked, worker, delivery, leased, events>>
      /\ local.at = "text" /\ local' = [local EXCEPT !.at = "row", !.text = 0]
      /\ vtt' = [vtt EXCEPT ![Turn.id] = local.text]
      /\ crossed' = CrossedWith(Turn.id, Writing(Turn.id) # {})
    BY DEF StagePlaces, bucketVars
<1>2. /\ Turn = First(local.todo) /\ Turn \in local.todo /\ Turn.id \in Ids
      /\ local \in StageType(written) /\ local.todo \in SUBSET Silent(written)
    BY <1>1, TheTurn
<1>3. local.text \in 0 .. written /\ local.text # 0
    BY <1>1, <1>2, Parts DEF StageOK, StageFits, StageType
<1>4. /\ vtt \in [Ids -> 0 .. written] /\ vtt' \in [Ids -> 0 .. written]
      /\ vtt'[Turn.id] # 0
    BY <1>1, <1>2, <1>3, Parts DEF HeardOK
<1>5. DiskStays
    BY <1>1, <1>2, <1>3, <1>4 DEF DiskStays
<1>6. StageOK'
    <2>1. 0 \in 0 .. written
        BY Parts
    <2>2. local' \in StageType(written) /\ local'.at = "row" /\ local'.todo = local.todo
        BY <1>1, <1>2, <2>1 DEF StageType
    <2>3. StageFits(local', written', vtt')
        BY <1>1, <1>2, <1>4, <2>2 DEF StageFits
    <2> QED BY <1>1, <2>2, <2>3 DEF StageOK
<1>7. CountsOK'
    BY <1>1, <1>2, CrossedIsOK
<1>8. BucketOK' /\ RowsOK' /\ HeardOK'
    BY <1>1, <1>4, Parts DEF BucketOK, RowsOK, HeardOK
<1>9. RowsAreServable'
    BY <1>1, <1>5, Parts DEF RowsAreServable, DiskStays
<1> QED BY <1>1, <1>5, <1>6, <1>7, <1>8, <1>9, ActorsStay DEF IInv

LEMMA StageRecordsStep ==
    ASSUME IInv, StageRecords
    PROVE  IInv'
<1>1. /\ UNCHANGED <<written, file, row, vtt, cues, asked, worker, delivery, leased, events, crossed>>
      /\ local.at = "row" /\ local' = [local EXCEPT !.at = "cues"]
      /\ transcripts' = [transcripts EXCEPT ![Turn.id] = Turn.etag]
    BY DEF StageRecords, bucketVars
<1>2. /\ Turn = First(local.todo) /\ Turn.id \in Ids /\ Turn.etag \in 1 .. written
      /\ local \in StageType(written) /\ local.todo # {}
    BY <1>1, TheTurn
<1>3. vtt[Turn.id] # 0
    BY <1>1, <1>2, Parts DEF StageOK, StageFits
<1>4. local' \in StageType(written) /\ local'.at = "cues" /\ local'.todo = local.todo
    BY <1>1, <1>2 DEF StageType
<1>5. StageOK'
    BY <1>1, <1>2, <1>4 DEF StageOK, StageFits
<1>6. DiskStays
    BY <1>1 DEF DiskStays
<1>7. BucketOK' /\ RowsOK'
    BY <1>1, Parts DEF BucketOK, RowsOK
<1>8. HeardOK'
    <2>1. Turn.etag \in 0 .. written
        BY <1>2, Parts
    <2> QED BY <1>1, <1>2, <2>1, Parts DEF HeardOK
<1>9. RowsAreServable'
    BY <1>1, <1>2, <1>3, Parts DEF RowsAreServable, HeardOK
<1> QED BY <1>1, <1>5, <1>6, <1>7, <1>8, <1>9, ActorsStay DEF IInv

LEMMA StageIndexesStep ==
    ASSUME IInv, StageIndexes
    PROVE  IInv'
<1>1. /\ UNCHANGED <<written, file, row, vtt, transcripts, asked, worker, delivery, leased, events,
                     crossed>>
      /\ local.at = "cues" /\ local' = Stage(local.todo \ {Turn})
      /\ cues' = [cues EXCEPT ![Turn.id] = IF vtt[Turn.id] \in Wordless THEN 0 ELSE vtt[Turn.id]]
    BY DEF StageIndexes, bucketVars
<1>2. local.todo \in SUBSET Silent(written) /\ Turn.id \in Ids
    BY <1>1, TheTurn
<1>3. StageOK'
    BY <1>1, <1>2, Parts, StageIsOK
<1>4. DiskStays
    BY <1>1 DEF DiskStays
<1>5. BucketOK' /\ RowsOK'
    BY <1>1, Parts DEF BucketOK, RowsOK
<1>6. HeardOK'
    BY <1>1, <1>2, Parts DEF HeardOK
<1>7. RowsAreServable'
    BY <1>1, Parts DEF RowsAreServable
<1> QED BY <1>1, <1>3, <1>4, <1>5, <1>6, <1>7, ActorsStay DEF IInv

LEMMA StageFailsStep ==
    ASSUME IInv, StageFails
    PROVE  IInv'
<1>1. /\ UNCHANGED <<bucketVars, storeVars, written, vtt, asked, worker, delivery, leased, crossed>>
      /\ local.at # "idle" /\ events < MaxEvents /\ events' = events + 1
      /\ local' = IF local.at = "rows" THEN NoStage ELSE Stage(local.todo \ {Turn})
    BY DEF StageFails, bucketVars, storeVars
<1>2. ASSUME local.at = "rows" PROVE StageOK'
    <2>1. local' = NoStage
        BY <1>1, <1>2
    <2>2. NoStage \in StageType(written) /\ StageFits(NoStage, written, vtt')
        BY Parts, NothingIsAtWork
    <2> QED BY <1>1, <2>1, <2>2 DEF StageOK
<1>3. StageOK'
    <2>1. CASE local.at # "rows"
        <3>1. local.todo \in SUBSET Silent(written)
            BY <1>1, <2>1, TheTurn
        <3> QED BY <1>1, <2>1, <3>1, Parts, StageIsOK
    <2> QED BY <1>2, <2>1
<1>4. CountsOK'
    BY <1>1, Parts, Counted DEF CountsOK
<1> QED BY <1>1, <1>3, <1>4, ActorsStay, InMemory

-----------------------------------------------------------------------------
(* The bucket, the scans and what goes wrong.                              *)
LEMMA UploadStep ==
    ASSUME IInv, NEW i \in Ids, Upload(i)
    PROVE  IInv'
<1>1. /\ UNCHANGED <<row, transcripts, cues, vtt, leased, asked, worker, delivery, local, crossed>>
      /\ events < MaxEvents /\ events' = events + 1
      /\ written' = written + 1 /\ file' = [file EXCEPT ![i] = written + 1]
    BY DEF Upload, Happens, storeVars, actorVars
<1>2. written \in Nat /\ written' \in Nat /\ written <= written'
    BY <1>1, Parts
<1>3. 0 .. written \subseteq 0 .. written'
    BY <1>2
<1>4. /\ RowsType(written) \subseteq RowsType(written') /\ AskType(written) \subseteq AskType(written')
      /\ WorkType(written) \subseteq WorkType(written') /\ JobType(written) \subseteq JobType(written')
      /\ StageType(written) \subseteq StageType(written')
    BY <1>2, MoreContents
<1>5. BucketOK'
    <2>1. written + 1 \in 0 .. written'
        BY <1>1, <1>2
    <2> QED BY <1>1, <1>2, <1>3, <2>1, Parts DEF BucketOK
<1>6. RowsOK'
    BY <1>1, <1>4, Parts DEF RowsOK
<1>7. HeardOK'
    BY <1>1, <1>3, Parts DEF HeardOK
<1>8. AsksOK'
    BY <1>1, <1>4, Parts DEF AsksOK, AskFits
<1>9. WorkOK' /\ JobsOK' /\ StageOK'
    BY <1>1, <1>4, Parts DEF WorkOK, JobsOK, StageOK, StageFits
<1>10. CountsOK'
    BY <1>1, Parts, Counted DEF CountsOK
<1>11. RowsAreServable'
    BY <1>1, Parts DEF RowsAreServable
<1> QED BY <1>5, <1>6, <1>7, <1>8, <1>9, <1>10, <1>11 DEF IInv

(* The rows of the library and what goes with them, the actors aside.      *)
LEMMA Library ==
    ASSUME IInv, UNCHANGED <<written, vtt, actorVars>>,
           BucketOK', RowsOK', HeardOK', RowsAreServable', CountsOK'
    PROVE  IInv'
<1>1. UNCHANGED <<written, vtt, asked, worker, delivery, local>>
    BY DEF actorVars
<1> QED BY <1>1, ActorsStay DEF IInv

LEMMA RemoveStep ==
    ASSUME IInv, NEW i \in Ids, Remove(i)
    PROVE  IInv'
<1>1. /\ UNCHANGED <<written, row, transcripts, cues, vtt, leased, actorVars, crossed>>
      /\ events < MaxEvents /\ events' = events + 1 /\ file' = [file EXCEPT ![i] = 0]
    BY DEF Remove, Happens, storeVars
<1>2. BucketOK' /\ RowsOK' /\ HeardOK' /\ RowsAreServable'
    BY <1>1, Parts DEF BucketOK, RowsOK, HeardOK, RowsAreServable
<1>3. CountsOK'
    BY <1>1, Parts, Counted DEF CountsOK
<1> QED BY <1>1, <1>2, <1>3, Library

LEMMA CaptionStep ==
    ASSUME IInv, NEW i \in Ids, Caption(i)
    PROVE  IInv'
<1>1. /\ UNCHANGED <<written, file, transcripts, cues, vtt, leased, actorVars, crossed>>
      /\ events < MaxEvents /\ events' = events + 1 /\ i \in Known
      /\ row' = [row EXCEPT ![i].captioned = ~@]
    BY DEF Caption, Happens, bucketVars
<1>2. row \in RowsType(written) /\ row[i] \in RowType(written)
    BY <1>1, Parts DEF RowsOK, RowsType, Known
<1>3. RowsOK'
    <2> DEFINE b == ~row[i].captioned
               r == [row[i] EXCEPT !.captioned = b]
    <2>1. row' = [row EXCEPT ![i] = r]
        BY <1>1
    <2>2. b \in Flag
        BY DEF Flag
    <2> HIDE DEF b
    <2>3. r \in RowType(written)
        BY <1>2, <2>2 DEF RowType
    <2> HIDE DEF r
    <2> QED BY <1>1, <1>2, <2>1, <2>3 DEF RowsOK, RowsType
<1>4. BucketOK' /\ HeardOK' /\ RowsAreServable'
    BY <1>1, Parts DEF BucketOK, HeardOK, RowsAreServable
<1>5. CountsOK'
    BY <1>1, Parts, Counted DEF CountsOK
<1> QED BY <1>1, <1>3, <1>4, <1>5, Library

LEMMA RescanStep ==
    ASSUME IInv, NEW i \in Ids, Rescan(i)
    PROVE  IInv'
<1>1. /\ UNCHANGED <<written, file, transcripts, cues, vtt, leased, actorVars, crossed, events>>
      /\ file[i] # 0
    BY DEF Rescan, bucketVars
<1>2. file[i] \in 1 .. written /\ row \in RowsType(written)
    BY <1>1, Parts DEF BucketOK, RowsOK
<1>3. RowsOK'
    <2> DEFINE r == IF row[i] = None
                    THEN [etag |-> file[i], captioned |-> FALSE, born |-> file[i]]
                    ELSE [row[i] EXCEPT !.etag = file[i]]
    <2>1. row' = [row EXCEPT ![i] = r]
        BY DEF Rescan
    <2>2. ASSUME row[i] = None PROVE r \in RowType(written)
        <3>1. FALSE \in Flag
            BY DEF Flag
        <3>2. [etag |-> file[i], captioned |-> FALSE, born |-> file[i]] \in RowType(written)
            BY <1>2, <3>1 DEF RowType
        <3> QED BY <2>2, <3>2, Zenon
    <2>3. ASSUME row[i] # None PROVE r \in RowType(written)
        <3>1. row[i] \in RowType(written)
            BY <1>2, <2>3 DEF RowsType
        <3>2. [row[i] EXCEPT !.etag = file[i]] \in RowType(written)
            BY <1>2, <3>1 DEF RowType
        <3> QED BY <2>3, <3>2, Zenon
    <2>4. r \in RowType(written)
        BY <2>2, <2>3
    <2> HIDE DEF r
    <2> QED BY <1>1, <1>2, <2>1, <2>4 DEF RowsOK, RowsType
<1>4. BucketOK' /\ HeardOK' /\ RowsAreServable' /\ CountsOK'
    BY <1>1, Parts DEF BucketOK, HeardOK, RowsAreServable, CountsOK
<1> QED BY <1>1, <1>3, <1>4, Library

LEMMA DeleteMissingStep ==
    ASSUME IInv, NEW i \in Ids, DeleteMissing(i)
    PROVE  IInv'
<1>1. /\ UNCHANGED <<written, file, vtt, leased, actorVars, crossed, events>>
      /\ row' = [row EXCEPT ![i] = None] /\ transcripts' = [transcripts EXCEPT ![i] = None]
      /\ cues' = [cues EXCEPT ![i] = 0]
    BY DEF DeleteMissing, bucketVars
<1>2. RowsOK'
    BY <1>1, Parts DEF RowsOK, RowsType
<1>3. HeardOK'
    BY <1>1, Parts DEF HeardOK
<1>4. RowsAreServable'
    BY <1>1, Parts DEF RowsAreServable, HeardOK
<1>5. BucketOK' /\ CountsOK'
    BY <1>1, Parts DEF BucketOK, CountsOK
<1> QED BY <1>1, <1>2, <1>3, <1>4, <1>5, Library

LEMMA RestartStep ==
    ASSUME IInv, Restart
    PROVE  IInv'
<1>1. /\ UNCHANGED <<bucketVars, storeVars, written, vtt, crossed>>
      /\ events < MaxEvents /\ events' = events + 1 /\ leased' = {} /\ local' = NoStage
      /\ asked' = [w \in Workers |-> NoAsk] /\ delivery' = [w \in Workers |-> NoJob]
    BY DEF Restart, Happens, bucketVars, storeVars
<1>2. written \in Nat
    BY Parts
<1>3. AsksOK' /\ JobsOK' /\ StageOK'
    BY <1>1, <1>2, NothingIsAtWork DEF AsksOK, JobsOK, StageOK
<1>4. WorkOK'
    <2> DEFINE k(w) == CASE worker[w].at = "asking" -> NoWork
                         [] worker[w].at = "waiting" -> Going(Tail(worker[w].list))
                         [] OTHER -> worker[w]
    <2>1. worker' = [w \in Workers |-> k(w)]
        BY DEF Restart
    <2>2. ASSUME NEW w \in Workers PROVE k(w) \in WorkType(written) /\ WorkFits(k(w))
        <3>1. worker[w] \in WorkType(written) /\ WorkFits(worker[w])
            BY Parts DEF WorkOK
        <3>2. CASE worker[w].at = "asking"
            <4>1. k(w) = NoWork
                BY <3>2
            <4> QED BY <1>2, <4>1, NothingIsAtWork
        <3>3. CASE worker[w].at = "waiting"
            <4>1. k(w) = Going(Tail(worker[w].list))
                BY <3>3
            <4>2. worker[w].list \in Seq(Entry) /\ worker[w].list # <<>>
                BY <3>1, <3>3 DEF WorkType, WorkFits
            <4>3. Tail(worker[w].list) \in Seq(Entry)
                BY <4>2
            <4> QED BY <1>2, <4>1, <4>3, GoingIsWork
        <3>4. CASE worker[w].at \notin {"asking", "waiting"}
            <4>1. k(w) = worker[w]
                BY <3>4
            <4> QED BY <3>1, <4>1
        <3> QED BY <3>2, <3>3, <3>4
    <2> HIDE DEF k
    <2> QED BY <1>1, <2>1, <2>2 DEF WorkOK
<1>5. CountsOK'
    BY <1>1, Counted
<1> QED BY <1>1, <1>3, <1>4, <1>5, InMemory

LEMMA WorkerFailsStep ==
    ASSUME IInv, NEW w \in Workers, WorkerFails(w)
    PROVE  IInv'
<1>1. /\ UNCHANGED <<bucketVars, storeVars, written, vtt, leased, delivery, local, crossed>>
      /\ events < MaxEvents /\ events' = events + 1
      /\ worker' = [worker EXCEPT ![w] = NoWork] /\ asked' = [asked EXCEPT ![w] = NoAsk]
    BY DEF WorkerFails, Happens, bucketVars, storeVars
<1>2. /\ NoAsk \in AskType(written) /\ AskFits(NoAsk, written)
      /\ NoWork \in WorkType(written) /\ WorkFits(NoWork)
    BY Parts, NothingIsAtWork
<1>3. AsksOK' /\ WorkOK'
    BY <1>1, <1>2, Parts, AskMoves, WorkerMoves
<1>4. CountsOK'
    BY <1>1, Parts, Counted DEF CountsOK
<1> QED BY <1>1, <1>3, <1>4, ActorsStay, InMemory

-----------------------------------------------------------------------------
LEMMA StutterStep ==
    ASSUME IInv, UNCHANGED vars
    PROVE  IInv'
<1>1. UNCHANGED <<bucketVars, storeVars, written, vtt, leased, asked, worker, delivery, local,
                  events, crossed>>
    BY DEF vars, bucketVars, storeVars, actorVars
<1> QED BY <1>1, ActorsStay, InMemory

(* The invariant: whoever is about to record a transcript has put its text *)
(* on disk, in the server's handler and in the stage of this box, and no   *)
(* text that is on disk is taken away.                                     *)
THEOREM TranscriptsInductive == Spec => []IInv
<1>1. ASSUME IInv, [Next]_vars PROVE IInv'
    <2>1. ASSUME NEW w \in Workers, QueueStep(w) PROVE IInv'
        BY <1>1, <2>1, AskQueueStep, PickNeedyStep, LookAtLeaseStep, HandOutStep, AnswerStep
           DEF QueueStep
    <2>2. ASSUME NEW w \in Workers, WorkerStep(w) \/ GiveUp(w) \/ WorkerFails(w) PROVE IInv'
        BY <1>1, <2>2, HearStep, PostStep, GiveUpStep, WorkerFailsStep DEF WorkerStep
    <2>3. ASSUME NEW w \in Workers, DeliveryStep(w) \/ DeliveryFails(w) PROVE IInv'
        BY <1>1, <2>3, DeliveryStepKeeps
    <2>4. CASE StageStep \/ StageFails
        BY <1>1, <2>4, BeginStageStep, StagePicksStep, StageHearsStep, StagePlacesStep,
           StageRecordsStep, StageIndexesStep, StageFailsStep DEF StageStep
    <2>5. ASSUME NEW i \in Ids, ScanStep(i) \/ Lapse(i) PROVE IInv'
        BY <1>1, <2>5, RescanStep, DeleteMissingStep, LapseStep DEF ScanStep
    <2>6. ASSUME NEW i \in Ids, Upload(i) \/ Remove(i) \/ Caption(i) PROVE IInv'
        BY <1>1, <2>6, UploadStep, RemoveStep, CaptionStep
    <2>7. CASE Restart
        BY <1>1, <2>7, RestartStep
    <2>8. CASE UNCHANGED vars
        BY <1>1, <2>8, StutterStep
    <2> QED BY <1>1, <2>1, <2>2, <2>3, <2>4, <2>5, <2>6, <2>7, <2>8 DEF Next, Outside
<1> QED BY InitIInv, <1>1, PTL DEF Spec

(* Every variable of the transcription keeps its type: a queue's answer    *)
(* never exceeds the limit, a worker has a list exactly while it is at     *)
(* work, and no etag or text is newer than the newest content.             *)
THEOREM TranscriptTypes == Spec => []TypeOK
<1>1. ASSUME IInv PROVE TypeOK
    <2>1. /\ file \in [Ids -> 0 .. written] /\ vtt \in [Ids -> 0 .. written]
          /\ cues \in [Ids -> 0 .. written] /\ transcripts \in [Ids -> 0 .. written \cup {None}]
        BY <1>1, Parts DEF BucketOK, HeardOK
    <2>2. ASSUME NEW i \in Known
          PROVE  row[i] \in [etag : 1 .. written, captioned : BOOLEAN, born : 1 .. written]
        <3>1. row[i] \in RowType(written)
            BY <1>1, <2>2, Parts DEF Known, RowsOK, RowsType
        <3> QED BY <3>1, Zenon DEF RowType, Flag
    <2>3. leased \subseteq Ids /\ crossed \subseteq Ids /\ events \in 0 .. MaxEvents
        BY <1>1, Parts DEF CountsOK
    <2>4. ASSUME NEW w \in Workers
          PROVE  /\ asked[w].at \in {"idle", "items", "walking", "signing"}
                 /\ asked[w].todo \subseteq Ids /\ Len(asked[w].list) <= Limit
        BY <1>1, Parts DEF AsksOK, AskType, AskFits
    <2>5. ASSUME NEW w \in Workers
          PROVE  /\ worker[w].at \in {"idle", "asking", "hearing", "posting", "waiting"}
                 /\ \A n \in 1 .. Len(worker[w].list) : worker[w].list[n] \in Entry
                 /\ worker[w].at \notin {"idle", "asking"} <=> worker[w].list # <<>>
        <3>1. worker[w] \in WorkType(written) /\ WorkFits(worker[w])
            BY <1>1, Parts DEF WorkOK
        <3>2. worker[w].list \in Seq(Entry)
            BY <3>1 DEF WorkType
        <3> QED BY <3>1, <3>2 DEF WorkType, WorkFits
    <2>6. ASSUME NEW w \in Workers
          PROVE  delivery[w].at \in {"idle", "body", "row", "cues", "drop"}
        BY <1>1, Parts DEF JobsOK, JobType
    <2>7. /\ local.at \in {"idle", "rows", "hearing", "text", "row", "cues"}
          /\ local.todo \subseteq Entry /\ local.text \in 0 .. written
        <3>1. /\ local.at \in {"idle", "rows", "hearing", "text", "row", "cues"}
              /\ local.todo \subseteq Silent(written) /\ local.text \in 0 .. written
            BY <1>1, Parts DEF StageOK, StageType
        <3>2. Silent(written) \subseteq Entry
            <4>1. 1 .. written \subseteq Nat
                BY <1>1, Parts
            <4> QED BY <4>1 DEF Silent, Entry
        <3> QED BY <3>1, <3>2
    <2> QED BY <2>1, <2>2, <2>3, <2>4, <2>5, <2>6, <2>7 DEF TypeOK
<1> QED BY <1>1, TranscriptsInductive, PTL

(* A row in the transcripts always means a track that can be served,       *)
(* however deliveries and this box's own stage cross, calls fail and the   *)
(* server restarts: both write the text before the row                     *)
(* (handleDeliverTranscript, transcribe).                                  *)
THEOREM RowsMeanTracks == Spec => []RowsAreServable
<1>1. IInv => RowsAreServable
    BY DEF IInv
<1> QED BY <1>1, TranscriptsInductive, PTL
=============================================================================
