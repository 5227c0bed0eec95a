---------------------------- MODULE Transcripts ----------------------------
(***************************************************************************)
(* Transcription: the queue of silent files, workers elsewhere that are    *)
(* handed them under a lease and deliver what they heard, and the server's *)
(* own stage that hears the same files in this box (transcripts.go,        *)
(* main.go, cmd/transcriber).                                              *)
(*                                                                         *)
(* Meanwhile files are replaced and removed, scans move the rows, calls    *)
(* fail or outlive the client that made them, and the server restarts. A   *)
(* content is a number, larger than those before it, and stands for the    *)
(* etag, the sound and the text of the sound alike. An hour is over        *)
(* whenever Lapse says so.                                                 *)
(***************************************************************************)
EXTENDS Integers, FiniteSets, Sequences

CONSTANTS
    Ids,            \* item ids, in the order the queue hands them out
    Workers,
    LocalStage,     \* does this box transcribe, too (TRANSCRIBE, WHISPER_MODEL)
    Limit,          \* how many entries one read of the queue hands out
    Wordless,       \* the contents in which nobody speaks
    MaxEvents,      \* how much may happen from outside
    None

ASSUME TranscriptsAssumption ==
    /\ Ids \subseteq Nat /\ IsFiniteSet(Ids) /\ IsFiniteSet(Workers)
    /\ Limit \in Nat \ {0} /\ MaxEvents \in Nat /\ Wordless \subseteq Nat
    /\ LocalStage \in BOOLEAN

VARIABLES
    file,       \* id -> the content in the bucket, 0 when there is none
    row,        \* id -> the library's row, or None
    transcripts, cues,  \* id -> the etag of its transcript; the text of its lines
    vtt,        \* id -> the text on disk; 0 when there is none
    leased,     \* ids handed out less than an hour ago
    asked,      \* worker -> its read of the queue, inside the server
    worker,     \* worker -> what it does
    delivery,   \* worker -> its delivery, inside the server
    local,      \* the stage in this box
    written,    \* how many contents there were
    events,
    crossed     \* ids two writers were at work on at once

bucketVars == <<file, written>>
storeVars == <<row, transcripts, cues, vtt>>
actorVars == <<asked, worker, delivery, local>>
vars == <<bucketVars, storeVars, leased, actorVars, events, crossed>>

-----------------------------------------------------------------------------
Least(S) == CHOOSE i \in S : \A j \in S : i <= j
Entry == [id : Ids, etag : Nat]

NoAsk == [at |-> "idle", items |-> <<>>, todo |-> {}, list |-> <<>>]
NoWork == [at |-> "idle", list |-> <<>>, text |-> 0]
NoJob == [at |-> "idle", id |-> 0, etag |-> 0, text |-> 0]
NoStage == [at |-> "idle", rows |-> <<>>, todo |-> {}, text |-> 0]

Known == {i \in Ids : row[i] # None}
Etag(i) == IF i \in Known THEN row[i].etag ELSE 0

(* needsTranscript, of a row as it was read and the transcripts as they    *)
(* are. `born` is the first content of the row, which the code has no      *)
(* word for: it tells the films apart that one id stood for.               *)
Needs(i, r) ==
    r # None /\ ~r.captioned /\ transcripts[i] # r.etag

Init ==
    /\ file \in [Ids -> 1 .. 2] /\ written = 2
    /\ row = [i \in Ids |-> [etag |-> file[i], captioned |-> FALSE, born |-> file[i]]]
    /\ transcripts = [i \in Ids |-> None]
    /\ cues = [i \in Ids |-> 0] /\ vtt = [i \in Ids |-> 0]
    /\ leased = {}
    /\ asked = [w \in Workers |-> NoAsk] /\ worker = [w \in Workers |-> NoWork]
    /\ delivery = [w \in Workers |-> NoJob] /\ local = NoStage
    /\ events = 0 /\ crossed = {}

-----------------------------------------------------------------------------
(* handleTranscriptQueue: the rows, the transcripts, then entry by entry   *)
(* the lease is looked at, the address signed and the lease taken: `held`  *)
(* and `hand` each lock for themselves.                                    *)
AskQueue(w) ==
    /\ worker[w].at = "idle" /\ asked[w].at = "idle"
    /\ worker' = [worker EXCEPT ![w].at = "asking"]
    /\ asked' = [asked EXCEPT ![w] = [NoAsk EXCEPT !.at = "items", !.items = row]]
    /\ UNCHANGED <<bucketVars, storeVars, leased, delivery, local, events, crossed>>

PickNeedy(w) ==
    /\ asked[w].at = "items"
    /\ asked' = [asked EXCEPT ![w].at = "walking",
                              ![w].todo = {i \in Ids : Needs(i, asked[w].items[i])}]
    /\ UNCHANGED <<bucketVars, storeVars, leased, worker, delivery, local, events, crossed>>

Passed(w, i) == i \in leased \/ Len(asked[w].list) >= Limit

LookAtLease(w) ==
    /\ asked[w].at = "walking" /\ asked[w].todo # {}
    /\ LET i == Least(asked[w].todo)
       IN  asked' = IF Passed(w, i) THEN [asked EXCEPT ![w].todo = @ \ {i}]
                    ELSE [asked EXCEPT ![w].at = "signing"]
    /\ UNCHANGED <<bucketVars, storeVars, leased, worker, delivery, local, events, crossed>>

HandOut(w) ==
    /\ asked[w].at = "signing"
    /\ LET i == Least(asked[w].todo)
       IN  /\ leased' = leased \cup {i}
           /\ asked' = [asked EXCEPT ![w].at = "walking", ![w].todo = @ \ {i},
                            ![w].list = Append(@, [id |-> i, etag |-> asked[w].items[i].etag])]
    /\ UNCHANGED <<bucketVars, storeVars, worker, delivery, local, events, crossed>>

Going_Unasked(list) ==      \* a mutation: an empty answer is work, too
    [at |-> "hearing", list |-> list, text |-> 0]
Going(list) == IF list = <<>> THEN NoWork ELSE [at |-> "hearing", list |-> list, text |-> 0]

Answer(w) ==
    /\ asked[w].at = "walking" /\ asked[w].todo = {}
    /\ asked' = [asked EXCEPT ![w] = NoAsk]
    /\ worker' = [worker EXCEPT ![w] = Going(asked[w].list)]
    /\ UNCHANGED <<bucketVars, storeVars, leased, delivery, local, events, crossed>>

Lapse_Kept(i) ==    \* a mutation: a lease counts for as long as it is in the map
    i \in leased /\ UNCHANGED vars

Lapse(i) ==
    /\ i \in leased
    /\ leased' = leased \ {i}
    /\ UNCHANGED <<bucketVars, storeVars, actorVars, events, crossed>>

-----------------------------------------------------------------------------
(* The worker hears what is in the bucket by then; nothing there to read   *)
(* is that entry's failure. It posts the text and waits.                   *)
Hear(w) ==
    /\ worker[w].at = "hearing"
    /\ LET it == Head(worker[w].list)
       IN  worker' = [worker EXCEPT ![w] =
                        IF file[it.id] = 0 THEN Going(Tail(@.list))
                        ELSE [@ EXCEPT !.at = "posting", !.text = file[it.id]]]
    /\ UNCHANGED <<bucketVars, storeVars, leased, asked, delivery, local, events, crossed>>

NextEntry(w) == worker' = [worker EXCEPT ![w] = Going(Tail(@.list))]

Accepts_Any(it) ==  \* a mutation: the etag that comes back is not compared
    row[it.id] # None /\ ~row[it.id].captioned
Accepts(it) ==
    row[it.id] # None /\ ~row[it.id].captioned /\ row[it.id].etag = it.etag

(* handleDeliverTranscript reads the row once, then the body.              *)
Post(w) ==
    LET it == Head(worker[w].list)
    IN  /\ worker[w].at = "posting" /\ delivery[w].at = "idle"
        /\ IF Accepts(it)
           THEN /\ worker' = [worker EXCEPT ![w].at = "waiting"]
                /\ delivery' = [delivery EXCEPT ![w] =
                       [at |-> "body", id |-> it.id, etag |-> row[it.id].etag,
                        text |-> worker[w].text]]
           ELSE NextEntry(w) /\ UNCHANGED delivery
        /\ UNCHANGED <<bucketVars, storeVars, leased, asked, local, events, crossed>>

(* The worker's client stops waiting; the handler it called does not.      *)
GiveUp(w) ==
    /\ worker[w].at = "waiting" /\ events < MaxEvents
    /\ events' = events + 1
    /\ NextEntry(w)
    /\ UNCHANGED <<bucketVars, storeVars, leased, asked, delivery, local, crossed>>

(* The end of the call, seen by the worker when it still waits.            *)
Ends(w) ==
    /\ delivery' = [delivery EXCEPT ![w] = NoJob]
    /\ IF worker[w].at = "waiting" THEN NextEntry(w) ELSE UNCHANGED worker

RefuseEmpty(w) ==
    /\ delivery[w].at = "body" /\ delivery[w].text \in Wordless
    /\ Ends(w)
    /\ UNCHANGED <<bucketVars, storeVars, leased, asked, local, events, crossed>>

(* Who is between its look at a file and its row.                          *)
Writing(i) ==
    {w \in Workers : delivery[w].at \in {"body", "row"} /\ delivery[w].id = i}
Hearing(i) ==
    local.at \in {"hearing", "text", "row"} /\ Least({e.id : e \in local.todo}) = i
CrossedWith(i, others) == IF others THEN crossed \cup {i} ELSE crossed

WriteFile_RowFirst(w) ==    \* a mutation: the row is written, the file is to follow
    /\ delivery[w].at = "body" /\ delivery[w].text \notin Wordless
    /\ transcripts' = [transcripts EXCEPT ![delivery[w].id] = delivery[w].etag]
    /\ delivery' = [delivery EXCEPT ![w].at = "row"]
    /\ UNCHANGED <<bucketVars, row, vtt, cues, leased, asked, worker, local, events, crossed>>

WriteFile(w) ==
    LET i == delivery[w].id
    IN  /\ delivery[w].at = "body" /\ delivery[w].text \notin Wordless
        /\ vtt' = [vtt EXCEPT ![i] = delivery[w].text]
        /\ delivery' = [delivery EXCEPT ![w].at = "row"]
        /\ crossed' = CrossedWith(i, Writing(i) # {w} \/ Hearing(i))
        /\ UNCHANGED <<bucketVars, row, transcripts, cues, leased, asked, worker, local, events>>

SetTranscript(w) ==
    /\ delivery[w].at = "row"
    /\ transcripts' = [transcripts EXCEPT ![delivery[w].id] = delivery[w].etag]
    /\ delivery' = [delivery EXCEPT ![w].at = "cues"]
    /\ UNCHANGED <<bucketVars, row, cues, vtt, leased, asked, worker, local, events, crossed>>

(* indexCues reads the file that is on disk.                               *)
SetCues(w) ==
    /\ delivery[w].at = "cues"
    /\ cues' = [cues EXCEPT ![delivery[w].id] = vtt[delivery[w].id]]
    /\ delivery' = [delivery EXCEPT ![w].at = "drop"]
    /\ UNCHANGED <<bucketVars, row, transcripts, vtt, leased, asked, worker, local, events, crossed>>

DropLease(w) ==
    /\ delivery[w].at = "drop"
    /\ leased' = leased \ {delivery[w].id}
    /\ Ends(w)
    /\ UNCHANGED <<bucketVars, storeVars, asked, local, events, crossed>>

DeliveryFails(w) ==
    /\ delivery[w].at \in {"body", "row", "cues"} /\ events < MaxEvents
    /\ events' = events + 1
    /\ Ends(w)
    /\ UNCHANGED <<bucketVars, storeVars, leased, asked, local, crossed>>

-----------------------------------------------------------------------------
(* runTranscribe: one pass over the rows and the transcripts, read one     *)
(* after the other when it began. The leases are not looked at. A file is  *)
(* heard aside and its text renamed into place; one without words gets its *)
(* row here.                                                               *)
Stage(todo) ==
    IF todo = {} THEN NoStage ELSE [NoStage EXCEPT !.at = "hearing", !.todo = todo]
Turn == CHOOSE e \in local.todo : \A f \in local.todo : e.id <= f.id

BeginStage ==
    /\ LocalStage /\ local.at = "idle"
    /\ local' = [NoStage EXCEPT !.at = "rows", !.rows = row]
    /\ UNCHANGED <<bucketVars, storeVars, leased, asked, worker, delivery, events, crossed>>

StagePicks ==
    /\ local.at = "rows"
    /\ local' = Stage({[id |-> i, etag |-> local.rows[i].etag] :
                          i \in {j \in Ids : Needs(j, local.rows[j])}})
    /\ UNCHANGED <<bucketVars, storeVars, leased, asked, worker, delivery, events, crossed>>

StageHears ==
    /\ local.at = "hearing"
    /\ local' = IF file[Turn.id] = 0 THEN Stage(local.todo \ {Turn})
                ELSE [local EXCEPT !.at = "text", !.text = file[Turn.id]]
    /\ UNCHANGED <<bucketVars, storeVars, leased, asked, worker, delivery, events, crossed>>

StagePlaces ==
    /\ local.at = "text"
    /\ vtt' = [vtt EXCEPT ![Turn.id] = local.text]
    /\ local' = [local EXCEPT !.at = "row", !.text = 0]
    /\ crossed' = CrossedWith(Turn.id, Writing(Turn.id) # {})
    /\ UNCHANGED <<bucketVars, row, transcripts, cues, leased, asked, worker, delivery, events>>

StageRecords ==
    /\ local.at = "row"
    /\ transcripts' = [transcripts EXCEPT ![Turn.id] = Turn.etag]
    /\ local' = [local EXCEPT !.at = "cues"]
    /\ UNCHANGED <<bucketVars, row, cues, vtt, leased, asked, worker, delivery, events, crossed>>

StageIndexes ==
    /\ local.at = "cues"
    /\ cues' = [cues EXCEPT ![Turn.id] = IF vtt[Turn.id] \in Wordless THEN 0 ELSE vtt[Turn.id]]
    /\ local' = Stage(local.todo \ {Turn})
    /\ UNCHANGED <<bucketVars, row, transcripts, vtt, leased, asked, worker, delivery, events,
                   crossed>>

StageFails ==
    /\ local.at # "idle" /\ events < MaxEvents
    /\ events' = events + 1
    /\ local' = IF local.at = "rows" THEN NoStage ELSE Stage(local.todo \ {Turn})
    /\ UNCHANGED <<bucketVars, storeVars, leased, asked, worker, delivery, crossed>>

-----------------------------------------------------------------------------
(* The bucket and the scans. DeleteMissing takes the transcript and the    *)
(* lines with the row, and leaves the text on disk; an upload after it is  *)
(* another film under the same id.                                         *)
Happens == events < MaxEvents /\ events' = events + 1

Upload(i) ==
    /\ Happens
    /\ written' = written + 1 /\ file' = [file EXCEPT ![i] = written + 1]
    /\ UNCHANGED <<storeVars, leased, actorVars, crossed>>

Remove(i) ==
    /\ Happens /\ file[i] # 0
    /\ file' = [file EXCEPT ![i] = 0]
    /\ UNCHANGED <<written, storeVars, leased, actorVars, crossed>>

Caption(i) ==
    /\ Happens /\ i \in Known
    /\ row' = [row EXCEPT ![i].captioned = ~@]
    /\ UNCHANGED <<bucketVars, transcripts, cues, vtt, leased, actorVars, crossed>>

Rescan(i) ==
    /\ file[i] \notin {0, Etag(i)}
    /\ row' = [row EXCEPT ![i] =
                  IF @ = None THEN [etag |-> file[i], captioned |-> FALSE, born |-> file[i]]
                  ELSE [@ EXCEPT !.etag = file[i]]]
    /\ UNCHANGED <<bucketVars, transcripts, cues, vtt, leased, actorVars, events, crossed>>

DeleteMissing(i) ==
    /\ file[i] = 0 /\ i \in Known
    /\ row' = [row EXCEPT ![i] = None]
    /\ transcripts' = [transcripts EXCEPT ![i] = None]
    /\ cues' = [cues EXCEPT ![i] = 0]
    /\ UNCHANGED <<bucketVars, vtt, leased, actorVars, events, crossed>>

(* The leases and everything under way in the server are in memory.        *)
Restart ==
    /\ Happens
    /\ leased' = {} /\ local' = NoStage
    /\ asked' = [w \in Workers |-> NoAsk] /\ delivery' = [w \in Workers |-> NoJob]
    /\ worker' = [w \in Workers |->
                     CASE worker[w].at = "asking" -> NoWork
                       [] worker[w].at = "waiting" -> Going(Tail(worker[w].list))
                       [] OTHER -> worker[w]]
    /\ UNCHANGED <<bucketVars, storeVars, crossed>>

(* A worker's read of the queue is lost, or the worker dies.               *)
WorkerFails(w) ==
    /\ Happens /\ worker[w].at # "idle"
    /\ worker' = [worker EXCEPT ![w] = NoWork]
    /\ asked' = [asked EXCEPT ![w] = NoAsk]
    /\ UNCHANGED <<bucketVars, storeVars, leased, delivery, local, crossed>>

-----------------------------------------------------------------------------
QueueStep(w) == AskQueue(w) \/ PickNeedy(w) \/ LookAtLease(w) \/ HandOut(w) \/ Answer(w)
WorkerStep(w) == Hear(w) \/ Post(w)
DeliveryStep(w) ==
    RefuseEmpty(w) \/ WriteFile(w) \/ SetTranscript(w) \/ SetCues(w) \/ DropLease(w)
StageStep ==
    BeginStage \/ StagePicks \/ StageHears \/ StagePlaces \/ StageRecords \/ StageIndexes
ScanStep(i) == Rescan(i) \/ DeleteMissing(i)
Outside ==
    \/ \E i \in Ids : Upload(i) \/ Remove(i) \/ Caption(i)
    \/ \E w \in Workers : GiveUp(w) \/ DeliveryFails(w) \/ WorkerFails(w)
    \/ StageFails \/ Restart

Next ==
    \/ \E w \in Workers : QueueStep(w) \/ WorkerStep(w) \/ DeliveryStep(w)
    \/ \E i \in Ids : ScanStep(i) \/ Lapse(i)
    \/ StageStep \/ Outside

Spec == Init /\ [][Next]_vars

(* A worker asks again for ever, handlers run to their end, the ticker     *)
(* scans, and hours pass. The stage in this box is owed nothing: it yields *)
(* to playback for as long as there is any, and most boxes have none.      *)
Fairness ==
    /\ \A w \in Workers : /\ WF_vars(QueueStep(w)) /\ WF_vars(WorkerStep(w))
                          /\ WF_vars(DeliveryStep(w))
    /\ \A i \in Ids : WF_vars(ScanStep(i)) /\ WF_vars(Lapse(i))
FairSpec == Spec /\ Fairness

-----------------------------------------------------------------------------
TypeOK ==
    /\ file \in [Ids -> 0 .. written] /\ vtt \in [Ids -> 0 .. written]
    /\ cues \in [Ids -> 0 .. written] /\ transcripts \in [Ids -> 0 .. written \cup {None}]
    /\ \A i \in Known : row[i] \in [etag : 1 .. written, captioned : BOOLEAN, born : 1 .. written]
    /\ leased \subseteq Ids /\ crossed \subseteq Ids /\ events \in 0 .. MaxEvents
    /\ \A w \in Workers :
          /\ asked[w].at \in {"idle", "items", "walking", "signing"}
          /\ asked[w].todo \subseteq Ids /\ Len(asked[w].list) <= Limit
          /\ worker[w].at \in {"idle", "asking", "hearing", "posting", "waiting"}
          /\ \A n \in 1 .. Len(worker[w].list) : worker[w].list[n] \in Entry
          /\ worker[w].at \notin {"idle", "asking"} <=> worker[w].list # <<>>
          /\ delivery[w].at \in {"idle", "body", "row", "cues", "drop"}
    /\ local.at \in {"idle", "rows", "hearing", "text", "row", "cues"}
    /\ local.todo \subseteq Entry /\ local.text \in 0 .. written

(* A row in the transcripts always means a track that can be served: the   *)
(* text is on disk before the row is, on both ways to it.                  *)
RowsAreServable == \A i \in Ids : transcripts[i] # None => vtt[i] # 0

(* Every file in which somebody speaks is heard in the end, as it is now:  *)
(* after replacements, lost answers, dead workers and forgotten leases: by *)
(* the workers and the end of the leases alone, with nothing owed by the   *)
(* stage in this box.                                                      *)
Heard(i) ==
    \/ i \notin Known \/ row[i].captioned \/ file[i] \in Wordless
    \/ transcripts[i] = row[i].etag
EverySilentFileIsHeard == <>[](\A i \in Ids : Heard(i))

(* And its text is the text of that file, unless two writers were at work  *)
(* on it at once.                                                          *)
TextOfTheFile(i) ==
    (i \in Known /\ ~row[i].captioned /\ file[i] \notin Wordless) => vtt[i] = row[i].etag
TextFollowsTheFile == \A i \in Ids : <>(i \in crossed) \/ <>[]TextOfTheFile(i)

Holds(w, i) == \E n \in 1 .. Len(worker[w].list) : worker[w].list[n].id = i

(* What transcripts.go and README.md say of the leases: two workers do not *)
(* hear the same film. The code does not keep it: README, section 6.       *)
TwoDoNotHearOneFilm ==
    \A v, w \in Workers, i \in leased : v # w => ~(Holds(v, i) /\ Holds(w, i))

(* What worker.go says: the etag is what makes the delivery safe.          *)
(* The code does not keep it: README, section 6.                           *)
TextAlwaysFollowsTheFile == \A i \in Ids : <>[]TextOfTheFile(i)

(* What DeleteMissing says: a transcript and its lines belong to the file, *)
(* not to the id the next scan may hand to another one.                    *)
(* The code does not keep it: README, section 6.                           *)
WordsStayWithTheirFile ==
    \A i \in Known : /\ transcripts[i] # None => transcripts[i] >= row[i].born
                     /\ cues[i] # 0 => cues[i] >= row[i].born
=============================================================================
