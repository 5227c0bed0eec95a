---------------------------- MODULE PlaySessions ----------------------------
(***************************************************************************)
(* cmd/server's registry of plays (session.go) and every handler that      *)
(* reads or writes it: play, read, next, progress on a session and on the  *)
(* legacy route, watched, forget, keep_watching, the marks, stop; the      *)
(* stream fetches and the reaper loop. A handler is a thread: each lock    *)
(* section or store call is one step, and threads interleave between them. *)
(***************************************************************************)
EXTENDS StreamManager, Sequences, FiniteSets

CONSTANTS
    Threads,        \* requests that can be in flight at once
    Items, Profiles, Works,
    Order,          \* Works -> the ids of its members in playing order
    Extras,         \* the members that are bonus material
    Methods,        \* Items -> what the decision may answer: direct, transcode, read
    PassageInputs,  \* passages a play or a read can carry
    MarkInputs,     \* Profiles -> what that profile posts as marks: seconds, None clears
    PlaceWriters,   \* profiles whose clients move, mark or forget places
    Vanishing,      \* sessions whose client may vanish without a word
    Chapters, Snap, \* Items -> chapter starts; chapterSnapSeconds
    MarkMemoTTL, ReadIdle, PlaylistWait   \* in ticks, as MaxIdle is

Rules == INSTANCE PassageRules

MethodNames == {"direct", "transcode", "read"}

ASSUME SessionsAssumption ==
    /\ Items \subseteq Nat /\ Extras \subseteq Items
    /\ Order \in [Works -> Seq(Items)]
    /\ Methods \in [Items -> SUBSET MethodNames]
    /\ PassageInputs \subseteq Rules!PassageInput
    /\ MarkInputs \in [Profiles -> SUBSET (Int \cup {None})]
    /\ PlaceWriters \subseteq Profiles /\ Vanishing \subseteq Sessions
    /\ Chapters \in [Items -> SUBSET Nat]
    /\ {Snap, MarkMemoTTL, ReadIdle, PlaylistWait} \subseteq Nat
    /\ PlaylistWait <= MaxIdle

VARIABLES
    rows,       \* id -> the play session, or None
    memo,       \* <<profile, work>> -> the half-made passage kept a moment, or None
    place,      \* <<item, profile>> -> whether state.db keeps a place
    req,        \* thread -> the request it is serving
    minted,     \* session ids handed out so far
    left        \* sessions whose client has gone and asks for nothing more

sessionVars == <<rows, memo, place, req, minted, left>>
vars == <<streamVars, sessionVars>>

-----------------------------------------------------------------------------
Row == [item : Items, profile : Profiles, method : MethodNames,
        passage : Rules!Passage \cup {None}, marks : Rules!Marks, age : Nat]
Memo == [marks : Rules!Marks, age : Nat]

ASSUME NoneAssumption == None \notin Int \cup Row \cup Rules!PassageInput
                                       \cup MethodNames \cup {"in", "out"} \cup Sessions

(* A request: where it is, and what its handler holds on its stack.        *)
Stages == {"idle", "inherit", "act", "enter", "wait", "unwind", "write", "clear",
           "keep", "mark", "remember", "kill", "drop"}
Request == [at : Stages, id : Sessions \cup {None}, item : Items \cup {None},
            profile : Profiles \cup {None}, passage : Rules!Passage \cup {None},
            marks : Rules!Marks, kind : {"in", "out", None},
            seconds : Int \cup {None}, members : Seq(Items)]
Idle == [at |-> "idle", id |-> None, item |-> None, profile |-> None,
         passage |-> None, marks |-> Rules!NoMarks, kind |-> None,
         seconds |-> None, members |-> <<>>]

TypeOK ==
    /\ StreamTypeOK
    /\ rows \in [Sessions -> Row \cup {None}]
    /\ memo \in [Profiles \X Works -> Memo \cup {None}]
    /\ place \in [Items \X Profiles -> BOOLEAN]
    /\ req \in [Threads -> Request]
    /\ minted \subseteq Sessions
    /\ left \subseteq Sessions

Init ==
    /\ StreamInit
    /\ rows = [s \in Sessions |-> None]
    /\ memo = [k \in Profiles \X Works |-> None]
    /\ place = [k \in Items \X Profiles |-> FALSE]
    /\ req = [th \in Threads |-> Idle]
    /\ minted = {}
    /\ left = {}

-----------------------------------------------------------------------------
(* works.ByItem and works.Neighbours over a library that stands still.     *)
Members(w) == {Order[w][i] : i \in DOMAIN Order[w]}
WorkOf(item) ==
    IF \E w \in Works : item \in Members(w)
    THEN CHOOSE w \in Works : item \in Members(w) ELSE None
memberOrder(item) == IF WorkOf(item) = None THEN <<>> ELSE Order[WorkOf(item)]
nextMember(item) ==     \* bonus material has no neighbours and is none
    LET order == memberOrder(item)
        later == {i \in DOMAIN order : i > Rules!placeIn(order, item) /\ order[i] \notin Extras}
    IN  IF item \in Extras \/ later = {} THEN None
        ELSE order[CHOOSE i \in later : \A j \in later : i <= j]

On(s) == rows[s] # None
Touched(s) == [rows EXCEPT ![s].age = 0]

(* passageOn: some live session has a passage on for the item and profile. *)
passageOn(item, profile) ==
    \E s \in Sessions : /\ On(s) /\ rows[s].item = item
                        /\ rows[s].profile = profile /\ rows[s].passage # None

(* remember: the marks outlive their row, or are forgotten when none.      *)
Remembered(row, marks) ==
    IF WorkOf(row.item) = None THEN memo
    ELSE [memo EXCEPT ![<<row.profile, WorkOf(row.item)>>] =
            IF marks = Rules!NoMarks THEN None ELSE [marks |-> marks, age |-> 0]]

marksInWork_AnyProfile(profile, item) ==    \* a mutation: the key lost its profile
    IF WorkOf(item) = None THEN Rules!NoMarks
    ELSE LET made == {p \in Profiles : memo[<<p, WorkOf(item)>>] # None}
         IN  IF made = {} THEN Rules!NoMarks
             ELSE memo[<<CHOOSE p \in made : TRUE, WorkOf(item)>>].marks

marksInWork(profile, item) ==
    IF WorkOf(item) = None THEN Rules!NoMarks
    ELSE LET m == memo[<<profile, WorkOf(item)>>]
         IN  IF m = None \/ m.age > MarkMemoTTL THEN Rules!NoMarks ELSE m.marks

(* A thread takes up a request, moves to a later stage of it, answers it.  *)
Begin(th, r) == req[th].at = "idle" /\ req' = [req EXCEPT ![th] = r]
At(th, stage) == req[th].at = stage
Goto(th, stage) == req' = [req EXCEPT ![th].at = stage]
Answer(th) == req' = [req EXCEPT ![th] = Idle]

(* An id is told in the answer: nobody can name it while act still works.  *)
Known(s) ==
    /\ s \in minted \ left
    /\ \A th \in Threads :
            req[th].id = s => req[th].at \notin {"enter", "wait", "unwind"}

(* A request on a live session, from a client that is still there; get     *)
(* copies the row and touches it.                                          *)
Get(s) == On(s) /\ s \notin left /\ rows' = Touched(s)

-----------------------------------------------------------------------------
(* Starting one: play and next come to act with the item, the profile and  *)
(* the passage; act inherits the marks, then does what was decided.        *)
Play(th, item, profile, input) ==
    /\ Begin(th, [Idle EXCEPT !.at = "inherit", !.item = item, !.profile = profile,
                    !.passage = IF input = None THEN None
                                ELSE Rules!resolvePassage(input, item)])
    /\ UNCHANGED <<streamVars, rows, memo, place, minted, left>>

Next_(th, s) ==
    /\ Get(s)
    /\ nextMember(rows[s].item) # None
    /\ Begin(th, [Idle EXCEPT !.at = "inherit", !.item = nextMember(rows[s].item),
                    !.profile = rows[s].profile,
                    !.passage = Rules!passageForNext(rows[s].passage,
                                                     nextMember(rows[s].item))])
    /\ UNCHANGED <<streamVars, memo, place, minted, left>>

Inherit(th) ==
    /\ At(th, "inherit")
    /\ req' = [req EXCEPT ![th].at = "act",
                          ![th].marks = marksInWork(req[th].profile, req[th].item)]
    /\ UNCHANGED <<streamVars, rows, memo, place, minted, left>>

Put(s, r, method) ==
    rows' = [rows EXCEPT ![s] = [item |-> r.item, profile |-> r.profile,
                method |-> method, passage |-> r.passage, marks |-> r.marks, age |-> 0]]

PutDirect_AnyId(th, s) ==   \* a mutation: the id may be one already in use
    /\ At(th, "act") /\ "direct" \in Methods[req[th].item]
    /\ minted' = minted \cup {s}
    /\ Put(s, req[th], "direct")
    /\ Answer(th)
    /\ UNCHANGED <<streamVars, memo, place, left>>

PutDirect(th, s) ==
    /\ At(th, "act") /\ "direct" \in Methods[req[th].item] /\ s \notin minted
    /\ minted' = minted \cup {s}
    /\ Put(s, req[th], "direct")
    /\ Answer(th)
    /\ UNCHANGED <<streamVars, memo, place, left>>

StartTranscode(th, s) ==
    /\ At(th, "act") /\ "transcode" \in Methods[req[th].item] /\ s \notin minted
    /\ minted' = minted \cup {s}
    /\ StartProcess(s)
    /\ req' = [req EXCEPT ![th].at = "enter", ![th].id = s]
    /\ UNCHANGED <<rows, memo, place, left>>

EnterStream(th) ==
    /\ At(th, "enter")
    /\ Enter(req[th].id)
    /\ Goto(th, "wait")
    /\ UNCHANGED <<rows, memo, place, minted, left>>

(* WaitForPlaylist answered in time, or did not and the stream is stopped. *)
PutTranscode(th) ==
    /\ At(th, "wait")
    /\ Put(req[th].id, req[th], "transcode")
    /\ Answer(th)
    /\ UNCHANGED <<streamVars, memo, place, minted, left>>

NoPlaylist_Forgets(th) ==   \* a mutation: the failed play leaves its stream
    /\ At(th, "wait")
    /\ Answer(th)
    /\ UNCHANGED <<streamVars, rows, memo, place, minted, left>>

NoPlaylist(th) ==
    /\ At(th, "wait")
    /\ Remove(req[th].id)
    /\ Goto(th, "unwind")
    /\ UNCHANGED <<procs, reaper, rows, memo, place, minted, left>>

Unwind(th) ==
    /\ At(th, "unwind")
    /\ Kill(req[th].id)
    /\ Answer(th)
    /\ UNCHANGED <<streams, reaper, rows, memo, place, minted, left>>

(* The decision denies the file, or the storage cannot sign its address.   *)
Refuse(th) ==
    /\ At(th, "act")
    /\ Answer(th)
    /\ UNCHANGED <<streamVars, rows, memo, place, minted, left>>

(* A book: the session keeps the text half of the passage and no marks.    *)
Read(s, item, profile, input) ==
    /\ "read" \in Methods[item] /\ s \notin minted
    /\ minted' = minted \cup {s}
    /\ Put(s, [item |-> item, profile |-> profile, marks |-> Rules!NoMarks,
               passage |-> IF input = None THEN None
                           ELSE Rules!textPassage(Rules!resolvePassage(input, item))],
           "read")
    /\ UNCHANGED <<streamVars, memo, place, req, left>>

-----------------------------------------------------------------------------
(* The place. A session's own write asks the copy of its row that get gave *)
(* whether a passage is on; the legacy route and watched ask the registry. *)
ToWrite(th, stage, item, profile, s) ==
    Begin(th, [Idle EXCEPT !.at = stage, !.item = item, !.profile = profile,
                           !.id = s, !.members = <<item>>])

Progress_Always(th, s) ==   \* a mutation: the passage is not asked about
    /\ Get(s)
    /\ rows[s].profile \in PlaceWriters
    /\ ToWrite(th, "write", rows[s].item, rows[s].profile, s)
    /\ UNCHANGED <<streamVars, memo, place, minted, left>>

Progress(th, s) ==
    /\ Get(s)
    /\ rows[s].passage = None /\ rows[s].profile \in PlaceWriters
    /\ ToWrite(th, "write", rows[s].item, rows[s].profile, s)
    /\ UNCHANGED <<streamVars, memo, place, minted, left>>

SetProgress(th, item, profile, stage) ==
    /\ ~passageOn(item, profile)
    /\ ToWrite(th, stage, item, profile, None)
    /\ UNCHANGED <<streamVars, rows, memo, place, minted, left>>

(* forget clears every member of the item's work, one row at a time, and   *)
(* asks nothing of the registry.                                           *)
Forget(th, item, profile) ==
    /\ Begin(th, [Idle EXCEPT !.at = "clear", !.item = item, !.profile = profile,
                    !.members = IF WorkOf(item) = None THEN <<item>>
                                ELSE memberOrder(item)])
    /\ UNCHANGED <<streamVars, rows, memo, place, minted, left>>

SetPlace(th) ==
    /\ At(th, "write")
    /\ place' = [place EXCEPT ![<<req[th].item, req[th].profile>>] = TRUE]
    /\ Answer(th)
    /\ UNCHANGED <<streamVars, rows, memo, minted, left>>

ClearPlace(th) ==
    /\ At(th, "clear")
    /\ place' = [place EXCEPT ![<<Head(req[th].members), req[th].profile>>] = FALSE]
    /\ IF Len(req[th].members) = 1 THEN Answer(th)
       ELSE req' = [req EXCEPT ![th].members = Tail(@)]
    /\ UNCHANGED <<streamVars, rows, memo, minted, left>>

-----------------------------------------------------------------------------
(* keep_watching: get, then update under the lock.                         *)
KeepWatching(th, s) ==
    /\ Get(s)
    /\ Begin(th, [Idle EXCEPT !.at = "keep", !.id = s])
    /\ UNCHANGED <<streamVars, memo, place, minted, left>>

ClearPassage(th) ==
    /\ At(th, "keep")
    /\ rows' = IF On(req[th].id)
               THEN [rows EXCEPT ![req[th].id].passage = None, ![req[th].id].age = 0]
               ELSE rows
    /\ Answer(th)
    /\ UNCHANGED <<streamVars, memo, place, minted, left>>

(* A mark: get, update under the lock, then remember the updated copy. The *)
(* `seconds` of a clear is None.                                           *)
Mark(th, s, kind, seconds) ==
    /\ Get(s)
    /\ Begin(th, [Idle EXCEPT !.at = "mark", !.id = s, !.item = rows[s].item,
                    !.profile = rows[s].profile, !.kind = kind, !.seconds = seconds])
    /\ UNCHANGED <<streamVars, memo, place, minted, left>>

(* The second a client's position marks in an item.                        *)
snapped(item, pos) == Rules!snapToChapter(Rules!markSeconds(pos), Chapters[item], Snap)

Marked(r) ==
    LET m == [item |-> r.item, seconds |-> snapped(r.item, r.seconds)]
    IN  IF r.seconds = None THEN Rules!clearMark(rows[r.id].marks, r.kind)
        ELSE Rules!setMark(rows[r.id].marks, r.kind, m, memberOrder(r.item))

UpdateMarks(th) ==
    /\ At(th, "mark")
    /\ IF On(req[th].id)
       THEN /\ rows' = [rows EXCEPT ![req[th].id].marks = Marked(req[th]),
                                    ![req[th].id].age = 0]
            /\ req' = [req EXCEPT ![th].at = "remember", ![th].marks = Marked(req[th])]
       ELSE rows' = rows /\ Answer(th)
    /\ UNCHANGED <<streamVars, memo, place, minted, left>>

Remember(th) ==
    /\ At(th, "remember")
    /\ memo' = Remembered(req[th], req[th].marks)
    /\ Answer(th)
    /\ UNCHANGED <<streamVars, rows, place, minted, left>>

(* Reading the document or the minted link only touches the row.           *)
Look(s) ==
    /\ Get(s)
    /\ UNCHANGED <<streamVars, memo, place, req, minted, left>>

-----------------------------------------------------------------------------
(* stop: the stream first (entry, then process), then the row, whose marks *)
(* are remembered after the registry is unlocked.                          *)
Stop(th, s) ==
    /\ Known(s)
    /\ Begin(th, [Idle EXCEPT !.at = IF Live(s) THEN "kill" ELSE "drop", !.id = s])
    /\ Remove(s)
    /\ UNCHANGED <<procs, reaper, rows, memo, place, minted, left>>

StopKill_Forgets(th) ==     \* a mutation: the entry goes, the process stays
    /\ At(th, "kill")
    /\ Goto(th, "drop")
    /\ UNCHANGED <<streamVars, rows, memo, place, minted, left>>

StopKill(th) ==
    /\ At(th, "kill")
    /\ Kill(req[th].id)
    /\ Goto(th, "drop")
    /\ UNCHANGED <<streams, reaper, rows, memo, place, minted, left>>

Drop(th) ==
    /\ At(th, "drop")
    /\ LET row == rows[req[th].id]
       IN  IF row = None THEN Answer(th)
           ELSE req' = [req EXCEPT ![th].at = "remember", ![th].item = row.item,
                            ![th].profile = row.profile, ![th].marks = row.marks]
    /\ rows' = [rows EXCEPT ![req[th].id] = None]
    /\ UNCHANGED <<streamVars, memo, place, minted, left>>

-----------------------------------------------------------------------------
(* A segment or playlist fetch.                                            *)
Fetch(s) ==
    /\ Live(s) /\ Known(s)
    /\ Touch(s)
    /\ UNCHANGED <<procs, reaper, sessionVars>>

(* The sweep of the rows, under the registry's lock: a transcode row goes  *)
(* when its stream has, any other when it has been idle too long.          *)
Gone_KeepsTranscodes(row, s) ==     \* a mutation: only idle rows are swept
    row.method # "transcode" /\ row.age > MaxIdle
Gone(row, s) ==
    CASE row.method = "transcode" -> ~Live(s)
      [] row.method = "read"      -> row.age > ReadIdle
      [] OTHER                    -> row.age > MaxIdle
ReapRows ==
    /\ reaper.at = "sweeping"
    /\ rows' = [s \in Sessions |-> IF On(s) /\ Gone(rows[s], s) THEN None ELSE rows[s]]
    /\ reaper' = [reaper EXCEPT !.at = "asleep"]
    /\ UNCHANGED <<procs, streams, memo, place, req, minted, left>>

(* The clock. Nobody waits for a playlist longer than its timeout.         *)
AgedRow(row) ==     \* a transcode's age is never asked for
    [row EXCEPT !.age = IF row.method = "transcode" THEN @
                        ELSE Aged(@, IF row.method = "read" THEN ReadIdle ELSE MaxIdle)]
Tick ==
    /\ \A th \in Threads : At(th, "wait") =>
            streams[req[th].id] = None \/ streams[req[th].id] < PlaylistWait
    /\ AgeStreams
    /\ rows' = [s \in Sessions |-> IF On(s) THEN AgedRow(rows[s]) ELSE None]
    /\ memo' = [k \in DOMAIN memo |-> IF memo[k] = None THEN None
                    ELSE [memo[k] EXCEPT !.age = Aged(@, MarkMemoTTL)]]
    /\ UNCHANGED <<procs, reaper, place, req, minted, left>>

(* The tab is closed, the cast device unplugged: no word is sent.          *)
Leave(s) ==
    /\ s \in (minted \cap Vanishing) \ left
    /\ left' = left \cup {s}
    /\ UNCHANGED <<streamVars, rows, memo, place, req, minted>>

-----------------------------------------------------------------------------
(* The rest of a handler that has begun, and the reaper loop's steps.      *)
Continue(th) ==
    \/ Inherit(th) \/ EnterStream(th) \/ PutTranscode(th) \/ NoPlaylist(th)
    \/ Unwind(th) \/ Refuse(th) \/ SetPlace(th) \/ ClearPlace(th) \/ ClearPassage(th)
    \/ UpdateMarks(th) \/ Remember(th) \/ StopKill(th) \/ Drop(th)
    \/ \E s \in Sessions : PutDirect(th, s) \/ StartTranscode(th, s)

Arrive(th) ==
    \/ \E i \in Items, p \in Profiles, in \in PassageInputs \cup {None} :
            Methods[i] \cap {"direct", "transcode"} # {} /\ Play(th, i, p, in)
    \/ \E s \in Sessions : Next_(th, s) \/ Progress(th, s) \/ KeepWatching(th, s)
                           \/ Stop(th, s)
    \/ \E s \in Sessions, kind \in {"in", "out"} : On(s) /\
            \E sec \in MarkInputs[rows[s].profile] : Mark(th, s, kind, sec)
    \/ \E i \in Items, p \in PlaceWriters : Forget(th, i, p)
    \/ \E i \in Items, p \in PlaceWriters, stage \in {"write", "clear"} :
            SetProgress(th, i, p, stage)

ReapLoop ==
    \/ ReapCollect /\ UNCHANGED sessionVars
    \/ (\E s \in Sessions : ReapStop(s)) /\ UNCHANGED sessionVars
    \/ ReapKill /\ UNCHANGED sessionVars
    \/ ReapDone /\ UNCHANGED sessionVars
    \/ ReapRows

Next ==
    \/ \E th \in Threads : Arrive(th) \/ Continue(th)
    \/ \E s \in Sessions, i \in Items, p \in Profiles,
          in \in PassageInputs \cup {None} : Read(s, i, p, in)
    \/ \E s \in Sessions : Look(s) \/ Fetch(s) \/ Leave(s)
                           \/ (Exit(s) /\ UNCHANGED sessionVars)
    \/ ReapLoop
    \/ Tick

Spec == Init /\ [][Next]_vars

(* A handler that has begun runs on, the reaper's ticker fires, time goes  *)
(* by; nothing makes a client ask for anything.                            *)
Fairness ==
    /\ \A th \in Threads : WF_vars(Continue(th))
    /\ WF_vars(ReapLoop)
    /\ WF_vars(Tick)
LiveSpec == Spec /\ Fairness

-----------------------------------------------------------------------------
(* Rule 3 of a passage, as a session's own progress action keeps it: the   *)
(* handler decides on a COPY of the row and writes later, and still no     *)
(* write is on its way from a session whose passage is on                  *)
(* (handleSessionProgress).                                                *)
OwnPassageHolds ==
    \A th \in Threads :
        At(th, "write") /\ req[th].id # None /\ On(req[th].id)
            => rows[req[th].id].passage = None

(* What the stages of a handler hold, and whose the ids are: the facts the *)
(* safety properties rest on. Each is kept by every step given the others. *)
Carries(r) ==
    /\ r.at \in {"inherit", "act", "enter", "wait", "write", "mark"}
            => r.item \in Items /\ r.profile \in Profiles
    /\ r.at \in {"enter", "wait", "unwind", "keep", "mark", "kill", "drop"}
            => r.id \in Sessions
    /\ r.at = "mark" => r.kind # None
    /\ r.at = "clear" => r.members # <<>>
RequestsCarry == \A th \in Threads : Carries(req[th])

(* A play that is being started has its id to itself: no row and no other  *)
(* request knows it yet (the id is told only in the answer).               *)
Starting(th) == req[th].at \in {"enter", "wait", "unwind"}
IdsAreFresh ==
    /\ \A s \in Sessions : On(s) \/ Live(s) => s \in minted
    /\ \A th \in Threads : req[th].id # None => req[th].id \in minted
    /\ \A th \in Threads : Starting(th) =>
            /\ ~On(req[th].id)
            /\ \A u \in Threads \ {th} : req[u].id # req[th].id

(* Only a transcode's row has a stream, and a stop takes it before the row.*)
StreamsBelong ==
    /\ \A s \in Sessions : On(s) /\ rows[s].method # "transcode" => ~Live(s)
    /\ \A th \in Threads : req[th].at \in {"kill", "drop"} => ~Live(req[th].id)

(* A passage ends and never comes back, and a session is one item for one  *)
(* profile by one method as long as its row lives (put only takes new ids, *)
(* update only clears the passage and sets marks).                         *)
KeepsItsItem(s) ==
    On(s) /\ On(s)' =>
        /\ rows'[s].passage \in {rows[s].passage, None}
        /\ rows'[s].item = rows[s].item
        /\ rows'[s].profile = rows[s].profile
        /\ rows'[s].method = rows[s].method
SessionsKeepTheirItem == [][\A s \in Sessions : KeepsItsItem(s)]_vars

(* Every running ffmpeg is known to the stream table, or a step that has   *)
(* begun is about to enter or kill it: none transcodes on with nobody to   *)
(* stop it (Create, Stop, the unwinding of a failed play, the reaper).     *)
NoOrphanProcess ==
    \A s \in procs :
        \/ Live(s)
        \/ \E th \in Threads : req[th].id = s /\ req[th].at \in {"enter", "unwind", "kill"}
        \/ reaper.at = "killing" /\ reaper.id = s

(* Every stream in the table belongs to a session row, or to a play that   *)
(* still waits for its playlist: a stop and both reapers take the stream   *)
(* away before the row that names it (handleStopSession, reapIdle).        *)
StreamHasOwner ==
    \A s \in Sessions : Live(s) =>
        On(s) \/ \E th \in Threads : At(th, "wait") /\ req[th].id = s

(* Marks never leave the profile and the work they were made in, however   *)
(* they travel from session to session through the memo (memoKey).         *)
MarksStayHome ==
    \A s \in Sessions : On(s) =>
        \A m \in {rows[s].marks.in, rows[s].marks.out} \ {None} :
            /\ m.seconds \in {snapped(m.item, x) : x \in MarkInputs[rows[s].profile] \ {None}}
            /\ WorkOf(m.item) = WorkOf(rows[s].item)

(* The in point lies before the out point in the order of the work, and    *)
(* the passage that two marks in one file mint survives its own link: the  *)
(* grammar drops none of it (setMark, markedPassage, resolvePassage).      *)
MarksMintAWholePassage ==
    \A s \in Sessions : On(s) =>
        LET m == rows[s].marks
            p == Rules!markedPassage(m)
        IN  m.in # None /\ m.out # None =>
              /\ Rules!Before(m.in, m.out, memberOrder(rows[s].item))
              /\ m.in.item = m.out.item => Rules!resolvePassage(p, m.in.item) = p

(* A client that vanishes without a word leaves nothing behind: its row,   *)
(* its stream and its ffmpeg all go (the reaper loop of main.go).          *)
VanishedClientIsReaped ==
    \A s \in Sessions :
        s \in left ~> (~On(s) /\ ~Live(s) /\ s \notin procs)

(* What docs/hypermedia.md says of every place write: while a passage is   *)
(* on for an item and a profile, their place does not move.                *)
PlaceHeldByPassage ==
    [][\A i \in Items, p \in Profiles :
        passageOn(i, p) => place'[<<i, p>>] = place[<<i, p>>]]_vars

(* What README.md says of a run's bounds: `t` applies to the first item    *)
(* only and `end` within the last, so a marked run's link keeps its end.   *)
(* The code does not keep it: README, section 6.                           *)
MintedRunKeepsItsEnd ==
    \A s \in Sessions : On(s) /\ rows[s].marks.in # None =>
        LET p == Rules!markedPassage(rows[s].marks)
        IN  Rules!resolvePassage(p, rows[s].marks.in.item).end = p.end

(* What ReapIdle's comment says: it stops the streams nobody has fetched   *)
(* from within maxIdle, so one it takes out of the table is still idle.    *)
(* The code does not keep it: README, section 6.                           *)
OnlyIdleStreamsReaped ==
    [][\A s \in Sessions :
        reaper.at = "stopping" /\ reaper'.at = "killing" /\ reaper'.id = s
            => streams[s] > MaxIdle]_vars

(* The safety of the registry and the streams together, and what it takes  *)
(* to be kept by every step.                                               *)
Safe == IdsAreFresh /\ StreamsBelong /\ OwnPassageHolds /\ NoOrphanProcess /\ StreamHasOwner
IInv == TypeOK /\ RequestsCarry /\ Safe
=============================================================================
