----------------------------- MODULE Converter -----------------------------
(***************************************************************************)
(* cmd/converter: the worker that rewrites the house's films, in place,    *)
(* into the one shape every device plays. Its plan is made of a scan that  *)
(* may be old, a file takes it hours, and the bucket is everybody's: files *)
(* are brought and taken away between any two of its steps, every call may *)
(* fail and the worker may be killed.                                      *)
(*                                                                         *)
(* A film is a folder and a stem; its objects are its original and the MP4 *)
(* the worker makes. A shape is a name for what a probe says of a file.    *)
(***************************************************************************)
EXTENDS Formats

CONSTANTS
    Films,
    Shapes,         \* the shapes people bring files in
    Tracks,         \* the picture subtitles of a file that has any
    KeepOriginal,   \* KEEP_ORIGINAL: the source object stays beside the new one
    MaxEvents,      \* how often people act, calls fail and the worker is killed
    Probe,          \* shape -> what a probe says of such a file
    Media,          \* the files of the house, and
    Devices         \* the devices they are played on

ASSUME ConverterAssumption ==
    /\ Shapes \cup {"plain"} \subseteq DOMAIN Probe
    /\ IsFiniteSet(Films) /\ IsFiniteSet(Tracks) /\ MaxEvents \in Nat
    /\ KeepOriginal \in BOOLEAN /\ Media \subseteq File

(* "plain" is the shape of what the worker makes.                          *)
ASSUME PlainAssumption == \E m \in Media : Probe["plain"] = Converted(m)

(* The server's policy is DefaultPolicy; the devices are the profiles of   *)
(* the web client.                                                         *)
ASSUME HouseAssumption ==
    /\ Policy.video = "h264" /\ Policy.audio = "aac" /\ Policy.lines \in Nat \ {0}
    /\ None \notin {Policy.video, Policy.audio}
    /\ \A device \in Devices : TakesOurs(device)

VARIABLES
    obj,        \* <<film, container>> -> the object there, or None
    read,       \* film -> picture track -> the content its sidecar was read from
    rows,       \* the library: a copy of obj as the last scan saw it
    worker,     \* what the worker is doing
    stamp,      \* how many objects were ever written: their etags
    events,
    latest, disturbed   \* of films, as Shelf has them

bucketVars == <<obj, read, stamp>>
vars == <<bucketVars, rows, worker, events, latest, disturbed>>

Containers == {"original", "mp4"}
FilmKeys == Films \X Containers
(* `was` is the shape a content was brought in, which the code has no word *)
(* for.                                                                    *)
Object == [etag : Nat, content : Nat, shape : Shapes \cup {"plain"}, was : Shapes]

ASSUME NoneAssumption == None \notin FilmKeys \cup Object

Brought(n, shape) == [etag |-> n, content |-> n, shape |-> shape, was |-> shape]

-----------------------------------------------------------------------------
(* ConvertPlan, of the row's probe. The result takes the film's .mp4 key.  *)
Plans == [shape \in DOMAIN Probe |-> ConvertPlan(Probe[shape])]
Plan(shape) == Plans[shape].action
HasPictures(shape) == Plans[shape].bitmap # {}
OutKey(key) == <<key[1], "mp4">>

Off == [at |-> "off", card |-> FALSE, jobs |-> {}, key |-> None, etag |-> 0, shape |-> "plain",
        tracks |-> {}, text |-> 0, out |-> None, unseen |-> FALSE]
Job(key) == [key |-> key, etag |-> rows[key].etag, shape |-> rows[key].shape]
Here == {key \in FilmKeys : obj[key] # None}
InLibrary == {key \in FilmKeys : rows[key] # None}

Init ==
    /\ \E there \in SUBSET (Films \X Shapes) :
          /\ \A f \in Films : Cardinality({x \in there : x[1] = f}) <= 1
          /\ obj = [key \in FilmKeys |->
                       IF key[2] = "original" /\ \E s \in Shapes : <<key[1], s>> \in there
                       THEN Brought(1, CHOOSE s \in Shapes : <<key[1], s>> \in there)
                       ELSE None]
          /\ latest = [f \in Films |-> IF \E s \in Shapes : <<f, s>> \in there THEN 1 ELSE 0]
    /\ stamp = 1 /\ read = [f \in Films |-> [t \in Tracks |-> 0]]
    /\ rows = obj
    /\ worker = Off /\ events = 0 /\ disturbed = {}

-----------------------------------------------------------------------------
(* The process starts: one second of an encode says whether there is a     *)
(* card. Then pass after pass: the item list, the plan, the files.         *)
Start ==
    /\ worker.at = "off"
    /\ \E card \in BOOLEAN : worker' = [Off EXCEPT !.at = "asleep", !.card = card]
    /\ UNCHANGED <<bucketVars, rows, events, latest, disturbed>>

ReadLibrary_All ==  \* a mutation: skips are jobs, too
    /\ worker.at = "asleep"
    /\ worker' = [worker EXCEPT !.at = "choosing", !.jobs = {Job(key) : key \in InLibrary}]
    /\ UNCHANGED <<bucketVars, rows, events, latest, disturbed>>

ReadLibrary ==
    /\ worker.at = "asleep"
    /\ LET jobs == {Job(key) : key \in {k \in InLibrary : Plan(rows[k].shape) # "skip"}}
       IN  worker' = IF jobs = {} THEN worker
                     ELSE [worker EXCEPT !.at = "choosing", !.jobs = jobs]
    /\ UNCHANGED <<bucketVars, rows, events, latest, disturbed>>

(* Remuxes first; inside a kind the order is that of the sizes.            *)
Next_of(jobs) ==
    LET remuxes == {j \in jobs : Plan(j.shape) = "remux"}
    IN  IF remuxes # {} THEN remuxes ELSE jobs

Choose_Remuxes ==   \* a mutation: an encode is left, whatever the card said
    /\ worker.at = "choosing"
    /\ \E j \in Next_of(worker.jobs) :
          worker' = IF Plan(j.shape) = "encode" THEN [worker EXCEPT !.jobs = @ \ {j}]
                    ELSE [worker EXCEPT !.at = "stat", !.jobs = @ \ {j}, !.key = j.key,
                                        !.etag = j.etag, !.shape = j.shape]
    /\ UNCHANGED <<bucketVars, rows, events, latest, disturbed>>

Choose ==
    /\ worker.at = "choosing"
    /\ \E j \in Next_of(worker.jobs) :
          worker' = IF Plan(j.shape) = "encode" /\ ~worker.card
                    THEN [worker EXCEPT !.jobs = @ \ {j}]
                    ELSE [worker EXCEPT !.at = "stat", !.jobs = @ \ {j}, !.key = j.key,
                                        !.etag = j.etag, !.shape = j.shape]
    /\ UNCHANGED <<bucketVars, rows, events, latest, disturbed>>

(* convert, step by step. Any failure leaves the file for another pass.    *)
SkipsFile == worker' = [worker EXCEPT !.at = "choosing", !.key = None, !.tracks = {},
                                      !.text = 0, !.out = None]

Stat_Present ==     \* a mutation: the etag is not compared with the row's
    /\ worker.at = "stat"
    /\ IF obj[worker.key] = None THEN SkipsFile
       ELSE worker' = [worker EXCEPT !.at = IF HasPictures(worker.shape) THEN "ocr" ELSE "ffmpeg"]
    /\ UNCHANGED <<bucketVars, rows, events, latest, disturbed>>

Stat ==
    /\ worker.at = "stat"
    /\ IF obj[worker.key] = None THEN SkipsFile
       ELSE IF obj[worker.key].etag # worker.etag THEN SkipsFile
       ELSE worker' = [worker EXCEPT !.at = IF HasPictures(worker.shape) THEN "ocr" ELSE "ffmpeg"]
    /\ UNCHANGED <<bucketVars, rows, events, latest, disturbed>>

(* Every track is read before the first is uploaded.                       *)
Ocr ==
    /\ worker.at = "ocr"
    /\ IF obj[worker.key] = None THEN SkipsFile
       ELSE worker' = [worker EXCEPT !.at = "sidecars", !.tracks = Tracks,
                                        !.text = obj[worker.key].content]
    /\ UNCHANGED <<bucketVars, rows, events, latest, disturbed>>

PutSidecar ==
    /\ worker.at = "sidecars"
    /\ \E t \in worker.tracks :
          /\ read' = [read EXCEPT ![worker.key[1]][t] = worker.text]
          /\ worker' = [worker EXCEPT !.tracks = @ \ {t},
                            !.at = IF worker.tracks = {t} THEN "ffmpeg" ELSE "sidecars"]
    /\ UNCHANGED <<obj, stamp, rows, events, latest, disturbed>>

(* The chains are tried one after the other, each from the URL; one that   *)
(* is cut short is caught by Verify.                                       *)
Ffmpeg ==
    /\ worker.at = "ffmpeg"
    /\ IF obj[worker.key] = None THEN SkipsFile
       ELSE worker' = [worker EXCEPT !.at = "put", !.out = obj[worker.key]]
    /\ UNCHANGED <<bucketVars, rows, events, latest, disturbed>>

Put_RemovesFirst ==     \* a mutation: the original makes room first
    /\ worker.at = "put"
    /\ obj' = [obj EXCEPT ![worker.key] = None]
    /\ worker' = [worker EXCEPT !.at = "remove"]
    /\ UNCHANGED <<read, stamp, rows, events, latest, disturbed>>

Put ==
    /\ worker.at = "put"
    /\ obj' = [obj EXCEPT ![OutKey(worker.key)] =
                  [worker.out EXCEPT !.etag = stamp + 1, !.shape = "plain"]]
    /\ stamp' = stamp + 1
    /\ worker' = [worker EXCEPT !.at = "remove"]
    /\ UNCHANGED <<read, rows, events, latest, disturbed>>

Done == worker' = [worker EXCEPT !.at = "asking", !.key = None, !.tracks = {}, !.text = 0,
                                 !.out = None, !.unseen = TRUE]

Remove ==
    /\ worker.at = "remove"
    /\ obj' = IF OutKey(worker.key) # worker.key /\ ~KeepOriginal
              THEN [obj EXCEPT ![worker.key] = None] ELSE obj
    /\ Done
    /\ UNCHANGED <<read, stamp, rows, events, latest, disturbed>>

(* A scan is asked for when the last is a quarter of an hour old.          *)
AskForScan ==
    /\ worker.at = "asking"
    /\ \E late \in BOOLEAN :
          worker' = [worker EXCEPT !.at = "choosing", !.unseen = @ /\ ~late]
    /\ UNCHANGED <<bucketVars, rows, events, latest, disturbed>>

EndPass ==
    /\ worker.at = "choosing" /\ worker.jobs = {}
    /\ worker' = [Off EXCEPT !.at = "asleep", !.card = worker.card]
    /\ UNCHANGED <<bucketVars, rows, events, latest, disturbed>>

-----------------------------------------------------------------------------
Happens == events < MaxEvents /\ events' = events + 1

(* A call of convert's fails, Verify refuses what ffmpeg made, or a key is *)
(* not removed: that is logged, and the file counts as converted.          *)
Fails ==
    /\ Happens
    /\ \/ worker.at \in {"stat", "ocr", "sidecars", "ffmpeg", "put"} /\ SkipsFile
       \/ worker.at = "remove" /\ Done
    /\ UNCHANGED <<bucketVars, rows, latest, disturbed>>

Killed ==
    /\ Happens /\ worker.at # "off"
    /\ worker' = Off
    /\ UNCHANGED <<bucketVars, rows, latest, disturbed>>

(* The signal that says finish this file and go.                           *)
Stop ==
    /\ Happens /\ worker.at \in {"asleep", "choosing"}
    /\ worker' = Off
    /\ UNCHANGED <<bucketVars, rows, latest, disturbed>>

UnderWay(f) == worker.key # None /\ worker.key[1] = f
Disturbs(f, is) == disturbed' = IF is THEN disturbed \cup {f} ELSE disturbed \ {f}

(* People. Two files of one stem are one film to the worker: it writes its *)
(* result over an MP4 that was brought beside the original.                *)
Bring(key, shape) ==
    /\ Happens
    /\ stamp' = stamp + 1
    /\ obj' = [obj EXCEPT ![key] = Brought(stamp + 1, shape)]
    /\ latest' = [latest EXCEPT ![key[1]] = stamp + 1]
    /\ Disturbs(key[1], UnderWay(key[1]) \/ (key[2] = "mp4" /\ <<key[1], "original">> \in Here))
    /\ UNCHANGED <<read, rows, worker>>

TakeAway(f) ==
    /\ Happens
    /\ obj' = [obj EXCEPT ![<<f, "original">>] = None, ![<<f, "mp4">>] = None]
    /\ latest' = [latest EXCEPT ![f] = 0]
    /\ Disturbs(f, UnderWay(f))
    /\ UNCHANGED <<read, stamp, rows, worker>>

(* The server's scan, asked for or on the ticker.                          *)
Scan ==
    /\ rows # obj
    /\ rows' = obj
    /\ UNCHANGED <<bucketVars, worker, events, latest, disturbed>>

-----------------------------------------------------------------------------
WorkerStep ==
    \/ Start \/ ReadLibrary \/ Choose \/ EndPass \/ AskForScan
    \/ Stat \/ Ocr \/ PutSidecar \/ Ffmpeg \/ Put \/ Remove
Outside ==
    \/ Fails \/ Killed \/ Stop
    \/ \E f \in Films : TakeAway(f)
    \/ \E key \in FilmKeys, shape \in Shapes : Bring(key, shape)

Next == WorkerStep \/ Scan \/ Outside

Spec == Init /\ [][Next]_vars

(* The worker runs for ever, Nomad starts it again, the ticker scans.      *)
FairSpec == Spec /\ WF_vars(WorkerStep) /\ WF_vars(Scan)

-----------------------------------------------------------------------------
TypeOK ==
    /\ obj \in [FilmKeys -> Object \cup {None}] /\ rows \in [FilmKeys -> Object \cup {None}]
    /\ read \in [Films -> [Tracks -> 0 .. stamp]] /\ disturbed \subseteq Films
    /\ latest \in [Films -> 0 .. stamp] /\ events \in 0 .. MaxEvents
    /\ worker.at \in {"off", "asleep", "choosing", "stat", "ocr", "sidecars", "ffmpeg", "put",
                      "remove", "asking"}
    /\ worker.key \in FilmKeys \cup {None} /\ worker.tracks \subseteq Tracks
    /\ \A j \in worker.jobs : j.key \in FilmKeys /\ Plan(j.shape) # "skip"

(* The film on the shelf is the original where there is one, and plays     *)
(* everywhere once its MP4 is there too.                                   *)
On(f) ==
    LET original == obj[<<f, "original">>] mp4 == obj[<<f, "mp4">>]
    IN  IF original # None
        THEN [content |-> original.content,
              everywhere |-> original.shape = "plain" \/
                  (mp4 # None /\ mp4.content = original.content /\ mp4.shape = "plain")]
        ELSE IF mp4 # None THEN [content |-> mp4.content, everywhere |-> mp4.shape = "plain"]
        ELSE [content |-> 0, everywhere |-> FALSE]

Promise == INSTANCE Shelf WITH shelf <- [f \in Films |-> On(f)]

(* The converter keeps what Shelf promises: whatever fails and whenever it *)
(* is killed, nobody's film is lost, or turns back into an older one, that *)
(* was not touched while the worker was at it (worker.go, convert).        *)
KeepsThePromise == Promise!ShelfSpec

(* Once the house leaves it alone the worker has nothing left to do: every *)
(* film it can convert has been, and its original is gone - after failures *)
(* at any step, sidecars put twice and originals that would not go.        *)
Waits(key) ==
    /\ key \in Here
    /\ Plan(obj[key].shape) = "remux" \/ (Plan(obj[key].shape) = "encode" /\ worker.card)
EverythingIsConverted == <>[](\A key \in FilmKeys : ~Waits(key))

(* No film loses its picture subtitles: when the original is gone, every   *)
(* track has a sidecar, and one that was read from this very film          *)
(* (worker.go, ocr).                                                       *)
PicturesAreReadFirst ==
    \A f \in Films \ disturbed :
        LET mp4 == obj[<<f, "mp4">>]
        IN  mp4 # None =>
                (mp4.content = latest[f] /\ HasPictures(mp4.was) /\ mp4.shape = "plain"
                 => \A t \in Tracks : read[f][t] = mp4.content)

(* Whatever a device is given of a file, converted or not, it can play:    *)
(* codecs its HLS player takes, in segments it takes, no taller than its   *)
(* screen in any rung, and no wider, unless the picture is wider in shape  *)
(* than the screen and too large for it; no HDR it has not, the track and  *)
(* the burned subtitle that were asked for, no pulldown baked in - however *)
(* the two codec lists, the segments, the rungs and a start in the middle  *)
(* overrule each other (DecideWith, act).                                  *)
StreamsPlay ==
    \A m \in Media : \A ask \in Asks(m), device \in Devices : Plays(m, device, ask)

(* Every picture that is sent is within what the device says it can play,  *)
(* in width as in lines. The code does not keep it (README, section 6): a  *)
(* film of 3840x1600 is sent to a screen of 1920x1080 as 2592x1080.        *)
FitsTheScreen ==
    \A m \in {n \in Media : n.medium = Video}, device \in Devices : \A ask \in Asks(m) :
        LET d == Decide(m, device, ask)
            c == Normalize(device)
        IN  d.method = "transcode" => \A size \in Sent(m, Started(ask, d.target)).sizes :
                size.width <= c.width /\ size.lines <= c.lines

(* A converted file is converted for good, and a device that took the      *)
(* original as it is takes the converted one (ConvertPlan).                *)
Unasked == [track |-> None, burn |-> None, seek |-> FALSE]
ConvertedOnce ==
    \A m \in {n \in Media : ConvertPlan(n).action # "skip"} :
        LET made == Converted(m)
        IN  /\ ConvertPlan(made).action = "skip" /\ ~made.telecine
            /\ \A device \in Devices :
                  LET c == Normalize(device)
                  IN  Direct(m, c, Unasked) => Direct(made, c, Unasked)
            /\ \A ask \in Asks(made), device \in Devices : Plays(made, device, ask)

(* The house can play what is on its shelves, and the worker's results do  *)
(* not come back to it as work.                                            *)
TheHouseCanPlayIt ==
    /\ StreamsPlay /\ ConvertedOnce
    /\ \A key \in Here : obj[key].shape # obj[key].was => Plan(obj[key].shape) = "skip"
=============================================================================
