------------------------- MODULE Converter_proofs -------------------------
(***************************************************************************)
(* The converter's safety for every number of films, tracks and events,    *)
(* whatever shapes the files have: the worker's plan is made of rows that  *)
(* may be old, so the invariant says what it still knows of the file it is *)
(* at. Last, that the worker implements Shelf.                             *)
(***************************************************************************)
EXTENDS Converter, TLAPS

(***************************************************************************)
(* ConvertPlan of a file it has made.                                      *)
(***************************************************************************)
(* The provers do not know that a literal is a string: hence the union.    *)
TrackType == [codec : STRING \cup Mp4Audio, channels : Nat]

LEMMA StereoTrack == Track("aac", 2) \in TrackType /\ Stereo(Track("aac", 2))
BY DEF TrackType, Track, Stereo, Mp4Audio

LEMMA CarriedTrack ==
    ASSUME NEW t \in TrackType
    PROVE  Surround(t) \in TrackType /\ Surround(t).codec \in Mp4Audio
<1>1. Lesser(t.channels, 6) \in Nat
  BY DEF TrackType, Lesser
<1>2. t.codec \notin Mp4Audio => Surround(t) = [codec |-> "eac3", channels |-> Lesser(t.channels, 6)]
  BY DEF Surround, Track
<1> QED  BY <1>1, <1>2 DEF TrackType, Mp4Audio, Surround

(* The first track becomes a stereo one, and one or two tracks.            *)
LEMMA FirstIsStereo ==
    ASSUME NEW t \in TrackType
    PROVE  /\ FirstTracks(t) \in Seq(TrackType) /\ Len(FirstTracks(t)) \in {1, 2}
           /\ Stereo(FirstTracks(t)[1])
           /\ Len(FirstTracks(t)) = 2 => FirstTracks(t)[2].codec \in Mp4Audio
<1>1. CASE Stereo(t)
  BY <1>1 DEF FirstTracks
<1>2. CASE ~Stereo(t) /\ t.channels > 2
  <2>1. FirstTracks(t) = <<Track("aac", 2), Surround(t)>>
    BY <1>2 DEF FirstTracks
  <2> QED  BY <2>1, StereoTrack, CarriedTrack
<1>3. CASE ~Stereo(t) /\ ~(t.channels > 2)
  <2>1. FirstTracks(t) = <<Track("aac", 2)>>
    BY <1>3 DEF FirstTracks
  <2> QED  BY <2>1, StereoTrack
<1> QED  BY <1>1, <1>2, <1>3

(* Any other track becomes one that MP4 carries.                           *)
LEMMA OthersAreCarried ==
    ASSUME NEW t \in TrackType
    PROVE  OtherTrack(t) \in TrackType /\ OtherTrack(t).codec \in Mp4Audio
<1>1. Track("aac", 2).codec \in Mp4Audio
  BY DEF Track, Mp4Audio
<1> QED  BY <1>1, StereoTrack, CarriedTrack DEF OtherTrack

(* A plan of tracks that are stereo first and carried by MP4 keeps them.   *)
LEMMA CarriedTracksStay ==
    ASSUME NEW s \in Seq(TrackType), s # <<>>, Stereo(s[1]),
           \A i \in 2 .. Len(s) : s[i].codec \in Mp4Audio
    PROVE  AudioPlan(s) = s
<1> DEFINE rest == [i \in 1 .. Len(s) - 1 |-> OtherTrack(s[i + 1])]
<1>1. Len(s) \in Nat \ {0} /\ Head(s) = s[1]
  OBVIOUS
<1>2. FirstTracks(Head(s)) = <<s[1]>>
  BY <1>1 DEF FirstTracks
<1>3. rest = [i \in 1 .. Len(s) - 1 |-> s[i + 1]]
  BY <1>1 DEF OtherTrack
<1>4. AudioPlan(s) = <<s[1]>> \o [i \in 1 .. Len(s) - 1 |-> s[i + 1]]
  BY <1>2, <1>3 DEF AudioPlan
<1>5. [i \in 1 .. Len(s) - 1 |-> s[i + 1]] \in Seq(TrackType)
  BY <1>1
<1> DEFINE tail == [i \in 1 .. Len(s) - 1 |-> s[i + 1]]
<1>6. Len(tail) = Len(s) - 1 /\ \A i \in 1 .. Len(tail) : tail[i] = s[i + 1]
  BY <1>1, <1>5
<1> HIDE DEF tail
<1>7. <<s[1]>> \o tail = s
  BY <1>1, <1>5, <1>6 DEF tail
<1> QED  BY <1>4, <1>7 DEF tail

(* What AudioPlan makes of a file's tracks is stereo first, and MP4        *)
(* carries it.                                                             *)
LEMMA AudioPlanIs ==
    ASSUME NEW s \in Seq(TrackType), s # <<>>
    PROVE  /\ AudioPlan(s) \in Seq(TrackType) /\ AudioPlan(s) # <<>>
           /\ AudioPlan(s)[1] = FirstTracks(Head(s))[1] /\ Stereo(AudioPlan(s)[1])
           /\ \A i \in 2 .. Len(AudioPlan(s)) : AudioPlan(s)[i].codec \in Mp4Audio
<1> DEFINE first == FirstTracks(Head(s))
           rest == [i \in 1 .. Len(s) - 1 |-> OtherTrack(s[i + 1])]
<1>1. Len(s) \in Nat \ {0} /\ Head(s) \in TrackType
  OBVIOUS
<1>2. /\ first \in Seq(TrackType) /\ Len(first) \in {1, 2} /\ Stereo(first[1])
      /\ Len(first) = 2 => first[2].codec \in Mp4Audio
  BY <1>1, FirstIsStereo
<1>3. /\ rest \in Seq(TrackType) /\ Len(rest) = Len(s) - 1
      /\ \A i \in 1 .. Len(rest) : rest[i].codec \in Mp4Audio
  <2>1. \A i \in 1 .. Len(s) - 1 : s[i + 1] \in TrackType
    BY <1>1
  <2>2. \A i \in 1 .. Len(s) - 1 :
           OtherTrack(s[i + 1]) \in TrackType /\ OtherTrack(s[i + 1]).codec \in Mp4Audio
    BY <2>1, OthersAreCarried
  <2>3. rest \in [1 .. Len(s) - 1 -> TrackType]
    BY <2>2
  <2>4. Len(s) - 1 \in Nat
    BY <1>1
  <2> HIDE DEF rest
  <2>5. rest \in Seq(TrackType) /\ Len(rest) = Len(s) - 1
    BY <2>3, <2>4
  <2>6. \A i \in 1 .. Len(s) - 1 : rest[i].codec \in Mp4Audio
    BY <2>2 DEF rest
  <2> QED  BY <2>5, <2>6
<1>4. AudioPlan(s) = first \o rest
  BY DEF AudioPlan
<1> HIDE DEF first, rest
<1> DEFINE all == first \o rest
<1>5. all \in Seq(TrackType) /\ all # <<>> /\ all[1] = first[1]
  BY <1>2, <1>3
<1>6. \A i \in 2 .. Len(all) : all[i].codec \in Mp4Audio
  <2> TAKE i \in 2 .. Len(all)
  <2>1. CASE i <= Len(first)
    BY <2>1, <1>2, <1>3
  <2>2. CASE i > Len(first)
    <3>1. all[i] = rest[i - Len(first)] /\ i - Len(first) \in 1 .. Len(rest)
      BY <2>2, <1>2, <1>3
    <3> QED  BY <3>1, <1>3
  <2> QED  BY <2>1, <2>2, <1>2
<1> HIDE DEF all
<1> QED  BY <1>2, <1>4, <1>5, <1>6 DEF all, first

LEMMA AudioPlanOnce ==
    ASSUME NEW s \in Seq(TrackType), s # <<>>
    PROVE  AudioPlan(AudioPlan(s)) = AudioPlan(s)
BY AudioPlanIs, CarriedTracksStay

(* The tracks of a file, for the provers.                                  *)
LEMMA FileTracks ==
    ASSUME NEW m \in File
    PROVE  m.tracks \in Seq(TrackType) /\ m.tracks # <<>>
<1> DEFINE probed == [codec : STRING, channels : Nat]  s == m.tracks
<1>1. s \in Seq(probed) /\ s # <<>> /\ \A x \in probed : x \in TrackType
  BY DEF File, MediaInfo, TrackType
<1> HIDE DEF probed, s
<1>2. Len(s) \in Nat /\ s \in [1 .. Len(s) -> TrackType]
  BY <1>1
<1>3. s \in Seq(TrackType)
  BY <1>2
<1> QED  BY <1>1, <1>3 DEF s

(* A file the worker made is no work for it, and has no pictures left to   *)
(* read: ConvertPlan skips what ConvertArgs makes, whatever the file was.  *)
THEOREM ConvertedForGood ==
    \A m \in File : ConvertPlan(Converted(m)).action = "skip"
                    /\ ConvertPlan(Converted(m)).bitmap = {}
<1> TAKE m \in File
<1> DEFINE plan == ConvertPlan(m)
           made == Converted(m)
<1>1. /\ made.medium = m.medium /\ made.lines = m.lines /\ made.hdr = m.hdr
      /\ made.width = m.width /\ made.container = "mp4" /\ made.codec = "h264" /\ made.tracks = plan.audio
      /\ made.subs = plan.subtitles \cup (IF plan.bitmap = {} THEN {} ELSE {"sidecar"})
                     \cup (m.subs \cap {"sidecar"})
  BY DEF Converted, File, MediaInfo
<1>2. /\ plan.audio = AudioPlan(m.tracks) /\ plan.subtitles = m.subs \cap {"text"}
  BY DEF ConvertPlan
<1>3. AudioPlan(made.tracks) = made.tracks
  <2>4. AudioPlan(AudioPlan(m.tracks)) = AudioPlan(m.tracks)
    BY FileTracks, AudioPlanOnce
  <2> QED  BY <2>4, <1>1, <1>2
<1> HIDE DEF plan, made
<1>4. "english" \notin made.subs
  BY <1>1, <1>2
<1>5. ConvertPlan(made).bitmap = made.subs \cap {"english"}
  BY DEF ConvertPlan
<1>6. ConvertPlan(made).action = "skip"
  BY <1>1, <1>3 DEF ConvertPlan
<1> QED  BY <1>4, <1>5, <1>6 DEF made

(* So a row of that shape is never a job, and it promises no sidecars.     *)
LEMMA PlainIsDone == Plan("plain") = "skip" /\ ~HasPictures("plain")
<1>1. PICK m \in Media : Probe["plain"] = Converted(m)
  BY PlainAssumption
<1>2. m \in File /\ "plain" \in DOMAIN Probe
  BY <1>1, ConverterAssumption
<1>3. Plans["plain"] = ConvertPlan(Converted(m))
  BY <1>1, <1>2 DEF Plans
<1> QED  BY <1>2, <1>3, ConvertedForGood DEF Plan, HasPictures

-----------------------------------------------------------------------------
(* The worker's record, and what it keeps while it is at a file.           *)
Known == Shapes \cup {"plain"}
JobType == [key : FilmKeys, etag : Nat, shape : Known]
AtFile == {"stat", "ocr", "sidecars", "ffmpeg", "put", "remove"}
Flag == BOOLEAN
WorkerType ==
    [at : {"off", "asleep", "choosing", "asking"} \cup AtFile, card : Flag,
     jobs : SUBSET JobType, key : FilmKeys \cup {None}, etag : Nat, shape : Known,
     tracks : SUBSET Tracks, text : Nat, out : Object \cup {None}, unseen : Flag]

WorkerOK ==
    /\ worker \in WorkerType
    /\ worker.at \in AtFile <=> worker.key # None
    /\ worker.at \in AtFile => Plan(worker.shape) # "skip"
    /\ worker.at = "put" => worker.out # None /\ worker.out.content <= stamp
    /\ worker.text <= stamp
    /\ \A j \in worker.jobs : Plan(j.shape) # "skip"

BucketOK ==
    /\ obj \in [FilmKeys -> Object \cup {None}] /\ rows \in [FilmKeys -> Object \cup {None}]
    /\ stamp \in Nat /\ read \in [Films -> [Tracks -> 0 .. stamp]]
    /\ latest \in [Films -> 0 .. stamp] /\ disturbed \subseteq Films /\ events \in 0 .. MaxEvents

(* An object is as it was brought or as the worker makes them, and was     *)
(* stamped by now; whoever holds an old copy of it and finds its etag      *)
(* still there knows its shape.                                            *)
Made(o, now) ==
    /\ o.shape = o.was \/ o.shape = "plain"
    /\ o.content <= now /\ o.etag <= now
Knows(there, now, key, copy) ==
    /\ copy.etag <= now
    /\ there[key] # None /\ there[key].etag = copy.etag => there[key].shape = copy.shape
KnowsShape(key, copy) == Knows(obj, stamp, key, copy)
CopiesOK ==
    /\ \A key \in FilmKeys : obj[key] # None => Made(obj[key], stamp)
    /\ \A key \in FilmKeys : rows[key] # None => KnowsShape(key, rows[key])
    /\ \A j \in worker.jobs : KnowsShape(j.key, j)
    /\ worker.key # None => KnowsShape(worker.key, worker)

(* A film nobody disturbed is the one that was brought last, and the file  *)
(* the worker is at is the one it looked at, its pictures read and, at the *)
(* end, its MP4 made of it.                                                *)
Latest == \A f \in Films : f \notin disturbed => On(f).content = latest[f]
AllRead(f, content) == \A t \in Tracks : read[f][t] = content
AtWork ==
    worker.key # None /\ worker.key[1] \notin disturbed /\ worker.at # "stat" =>
        LET f == worker.key[1]
            it == obj[worker.key]
            made == obj[OutKey(worker.key)]
        IN  /\ it # None
            /\ worker.at # "remove" => it.shape = worker.shape
            /\ worker.at = "sidecars" =>
                  /\ worker.text = it.content
                  /\ \A t \in Tracks \ worker.tracks : read[f][t] = it.content
            /\ worker.at \in {"ffmpeg", "put", "remove"} /\ HasPictures(worker.shape)
               => AllRead(f, it.content)
            /\ worker.at = "put" => worker.out = it
            /\ worker.at = "remove" =>
                  made # None /\ made.content = it.content /\ made.shape = "plain"

IInv == BucketOK /\ WorkerOK /\ CopiesOK /\ Latest /\ AtWork /\ PicturesAreReadFirst

-----------------------------------------------------------------------------
(* What the steps make of the worker's record.                             *)
LEMMA OffFields ==
    /\ Off \in WorkerType
    /\ Off.at = "off" /\ Off.jobs = {} /\ Off.key = None /\ Off.text = 0
BY Zenon DEF Off, WorkerType, Known, Flag

LEMMA Wakes ==
    ASSUME NEW card \in Flag, worker' = [Off EXCEPT !.at = "asleep", !.card = card]
    PROVE  /\ worker' \in WorkerType /\ worker'.at = "asleep"
           /\ worker'.key = None /\ worker'.jobs = {} /\ worker'.text = 0
BY OffFields DEF WorkerType

LEMMA SkipsFileFields ==
    ASSUME worker \in WorkerType, SkipsFile
    PROVE  /\ worker' \in WorkerType /\ worker'.at = "choosing"
           /\ worker'.key = None /\ worker'.jobs = worker.jobs /\ worker'.text = 0
BY DEF WorkerType, SkipsFile

LEMMA DoneFields ==
    ASSUME worker \in WorkerType, Done
    PROVE  /\ worker' \in WorkerType /\ worker'.at = "asking"
           /\ worker'.key = None /\ worker'.jobs = worker.jobs /\ worker'.text = 0
<1>1. TRUE \in Flag
  BY DEF Flag
<1> QED  BY <1>1 DEF WorkerType, Done

LEMMA AskForScanFields ==
    ASSUME worker \in WorkerType, AskForScan
    PROVE  /\ worker' \in WorkerType /\ worker'.at = "choosing"
           /\ worker'.key = worker.key /\ worker'.jobs = worker.jobs
           /\ worker'.text = worker.text
<1>1. PICK late \in BOOLEAN :
         worker' = [worker EXCEPT !.at = "choosing", !.unseen = @ /\ ~late]
  BY Zenon DEF AskForScan
<1> DEFINE b == worker.unseen /\ ~late
<1>2. b \in Flag
  BY DEF Flag
<1>3. worker' = [worker EXCEPT !.at = "choosing", !.unseen = b]
  BY Zenon, <1>1
<1> HIDE DEF b
<1> QED  BY <1>2, <1>3 DEF WorkerType

LEMMA ChooseFields ==
    ASSUME worker \in WorkerType, NEW j \in JobType,
           worker' = [worker EXCEPT !.at = "stat", !.jobs = @ \ {j}, !.key = j.key,
                                    !.etag = j.etag, !.shape = j.shape]
    PROVE  /\ worker' \in WorkerType /\ worker'.at = "stat" /\ worker'.text = worker.text
           /\ worker'.jobs = worker.jobs \ {j} /\ worker'.key = j.key
           /\ worker'.etag = j.etag /\ worker'.shape = j.shape
<1> DEFINE k == j.key  e == j.etag  s == j.shape  others == worker.jobs \ {j}
<1>1. k \in FilmKeys /\ e \in Nat /\ s \in Known /\ others \in SUBSET JobType
  BY DEF JobType, WorkerType
<1>2. worker' = [worker EXCEPT !.at = "stat", !.jobs = others, !.key = k, !.etag = e, !.shape = s]
  OBVIOUS
<1> HIDE DEF k, e, s, others
<1>3. /\ worker' \in WorkerType /\ worker'.at = "stat" /\ worker'.text = worker.text
      /\ worker'.jobs = others /\ worker'.key = k /\ worker'.etag = e /\ worker'.shape = s
  BY <1>1, <1>2 DEF WorkerType, AtFile
<1> QED  BY <1>3 DEF k, e, s, others

(* A step that touches nothing but the worker, and events, keeps the       *)
(* invariant when it keeps what the invariant says of the worker.          *)
LEMMA OnlyTheWorker ==
    ASSUME IInv, UNCHANGED <<bucketVars, rows, latest, disturbed>>, events' \in 0 .. MaxEvents,
           WorkerOK', AtWork', \A j \in worker'.jobs : KnowsShape(j.key, j),
           worker'.key # None => KnowsShape(worker'.key, worker')
    PROVE  IInv'
<1>1. BucketOK'
  BY DEF IInv, BucketOK, bucketVars
<1>2. CopiesOK'
  BY DEF IInv, CopiesOK, Made, KnowsShape, Knows, bucketVars
<1>3. Latest'
  BY DEF IInv, Latest, On, bucketVars
<1>4. PicturesAreReadFirst'
  BY DEF IInv, PicturesAreReadFirst, bucketVars
<1> QED  BY <1>1, <1>2, <1>3, <1>4 DEF IInv

(* One that leaves it at no file needs less.                               *)
LEMMA AtNoFile ==
    ASSUME IInv, UNCHANGED <<bucketVars, rows, latest, disturbed>>, events' \in 0 .. MaxEvents,
           worker' \in WorkerType, worker'.at \notin AtFile, worker'.key = None,
           worker'.text <= stamp,
           \A j \in worker'.jobs : Plan(j.shape) # "skip" /\ KnowsShape(j.key, j)
    PROVE  IInv'
<1>1. WorkerOK'
  BY DEF WorkerOK, AtFile, bucketVars
<1>2. AtWork'
  BY DEF AtWork
<1> QED  BY <1>1, <1>2, OnlyTheWorker

(* And one that ends what the worker was at, less still.                   *)
LEMMA EndsKeeps ==
    ASSUME IInv, UNCHANGED <<bucketVars, rows, latest, disturbed>>, events' \in 0 .. MaxEvents,
           worker' \in WorkerType, worker'.at \in {"off", "asleep"},
           worker'.key = None, worker'.jobs = {}, worker'.text = 0
    PROVE  IInv'
<1>1. worker'.text <= stamp /\ worker'.at \notin AtFile
  BY DEF IInv, BucketOK, AtFile
<1> QED  BY <1>1, AtNoFile

(* The step that goes on with the same file, after it has looked at it.    *)
LEMMA SameFile ==
    ASSUME IInv, UNCHANGED <<bucketVars, rows, latest, disturbed, events>>,
           worker' \in WorkerType, worker'.at \in AtFile, worker.at \in AtFile,
           worker'.jobs = worker.jobs, worker'.key = worker.key, worker'.etag = worker.etag,
           worker'.shape = worker.shape, worker'.text <= stamp,
           worker'.at = "put" => worker'.out # None /\ worker'.out.content <= stamp,
           AtWork'
    PROVE  IInv'
<1>1. WorkerOK'
  BY DEF WorkerOK, IInv, bucketVars
<1>2. \A j \in worker'.jobs : KnowsShape(j.key, j)
  BY DEF IInv, CopiesOK
<1>3. KnowsShape(worker'.key, worker')
  BY DEF IInv, CopiesOK, WorkerOK, KnowsShape, Knows
<1>4. events' \in 0 .. MaxEvents
  BY DEF IInv, BucketOK
<1> QED  BY <1>1, <1>2, <1>3, <1>4, OnlyTheWorker

-----------------------------------------------------------------------------
(* One lemma for each step: it keeps the invariant.                        *)
LEMMA StartKeeps == IInv /\ Start => IInv'
<1> SUFFICES ASSUME IInv, Start  PROVE IInv'
  OBVIOUS
<1>1. PICK card \in BOOLEAN : worker' = [Off EXCEPT !.at = "asleep", !.card = card]
  BY Zenon DEF Start
<1>2. card \in Flag
  BY Zenon DEF Flag
<1>3. /\ worker' \in WorkerType /\ worker'.at = "asleep"
      /\ worker'.key = None /\ worker'.jobs = {} /\ worker'.text = 0
  BY <1>1, <1>2, Wakes
<1>4. UNCHANGED <<bucketVars, rows, latest, disturbed>> /\ events' \in 0 .. MaxEvents
  BY DEF Start, IInv, BucketOK
<1> QED  BY <1>3, <1>4, EndsKeeps

(* A job is a copy of the row the plan was made of.                        *)
LEMMA JobOfRow ==
    ASSUME IInv, NEW key \in InLibrary
    PROVE  Job(key) \in JobType /\ KnowsShape(Job(key).key, Job(key))
<1>1. key \in FilmKeys /\ rows[key] # None /\ rows[key] \in Object
  BY DEF IInv, BucketOK, InLibrary
<1> DEFINE e == rows[key].etag  s == rows[key].shape
<1>2. e \in Nat /\ s \in Known
  BY <1>1 DEF Object, Known
<1>3. e <= stamp /\ (obj[key] # None /\ obj[key].etag = e => obj[key].shape = s)
  BY <1>1 DEF IInv, CopiesOK, KnowsShape, Knows
<1>4. Job(key) = [key |-> key, etag |-> e, shape |-> s]
  BY DEF Job
<1> HIDE DEF e, s
<1> QED  BY <1>1, <1>2, <1>3, <1>4 DEF JobType, KnowsShape, Knows

LEMMA ReadLibraryKeeps == IInv /\ ReadLibrary => IInv'
<1> SUFFICES ASSUME IInv, ReadLibrary  PROVE IInv'
  OBVIOUS
<1> DEFINE jobs == {Job(key) : key \in {k \in InLibrary : Plan(rows[k].shape) # "skip"}}
<1>1. \A j \in jobs : j \in JobType /\ Plan(j.shape) # "skip" /\ KnowsShape(j.key, j)
  <2> TAKE j \in jobs
  <2>1. PICK key \in InLibrary : Plan(rows[key].shape) # "skip" /\ j = Job(key)
    OBVIOUS
  <2>2. j.shape = rows[key].shape
    BY <2>1 DEF Job
  <2> QED  BY <2>1, <2>2, JobOfRow
<1>2. \/ worker' = worker
      \/ worker' = [worker EXCEPT !.at = "choosing", !.jobs = jobs]
  BY DEF ReadLibrary
<1>3. UNCHANGED <<bucketVars, rows, latest, disturbed>> /\ events' \in 0 .. MaxEvents
  BY DEF ReadLibrary, IInv, BucketOK
<1>4. /\ worker \in WorkerType /\ worker.at \notin AtFile /\ worker.key = None
      /\ worker.text <= stamp /\ \A j \in worker.jobs : Plan(j.shape) # "skip" /\ KnowsShape(j.key, j)
  BY DEF ReadLibrary, IInv, WorkerOK, CopiesOK, AtFile
<1> HIDE DEF jobs
<1>5. CASE worker' = worker
  BY <1>3, <1>4, <1>5, AtNoFile
<1>6. CASE worker' = [worker EXCEPT !.at = "choosing", !.jobs = jobs]
  <2>1. /\ worker' \in WorkerType /\ worker'.at = "choosing" /\ worker'.key = None
        /\ worker'.text = worker.text /\ worker'.jobs = jobs
    BY <1>1, <1>4, <1>6 DEF WorkerType
  <2> QED  BY <2>1, <1>1, <1>3, <1>4, AtNoFile DEF AtFile
<1> QED  BY <1>2, <1>5, <1>6

LEMMA ChooseKeeps == IInv /\ Choose => IInv'
<1> SUFFICES ASSUME IInv, Choose  PROVE IInv'
  OBVIOUS
<1>1. PICK j \in Next_of(worker.jobs) :
         \/ worker' = [worker EXCEPT !.jobs = @ \ {j}]
         \/ worker' = [worker EXCEPT !.at = "stat", !.jobs = @ \ {j}, !.key = j.key,
                                     !.etag = j.etag, !.shape = j.shape]
  BY Zenon DEF Choose
<1>2. UNCHANGED <<bucketVars, rows, latest, disturbed>> /\ events' \in 0 .. MaxEvents
  BY DEF Choose, IInv, BucketOK
<1>3. /\ worker \in WorkerType /\ worker.at = "choosing" /\ worker.key = None
      /\ worker.text <= stamp
      /\ \A i \in worker.jobs : Plan(i.shape) # "skip" /\ KnowsShape(i.key, i)
  BY DEF Choose, IInv, WorkerOK, CopiesOK, AtFile
<1>4. j \in worker.jobs /\ j \in JobType
  BY <1>1, <1>3 DEF Next_of, WorkerType
<1>5. CASE worker' = [worker EXCEPT !.jobs = @ \ {j}]
  <2>1. /\ worker' \in WorkerType /\ worker'.at = "choosing" /\ worker'.key = None
        /\ worker'.text = worker.text /\ worker'.jobs = worker.jobs \ {j}
    BY <1>3, <1>5 DEF WorkerType
  <2> QED  BY <2>1, <1>2, <1>3, AtNoFile DEF AtFile
<1>6. CASE worker' = [worker EXCEPT !.at = "stat", !.jobs = @ \ {j}, !.key = j.key,
                                   !.etag = j.etag, !.shape = j.shape]
  <2>1. /\ worker' \in WorkerType /\ worker'.at = "stat" /\ worker'.text = worker.text
        /\ worker'.jobs = worker.jobs \ {j} /\ worker'.key = j.key
        /\ worker'.etag = j.etag /\ worker'.shape = j.shape
    BY <1>3, <1>4, <1>6, ChooseFields
  <2>2. KnowsShape(j.key, j) /\ Plan(j.shape) # "skip"
    BY <1>3, <1>4
  <2>3. j.key \in FilmKeys /\ j.key # None
    BY <1>4, NoneAssumption DEF JobType
  <2>4. WorkerOK'
    BY <2>1, <2>2, <2>3, <1>2, <1>3 DEF WorkerOK, AtFile, bucketVars
  <2>5. AtWork'
    BY <2>1 DEF AtWork
  <2>6. KnowsShape(worker'.key, worker')
    BY <2>1, <2>2 DEF KnowsShape, Knows
  <2>7. \A i \in worker'.jobs : KnowsShape(i.key, i)
    BY <2>1, <1>3
  <2> QED  BY <2>4, <2>5, <2>6, <2>7, <1>2, OnlyTheWorker
<1> QED  BY <1>1, <1>5, <1>6

(* The file is left for another pass.                                      *)
LEMMA SkipsFileKeeps ==
    ASSUME IInv, SkipsFile, UNCHANGED <<bucketVars, rows, latest, disturbed>>,
           events' \in 0 .. MaxEvents
    PROVE  IInv'
<1>1. worker \in WorkerType /\ 0 <= stamp
  BY DEF IInv, WorkerOK, BucketOK
<1>2. /\ worker' \in WorkerType /\ worker'.at = "choosing"
      /\ worker'.key = None /\ worker'.jobs = worker.jobs /\ worker'.text = 0
  BY <1>1, SkipsFileFields
<1>3. \A j \in worker.jobs : Plan(j.shape) # "skip" /\ KnowsShape(j.key, j)
  BY DEF IInv, WorkerOK, CopiesOK
<1> QED  BY <1>1, <1>2, <1>3, AtNoFile DEF AtFile

LEMMA DoneKeeps ==
    ASSUME IInv, Done, UNCHANGED <<bucketVars, rows, latest, disturbed>>,
           events' \in 0 .. MaxEvents
    PROVE  IInv'
<1>1. worker \in WorkerType /\ 0 <= stamp
  BY DEF IInv, WorkerOK, BucketOK
<1>2. /\ worker' \in WorkerType /\ worker'.at = "asking"
      /\ worker'.key = None /\ worker'.jobs = worker.jobs /\ worker'.text = 0
  BY <1>1, DoneFields
<1>3. \A j \in worker.jobs : Plan(j.shape) # "skip" /\ KnowsShape(j.key, j)
  BY DEF IInv, WorkerOK, CopiesOK
<1> QED  BY <1>1, <1>2, <1>3, AtNoFile DEF AtFile

LEMMA EndPassKeeps == IInv /\ EndPass => IInv'
<1> SUFFICES ASSUME IInv, EndPass  PROVE IInv'
  OBVIOUS
<1>1. UNCHANGED <<bucketVars, rows, latest, disturbed>> /\ events' \in 0 .. MaxEvents
  BY DEF EndPass, IInv, BucketOK
<1>2. worker.card \in Flag
  BY DEF IInv, WorkerOK, WorkerType
<1>3. worker' = [Off EXCEPT !.at = "asleep", !.card = worker.card]
  BY Zenon DEF EndPass
<1>4. /\ worker' \in WorkerType /\ worker'.at = "asleep"
      /\ worker'.key = None /\ worker'.jobs = {} /\ worker'.text = 0
  BY <1>2, <1>3, Wakes
<1> QED  BY <1>1, <1>4, EndsKeeps

LEMMA AskForScanKeeps == IInv /\ AskForScan => IInv'
<1> SUFFICES ASSUME IInv, AskForScan  PROVE IInv'
  OBVIOUS
<1>1. UNCHANGED <<bucketVars, rows, latest, disturbed>> /\ events' \in 0 .. MaxEvents
  BY DEF AskForScan, IInv, BucketOK
<1>2. worker \in WorkerType /\ worker.at = "asking"
  BY DEF AskForScan, IInv, WorkerOK
<1>3. /\ worker' \in WorkerType /\ worker'.at = "choosing"
      /\ worker'.key = worker.key /\ worker'.jobs = worker.jobs /\ worker'.text = worker.text
  BY <1>2, AskForScanFields
<1>4. /\ worker.key = None /\ worker.text <= stamp
      /\ \A j \in worker.jobs : Plan(j.shape) # "skip" /\ KnowsShape(j.key, j)
  BY <1>2 DEF IInv, WorkerOK, CopiesOK, AtFile
<1> QED  BY <1>1, <1>3, <1>4, AtNoFile DEF AtFile

(* What the worker's file is while it is at one.                           *)
LEMMA TheFile ==
    ASSUME IInv, worker.at \in AtFile
    PROVE  /\ worker \in WorkerType /\ worker.key # None /\ Plan(worker.shape) # "skip"
           /\ worker.key \in FilmKeys /\ worker.key[1] \in Films /\ OutKey(worker.key) \in FilmKeys
           /\ worker.key = <<worker.key[1], worker.key[2]>>
           /\ worker.key[2] \in {"original", "mp4"}
           /\ KnowsShape(worker.key, worker) /\ worker.text <= stamp
           /\ \A j \in worker.jobs : Plan(j.shape) # "skip" /\ KnowsShape(j.key, j)
           /\ obj[worker.key] # None =>
                 /\ obj[worker.key] \in Object /\ Made(obj[worker.key], stamp)
                 /\ obj[worker.key].content <= stamp
<1>1. worker.key \in FilmKeys
  BY DEF IInv, WorkerOK, WorkerType
<1>2. /\ worker.key[1] \in Films /\ OutKey(worker.key) \in FilmKeys
      /\ worker.key = <<worker.key[1], worker.key[2]>> /\ worker.key[2] \in {"original", "mp4"}
  BY <1>1 DEF FilmKeys, Containers, OutKey
<1>3. obj[worker.key] # None => obj[worker.key] \in Object /\ Made(obj[worker.key], stamp)
  BY <1>1 DEF IInv, BucketOK, CopiesOK
<1> QED  BY <1>1, <1>2, <1>3 DEF IInv, WorkerOK, CopiesOK, Made

LEMMA StatKeeps == IInv /\ Stat => IInv'
<1> SUFFICES ASSUME IInv, Stat  PROVE IInv'
  OBVIOUS
<1>1. UNCHANGED <<bucketVars, rows, latest, disturbed, events>> /\ events' \in 0 .. MaxEvents
  BY DEF Stat, IInv, BucketOK
<1>2. worker.at = "stat" /\ worker.at \in AtFile
  BY DEF Stat, AtFile
<1>3. CASE SkipsFile
  BY <1>1, <1>3, SkipsFileKeeps
<1>4. CASE /\ obj[worker.key] # None /\ obj[worker.key].etag = worker.etag
           /\ worker' = [worker EXCEPT !.at = IF HasPictures(worker.shape) THEN "ocr" ELSE "ffmpeg"]
  <2> DEFINE at == IF HasPictures(worker.shape) THEN "ocr" ELSE "ffmpeg"
  <2>1. at \in {"ocr", "ffmpeg"} /\ (at = "ffmpeg" => ~HasPictures(worker.shape))
    OBVIOUS
  <2> HIDE DEF at
  <2>2. /\ worker' \in WorkerType /\ worker'.at = at /\ worker'.key = worker.key
        /\ worker'.jobs = worker.jobs /\ worker'.etag = worker.etag
        /\ worker'.shape = worker.shape /\ worker'.text = worker.text
    <3>1. worker \in WorkerType /\ worker' = [worker EXCEPT !.at = at]
      BY <1>2, <1>4, TheFile DEF at
    <3> QED  BY <2>1, <3>1 DEF WorkerType, AtFile
  <2>3. obj[worker.key].shape = worker.shape /\ worker.text <= stamp
    BY <1>2, <1>4, TheFile DEF KnowsShape, Knows
  <2>4. AtWork'
    BY <1>1, <1>4, <2>1, <2>2, <2>3 DEF AtWork, bucketVars
  <2>5. worker'.at \in AtFile /\ worker'.at # "put"
    BY <2>1, <2>2 DEF AtFile
  <2> QED  BY <1>1, <1>2, <2>2, <2>3, <2>4, <2>5, SameFile
<1> QED  BY <1>3, <1>4 DEF Stat

LEMMA OcrKeeps == IInv /\ Ocr => IInv'
<1> SUFFICES ASSUME IInv, Ocr  PROVE IInv'
  OBVIOUS
<1>1. UNCHANGED <<bucketVars, rows, latest, disturbed, events>> /\ events' \in 0 .. MaxEvents
  BY DEF Ocr, IInv, BucketOK
<1>2. worker.at = "ocr" /\ worker.at \in AtFile
  BY DEF Ocr, AtFile
<1>3. CASE SkipsFile
  BY <1>1, <1>3, SkipsFileKeeps
<1>4. CASE /\ obj[worker.key] # None
           /\ worker' = [worker EXCEPT !.at = "sidecars", !.tracks = Tracks,
                                       !.text = obj[worker.key].content]
  <2> DEFINE text == obj[worker.key].content
  <2>1. text \in Nat /\ text <= stamp
    BY <1>2, <1>4, TheFile DEF Object
  <2>2. worker \in WorkerType /\ worker' = [worker EXCEPT !.at = "sidecars", !.tracks = Tracks, !.text = text]
    BY <1>2, <1>4, TheFile
  <2> HIDE DEF text
  <2>3. /\ worker' \in WorkerType /\ worker'.at = "sidecars" /\ worker'.key = worker.key
        /\ worker'.jobs = worker.jobs /\ worker'.etag = worker.etag
        /\ worker'.shape = worker.shape /\ worker'.text = text /\ worker'.tracks = Tracks
    BY <2>1, <2>2 DEF WorkerType, AtFile
  <2>4. AtWork'
    BY <1>1, <1>2, <1>4, <2>3 DEF AtWork, bucketVars, text, IInv
  <2> QED  BY <1>1, <1>2, <2>1, <2>3, <2>4, SameFile DEF AtFile
<1> QED  BY <1>3, <1>4 DEF Ocr

LEMMA FfmpegKeeps == IInv /\ Ffmpeg => IInv'
<1> SUFFICES ASSUME IInv, Ffmpeg  PROVE IInv'
  OBVIOUS
<1>1. UNCHANGED <<bucketVars, rows, latest, disturbed, events>> /\ events' \in 0 .. MaxEvents
  BY DEF Ffmpeg, IInv, BucketOK
<1>2. worker.at = "ffmpeg" /\ worker.at \in AtFile
  BY DEF Ffmpeg, AtFile
<1>3. CASE SkipsFile
  BY <1>1, <1>3, SkipsFileKeeps
<1>4. CASE /\ obj[worker.key] # None
           /\ worker' = [worker EXCEPT !.at = "put", !.out = obj[worker.key]]
  <2> DEFINE it == obj[worker.key]
  <2>1. it \in Object /\ it # None /\ it.content <= stamp
    BY <1>2, <1>4, TheFile
  <2>2. worker \in WorkerType /\ worker' = [worker EXCEPT !.at = "put", !.out = it]
    BY <1>2, <1>4, TheFile
  <2> HIDE DEF it
  <2>3. /\ worker' \in WorkerType /\ worker'.at = "put" /\ worker'.key = worker.key
        /\ worker'.jobs = worker.jobs /\ worker'.etag = worker.etag
        /\ worker'.shape = worker.shape /\ worker'.text = worker.text /\ worker'.out = it
    BY <2>1, <2>2 DEF WorkerType, AtFile
  <2>4. AtWork'
    BY <1>1, <1>2, <1>4, <2>3 DEF AtWork, AllRead, bucketVars, it, IInv
  <2>5. worker.text <= stamp
    BY <1>2, TheFile
  <2> QED  BY <1>1, <1>2, <2>1, <2>3, <2>4, <2>5, SameFile DEF AtFile
<1> QED  BY <1>3, <1>4 DEF Ffmpeg

(* The sidecars are put one by one; each was read from the file that is    *)
(* still there, or the film is disturbed.                                  *)
LEMMA PutSidecarKeeps == IInv /\ PutSidecar => IInv'
<1> SUFFICES ASSUME IInv, PutSidecar  PROVE IInv'
  OBVIOUS
<1> DEFINE key == worker.key  f == key[1]  text == worker.text
<1>1. /\ worker.at = "sidecars" /\ worker.at \in AtFile
      /\ UNCHANGED <<obj, stamp, rows, events, latest, disturbed>>
  BY DEF PutSidecar, AtFile
<1>2. PICK t \in worker.tracks :
         /\ read' = [read EXCEPT ![f][t] = text]
         /\ worker' = [worker EXCEPT !.tracks = @ \ {t},
                           !.at = IF worker.tracks = {t} THEN "ffmpeg" ELSE "sidecars"]
  BY Zenon DEF PutSidecar
<1>3. /\ worker \in WorkerType /\ key # None /\ Plan(worker.shape) # "skip" /\ key \in FilmKeys
      /\ f \in Films /\ key = <<f, key[2]>> /\ key[2] \in {"original", "mp4"}
      /\ KnowsShape(key, worker) /\ text <= stamp
      /\ \A j \in worker.jobs : Plan(j.shape) # "skip" /\ KnowsShape(j.key, j)
  BY <1>1, TheFile
<1>4. t \in Tracks /\ text \in Nat /\ worker.tracks \subseteq Tracks
  BY <1>2, <1>3 DEF WorkerType
<1> DEFINE at == IF worker.tracks = {t} THEN "ffmpeg" ELSE "sidecars"
           left == worker.tracks \ {t}
<1>5. at \in {"ffmpeg", "sidecars"} /\ (at = "ffmpeg" => left = {}) /\ left \subseteq Tracks
  BY <1>4
<1>6. worker' = [worker EXCEPT !.tracks = left, !.at = at]
  BY <1>2
<1> HIDE DEF at, left
<1>7. /\ worker' \in WorkerType /\ worker'.at = at /\ worker'.key = key /\ worker'.jobs = worker.jobs
      /\ worker'.etag = worker.etag /\ worker'.shape = worker.shape /\ worker'.text = text
      /\ worker'.tracks = left
  BY <1>3, <1>5, <1>6 DEF WorkerType, AtFile
<1> HIDE DEF key, f, text
<1>8. /\ read \in [Films -> [Tracks -> 0 .. stamp]] /\ stamp \in Nat
      /\ read' \in [Films -> [Tracks -> 0 .. stamp]]
      /\ \A g \in Films, u \in Tracks :
            read'[g][u] = IF g = f /\ u = t THEN text ELSE read[g][u]
  <2>1. read \in [Films -> [Tracks -> 0 .. stamp]] /\ stamp \in Nat
    BY DEF IInv, BucketOK
  <2>2. text \in 0 .. stamp
    BY <2>1, <1>3, <1>4
  <2> QED  BY <2>1, <2>2, <1>2, <1>3, <1>4
<1>9. BucketOK'
  BY <1>1, <1>8 DEF IInv, BucketOK
<1>10. WorkerOK'
  BY <1>1, <1>3, <1>5, <1>7 DEF WorkerOK, AtFile
<1>11. CopiesOK'
  BY <1>1, <1>3, <1>7 DEF IInv, CopiesOK, Made, KnowsShape, Knows
<1>12. Latest'
  BY <1>1 DEF IInv, Latest, On
<1>13. f \notin disturbed =>
          /\ obj[key] # None /\ obj[key].shape = worker.shape /\ text = obj[key].content
          /\ \A u \in Tracks \ worker.tracks : read[f][u] = text
  BY <1>1, <1>3 DEF IInv, AtWork, key, f, text
<1>14. AtWork'
  <2> SUFFICES ASSUME f \notin disturbed  PROVE AtWork'
    BY <1>1, <1>7 DEF AtWork, f
  <2>1. \A u \in Tracks \ left : read'[f][u] = text
    BY <1>3, <1>8, <1>13 DEF left
  <2>2. at = "ffmpeg" => \A u \in Tracks : read'[f][u] = text
    BY <1>5, <2>1
  <2>3. key[1] = f /\ obj'[key] = obj[key]
    BY <1>1 DEF f
  <2>4. worker'.at \in {"ffmpeg", "sidecars"}
    BY <1>5, <1>7
  <2> QED  BY <1>7, <1>13, <2>1, <2>2, <2>3, <2>4 DEF AtWork, AllRead
<1>15. PicturesAreReadFirst'
  <2> SUFFICES ASSUME NEW g \in Films \ disturbed,
                      obj[<<g, "mp4">>] # None, obj[<<g, "mp4">>].content = latest[g],
                      HasPictures(obj[<<g, "mp4">>].was), obj[<<g, "mp4">>].shape = "plain",
                      NEW u \in Tracks
               PROVE  read'[g][u] = obj[<<g, "mp4">>].content
    BY <1>1 DEF PicturesAreReadFirst
  <2>1. read[g][u] = obj[<<g, "mp4">>].content
    BY DEF IInv, PicturesAreReadFirst
  <2>2. CASE g = f
    <3>1. key # <<f, "mp4">>
      BY <1>3, <1>13, <2>2, PlainIsDone
    <3>2. key = <<f, "original">>
      BY <1>3, <3>1
    <3>3. On(f).content = obj[key].content /\ On(f).content = latest[f]
      BY <3>2, <1>3, <1>13, <2>2 DEF On, IInv, Latest
    <3> QED  BY <3>3, <2>1, <2>2, <1>8, <1>13
  <2>3. CASE g # f
    BY <2>1, <2>3, <1>8
  <2> QED  BY <2>2, <2>3
<1> QED  BY <1>9, <1>10, <1>11, <1>12, <1>14, <1>15 DEF IInv

LEMMA FailsKeeps == IInv /\ Fails => IInv'
<1> SUFFICES ASSUME IInv, Fails  PROVE IInv'
  OBVIOUS
<1>1. UNCHANGED <<bucketVars, rows, latest, disturbed>> /\ events' \in 0 .. MaxEvents
  BY ConverterAssumption DEF Fails, Happens, IInv, BucketOK
<1>2. SkipsFile \/ Done
  BY DEF Fails
<1> QED  BY <1>1, <1>2, SkipsFileKeeps, DoneKeeps

LEMMA OffKeeps == IInv /\ (Killed \/ Stop) => IInv'
<1> SUFFICES ASSUME IInv, Killed \/ Stop  PROVE IInv'
  OBVIOUS
<1>1. UNCHANGED <<bucketVars, rows, latest, disturbed>> /\ events' \in 0 .. MaxEvents
  BY ConverterAssumption DEF Killed, Stop, Happens, IInv, BucketOK
<1>2. worker' = Off
  BY DEF Killed, Stop
<1>3. /\ worker' \in WorkerType /\ worker'.at = "off"
      /\ worker'.key = None /\ worker'.jobs = {} /\ worker'.text = 0
  BY Zenon, <1>2, OffFields
<1> QED  BY <1>1, <1>3, EndsKeeps

LEMMA ScanKeeps == IInv /\ Scan => IInv'
<1> SUFFICES ASSUME IInv, Scan  PROVE IInv'
  OBVIOUS
<1>1. rows' = obj /\ UNCHANGED <<bucketVars, worker, events, latest, disturbed>>
  BY DEF Scan
<1>2. BucketOK' /\ WorkerOK'
  BY <1>1 DEF IInv, BucketOK, WorkerOK, bucketVars
<1>3. CopiesOK'
  BY <1>1 DEF IInv, CopiesOK, Made, KnowsShape, Knows, bucketVars
<1>4. Latest' /\ PicturesAreReadFirst'
  BY <1>1 DEF IInv, Latest, On, PicturesAreReadFirst, bucketVars
<1>5. AtWork'
  BY <1>1 DEF IInv, AtWork, AllRead, bucketVars
<1> QED  BY <1>2, <1>3, <1>4, <1>5 DEF IInv

(* A film by its two objects: its content, and whether it plays everywhere *)
Content(original, mp4) ==
    IF original # None THEN original.content ELSE IF mp4 # None THEN mp4.content ELSE 0
Everywhere(original, mp4) ==
    \/ original # None /\ original.shape = "plain"
    \/ /\ mp4 # None /\ mp4.shape = "plain"
       /\ original = None \/ mp4.content = original.content

Seen(original, mp4) ==
    IF original # None
    THEN [content |-> original.content,
          everywhere |-> original.shape = "plain" \/
              (mp4 # None /\ mp4.content = original.content /\ mp4.shape = "plain")]
    ELSE IF mp4 # None THEN [content |-> mp4.content, everywhere |-> mp4.shape = "plain"]
    ELSE [content |-> 0, everywhere |-> FALSE]

LEMMA SeenIs ==
    ASSUME NEW original, NEW mp4
    PROVE  Seen(original, mp4) =
              [content |-> Content(original, mp4), everywhere |-> Everywhere(original, mp4)]
<1>2. CASE original # None
  <2>1. Content(original, mp4) = original.content
    BY <1>2 DEF Content
  <2>2. Everywhere(original, mp4) =
          (original.shape = "plain" \/
              (mp4 # None /\ mp4.content = original.content /\ mp4.shape = "plain"))
    BY <1>2 DEF Everywhere
  <2>3. Seen(original, mp4) = [content |-> original.content, everywhere |-> original.shape = "plain" \/
                  (mp4 # None /\ mp4.content = original.content /\ mp4.shape = "plain")]
    BY Zenon, <1>2 DEF Seen
  <2> QED  BY Zenon, <2>1, <2>2, <2>3
<1>3. CASE original = None /\ mp4 # None
  <2>1. Content(original, mp4) = mp4.content
    BY <1>3 DEF Content
  <2>2. Everywhere(original, mp4) = (mp4.shape = "plain")
    BY <1>3 DEF Everywhere
  <2>3. Seen(original, mp4) = [content |-> mp4.content, everywhere |-> mp4.shape = "plain"]
    BY Zenon, <1>3 DEF Seen
  <2> QED  BY Zenon, <2>1, <2>2, <2>3
<1>4. CASE original = None /\ mp4 = None
  <2>1. Content(original, mp4) = 0
    BY <1>4 DEF Content
  <2>2. Everywhere(original, mp4) = FALSE
    BY <1>4 DEF Everywhere
  <2>3. Seen(original, mp4) = [content |-> 0, everywhere |-> FALSE]
    BY Zenon, <1>4 DEF Seen
  <2> QED  BY Zenon, <2>1, <2>2, <2>3
<1> QED  BY <1>2, <1>3, <1>4

LEMMA SeenContent ==
    ASSUME NEW original, NEW mp4
    PROVE  Seen(original, mp4).content = Content(original, mp4)
<1>1. CASE original # None
  BY Zenon, <1>1 DEF Seen, Content
<1>2. CASE original = None /\ mp4 # None
  BY Zenon, <1>2 DEF Seen, Content
<1>3. CASE original = None /\ mp4 = None
  BY Zenon, <1>3 DEF Seen, Content
<1> QED  BY <1>1, <1>2, <1>3

LEMMA OnIs ==
    ASSUME NEW f
    PROVE  /\ On(f) = Seen(obj[<<f, "original">>], obj[<<f, "mp4">>])
           /\ On(f)' = Seen(obj'[<<f, "original">>], obj'[<<f, "mp4">>])
BY Zenon DEF On, Seen

(* A film whose objects stay is the same film.                             *)
LEMMA OnSame ==
    ASSUME NEW f, obj'[<<f, "original">>] = obj[<<f, "original">>],
           obj'[<<f, "mp4">>] = obj[<<f, "mp4">>]
    PROVE  On(f)' = On(f)
BY OnIs

LEMMA MadePlain ==
    ASSUME NEW o \in Object, NEW n \in Nat
    PROVE  LET new == [o EXCEPT !.etag = n + 1, !.shape = "plain"]
           IN  /\ new \in Object /\ new.shape = "plain" /\ new.etag = n + 1
               /\ new.content = o.content /\ new.was = o.was
<1> DEFINE m == n + 1
<1>1. m \in Nat
  OBVIOUS
<1> HIDE DEF m
<1>2. [o EXCEPT !.etag = m, !.shape = "plain"] \in Object
  BY <1>1 DEF Object
<1>3. LET new == [o EXCEPT !.etag = m, !.shape = "plain"]
      IN  /\ new.shape = "plain" /\ new.etag = m
          /\ new.content = o.content /\ new.was = o.was
  BY DEF Object
<1> QED  BY <1>2, <1>3 DEF m

(* The object the worker puts: stamped now, plain, and of the film's       *)
(* content when nobody disturbed it.                                       *)
LEMMA PutFields ==
    ASSUME IInv, Put
    PROVE  LET new == obj'[OutKey(worker.key)]
           IN  /\ obj' \in [FilmKeys -> Object \cup {None}]
               /\ \A key \in FilmKeys : key # OutKey(worker.key) => obj'[key] = obj[key]
               /\ new \in Object /\ new.shape = "plain"
               /\ new.etag = stamp + 1 /\ new.content <= stamp
               /\ worker.key[1] \notin disturbed =>
                     /\ obj[worker.key] # None /\ obj[worker.key] \in Object
                     /\ new.content = obj[worker.key].content /\ new.was = obj[worker.key].was
                     /\ obj[worker.key].shape = worker.shape
                     /\ HasPictures(worker.shape) =>
                           AllRead(worker.key[1], obj[worker.key].content)
<1> DEFINE out == worker.out  new == [out EXCEPT !.etag = stamp + 1, !.shape = "plain"]
<1>1. worker.at = "put" /\ worker.at \in AtFile
  BY DEF Put, AtFile
<1>2. /\ worker \in WorkerType /\ worker.key # None /\ worker.key \in FilmKeys
      /\ OutKey(worker.key) \in FilmKeys
  BY <1>1, TheFile
<1>3. out \in Object /\ out.content <= stamp
  <2>1. worker.out \in Object \cup {None} /\ worker.out # None /\ worker.out.content <= stamp
    BY <1>1, <1>2 DEF IInv, WorkerOK, WorkerType
  <2> QED  BY <2>1
<1>4. stamp \in Nat /\ obj \in [FilmKeys -> Object \cup {None}]
  BY DEF IInv, BucketOK
<1>5. obj' = [obj EXCEPT ![OutKey(worker.key)] = new]
  BY DEF Put
<1>6. worker.key[1] \notin disturbed =>
         /\ obj[worker.key] # None /\ out = obj[worker.key]
         /\ obj[worker.key].shape = worker.shape
         /\ HasPictures(worker.shape) => AllRead(worker.key[1], obj[worker.key].content)
  BY <1>1, <1>2 DEF IInv, AtWork
<1> HIDE DEF out
<1>7. /\ new \in Object /\ new.shape = "plain" /\ new.etag = stamp + 1
      /\ new.content = out.content /\ new.was = out.was
  BY <1>3, <1>4, MadePlain
<1> HIDE DEF new
<1>8. /\ obj' \in [FilmKeys -> Object \cup {None}] /\ obj'[OutKey(worker.key)] = new
      /\ \A key \in FilmKeys : key # OutKey(worker.key) => obj'[key] = obj[key]
  BY <1>2, <1>4, <1>5, <1>7
<1> QED  BY <1>3, <1>6, <1>7, <1>8

(* Putting the MP4 changes no content of a film nobody disturbed, and lets *)
(* it play everywhere.                                                     *)
LEMMA PutShows ==
    ASSUME IInv, Put, NEW f \in Films, f = worker.key[1], f \notin disturbed
    PROVE  On(f)' = [content |-> On(f).content, everywhere |-> TRUE] \/ On(f)' = On(f)
<1> DEFINE key == worker.key
<1>1. /\ key = <<f, key[2]>> /\ key[2] \in {"original", "mp4"} /\ key \in FilmKeys
  BY TheFile DEF Put, AtFile
<1> DEFINE new == obj'[OutKey(key)]  original == obj[<<f, "original">>]  mp4 == obj[<<f, "mp4">>]
<1>2. /\ OutKey(key) = <<f, "mp4">> /\ <<f, "original">> \in FilmKeys /\ <<f, "mp4">> \in FilmKeys
      /\ <<f, "original">> # <<f, "mp4">>
  BY <1>1 DEF OutKey, FilmKeys, Containers
<1>3. /\ new # None /\ new.shape = "plain" /\ obj[key] # None
      /\ new.content = obj[key].content
      /\ obj'[<<f, "original">>] = original /\ obj'[<<f, "mp4">>] = new
  BY <1>1, <1>2, PutFields, NoneAssumption
<1>4. On(f) = Seen(original, mp4) /\ On(f)' = Seen(original, new)
  BY <1>3, OnIs
<1>a. key = <<f, "original">> \/ key = <<f, "mp4">>
  BY <1>1
<1> HIDE DEF new, original, mp4
<1>5. \/ original # None /\ new.content = original.content
      \/ original = None /\ mp4 # None /\ new.content = mp4.content
      \/ original # None /\ mp4 # None /\ new.content = mp4.content
  BY <1>a, <1>3 DEF original, mp4
<1>7. Content(original, new) = Content(original, mp4)
  BY <1>3, <1>5 DEF Content
<1>8. Everywhere(original, new) = TRUE \/ Everywhere(original, new) = Everywhere(original, mp4)
  BY <1>3, <1>5 DEF Everywhere
<1>9. On(f) = [content |-> Content(original, mp4), everywhere |-> Everywhere(original, mp4)]
  BY Zenon, <1>4, SeenIs
<1>10. On(f)' = [content |-> Content(original, mp4), everywhere |-> Everywhere(original, new)]
  BY Zenon, <1>4, <1>7, SeenIs
<1>11. On(f).content = Content(original, mp4)
  BY <1>4, SeenContent
<1> QED  BY Zenon, <1>8, <1>9, <1>10, <1>11

(* The keys of two films have nothing to do with each other.               *)
LEMMA KeysOf ==
    ASSUME NEW f \in Films
    PROVE  /\ <<f, "original">> \in FilmKeys /\ <<f, "mp4">> \in FilmKeys
           /\ <<f, "original">> # <<f, "mp4">>
           /\ \A g \in Films, c \in Containers :
                 g # f => <<g, c>> # <<f, "original">> /\ <<g, c>> # <<f, "mp4">>
BY DEF FilmKeys, Containers

(* What is put is stamped anew: nobody's copy is mistaken for it.          *)
LEMMA CopiesStay ==
    ASSUME IInv, stamp' \in {stamp, stamp + 1}, UNCHANGED rows, worker' \in WorkerType,
           worker'.jobs = worker.jobs,
           worker'.key # None => Knows(obj, stamp, worker'.key, worker'),
           \A k \in FilmKeys : obj'[k] # None =>
               obj'[k] = obj[k] \/ (obj'[k].etag = stamp + 1 /\ Made(obj'[k], stamp'))
    PROVE  CopiesOK'
<1>1. stamp \in Nat /\ stamp <= stamp' /\ stamp' \in Nat
  BY DEF IInv, BucketOK
<1>2. ASSUME NEW k \in FilmKeys, obj'[k] # None
      PROVE  Made(obj'[k], stamp')
  <2>1. CASE obj'[k] = obj[k]
    <3>1. Made(obj[k], stamp) /\ obj[k] \in Object
      BY <1>2, <2>1 DEF IInv, CopiesOK, BucketOK
    <3> QED  BY <3>1, <2>1, <1>1 DEF Made, Object
  <2> QED  BY <1>2, <2>1
<1>3. ASSUME NEW k \in FilmKeys, NEW copy, Knows(obj, stamp, k, copy), copy.etag \in Nat
      PROVE  Knows(obj', stamp', k, copy)
  <2>1. copy.etag <= stamp' /\ copy.etag # stamp + 1
    BY <1>1, <1>3 DEF Knows
  <2> QED  BY <2>1, <1>3 DEF Knows
<1>4. \A k \in FilmKeys : rows'[k] # None => Knows(obj', stamp', k, rows'[k])
  <2>1. ASSUME NEW k \in FilmKeys, rows[k] # None  PROVE Knows(obj', stamp', k, rows[k])
    <3>1. Knows(obj, stamp, k, rows[k]) /\ rows[k].etag \in Nat
      BY <2>1 DEF IInv, CopiesOK, BucketOK, Object, KnowsShape
    <3> QED  BY <3>1, <1>3
  <2> QED  BY <2>1
<1>5. \A j \in worker'.jobs : Knows(obj', stamp', j.key, j)
  <2>1. ASSUME NEW j \in worker.jobs  PROVE Knows(obj', stamp', j.key, j)
    <3>1. j \in JobType /\ Knows(obj, stamp, j.key, j)
      BY DEF IInv, WorkerOK, WorkerType, KnowsShape, CopiesOK
    <3>2. j.key \in FilmKeys /\ j.etag \in Nat
      BY <3>1 DEF JobType
    <3> QED  BY <3>1, <3>2, <1>3
  <2> QED  BY <2>1
<1>6. worker'.key # None => Knows(obj', stamp', worker'.key, worker')
  <2>1. worker'.etag \in Nat /\ worker'.key \in FilmKeys \cup {None}
    BY DEF WorkerType
  <2> QED  BY <2>1, <1>3
<1> QED  BY <1>2, <1>4, <1>5, <1>6 DEF CopiesOK, KnowsShape

(* A bound that grows still bounds.                                        *)
LEMMA StampGrows ==
    ASSUME IInv, stamp' \in {stamp, stamp + 1}
    PROVE  /\ stamp \in Nat /\ stamp' \in Nat /\ stamp <= stamp' /\ worker.text <= stamp'
           /\ read \in [Films -> [Tracks -> 0 .. stamp']] /\ latest \in [Films -> 0 .. stamp']
<1>1. /\ stamp \in Nat /\ stamp' \in Nat /\ stamp <= stamp' /\ 0 .. stamp \subseteq 0 .. stamp'
  BY DEF IInv, BucketOK
<1> DEFINE a == 0 .. stamp  b == 0 .. stamp'
<1>2. read \in [Films -> [Tracks -> a]] /\ latest \in [Films -> a]
  BY DEF IInv, BucketOK
<1>3. worker.text \in Nat /\ worker.text <= stamp
  BY DEF IInv, WorkerOK, WorkerType
<1>4. worker.text <= stamp'
  BY <1>1, <1>3
<1> HIDE DEF a, b
<1>5. read \in [Films -> [Tracks -> b]] /\ latest \in [Films -> b]
  BY <1>1, <1>2 DEF a, b
<1> QED  BY <1>1, <1>4, <1>5 DEF b

LEMMA PutKeeps == IInv /\ Put => IInv'
<1> SUFFICES ASSUME IInv, Put  PROVE IInv'
  OBVIOUS
<1> DEFINE key == worker.key  f == key[1]  new == obj'[OutKey(key)]
<1>1. /\ worker.at = "put" /\ worker.at \in AtFile /\ stamp' = stamp + 1
      /\ UNCHANGED <<read, rows, events, latest, disturbed>>
      /\ worker' = [worker EXCEPT !.at = "remove"]
  BY DEF Put, AtFile
<1>2. /\ worker \in WorkerType /\ key # None /\ Plan(worker.shape) # "skip" /\ key \in FilmKeys
      /\ f \in Films /\ key = <<f, key[2]>> /\ key[2] \in {"original", "mp4"}
      /\ OutKey(key) \in FilmKeys /\ KnowsShape(key, worker) /\ worker.text <= stamp
      /\ \A j \in worker.jobs : Plan(j.shape) # "skip" /\ KnowsShape(j.key, j)
  BY <1>1, TheFile
<1>3. /\ worker' \in WorkerType /\ worker'.at = "remove" /\ worker'.key = key
      /\ worker'.jobs = worker.jobs /\ worker'.etag = worker.etag
      /\ worker'.shape = worker.shape /\ worker'.text = worker.text
  BY <1>1, <1>2 DEF WorkerType, AtFile
<1>4. /\ obj' \in [FilmKeys -> Object \cup {None}]
      /\ \A k \in FilmKeys : k # OutKey(key) => obj'[k] = obj[k]
      /\ new \in Object /\ new.shape = "plain" /\ new.etag = stamp + 1 /\ new.content <= stamp
      /\ f \notin disturbed =>
            /\ obj[key] # None /\ obj[key] \in Object
            /\ new.content = obj[key].content /\ new.was = obj[key].was
            /\ obj[key].shape = worker.shape
            /\ HasPictures(worker.shape) => AllRead(f, obj[key].content)
  BY PutFields
<1>5. stamp \in Nat /\ OutKey(key) = <<f, "mp4">> /\ new # None
  BY <1>4, NoneAssumption DEF IInv, BucketOK, OutKey
<1> DEFINE out == OutKey(key)
<1> HIDE DEF new, out, key, f
<1>6. BucketOK'
  BY <1>1, <1>4, StampGrows DEF IInv, BucketOK
<1>7. WorkerOK'
  BY <1>1, <1>2, <1>3, StampGrows DEF WorkerOK, AtFile
<1>8. CopiesOK'
  <2>1. \A k \in FilmKeys : obj'[k] # None =>
           obj'[k] = obj[k] \/ (obj'[k].etag = stamp + 1 /\ Made(obj'[k], stamp'))
    <3> TAKE k \in FilmKeys
    <3>1. CASE k = out
      BY <3>1, <1>1, <1>4, <1>5 DEF Made, new, out, Object
    <3> QED  BY <3>1, <1>4 DEF out
  <2>2. worker'.key # None => Knows(obj, stamp, worker'.key, worker')
    BY <1>2, <1>3 DEF KnowsShape, Knows
  <2>3. stamp' \in {stamp, stamp + 1} /\ worker' \in WorkerType
    BY <1>1, <1>3
  <2> QED  BY <1>1, <1>3, <2>1, <2>2, <2>3, CopiesStay
<1>9. ASSUME NEW g \in Films, g # f
      PROVE  obj'[<<g, "original">>] = obj[<<g, "original">>] /\ obj'[<<g, "mp4">>] = obj[<<g, "mp4">>]
  BY <1>2, <1>4, <1>5, <1>9, KeysOf DEF Containers
<1>10. Latest'
  <2> SUFFICES ASSUME NEW g \in Films, g \notin disturbed  PROVE On(g)'.content = latest[g]
    BY <1>1 DEF Latest
  <2>1. On(g).content = latest[g]
    BY DEF IInv, Latest
  <2>2. CASE g = f
    <3>1. On(g)' = [content |-> On(g).content, everywhere |-> TRUE] \/ On(g)' = On(g)
      BY <2>2, PutShows DEF f, key
    <3> QED  BY <2>1, <3>1
  <2>3. CASE g # f
    BY <2>1, <2>3, <1>9, OnSame
  <2> QED  BY <2>2, <2>3
<1>11. AtWork'
  <2> SUFFICES ASSUME f \notin disturbed  PROVE AtWork'
    BY <1>1, <1>3 DEF AtWork, f
  <2>1. obj'[key] # None /\ obj'[key].content = obj[key].content
    BY <1>2, <1>4, <1>5 DEF new, out
  <2>2. HasPictures(worker.shape) => \A t \in Tracks : read[f][t] = obj'[key].content
    BY <2>1, <1>4 DEF AllRead
  <2>3. obj'[out] = new /\ OutKey(key) = out /\ new.content = obj[key].content
    BY <1>4 DEF new, out
  <2>4. key[1] = f
    BY DEF f
  <2> QED  BY <1>1, <1>3, <1>4, <1>5, <2>1, <2>2, <2>3, <2>4 DEF AtWork, AllRead, OutKey
<1>12. PicturesAreReadFirst'
  <2> SUFFICES ASSUME NEW g \in Films \ disturbed,
                      obj'[<<g, "mp4">>] # None, obj'[<<g, "mp4">>].content = latest[g],
                      HasPictures(obj'[<<g, "mp4">>].was), obj'[<<g, "mp4">>].shape = "plain",
                      NEW t \in Tracks
               PROVE  read[g][t] = obj'[<<g, "mp4">>].content
    BY <1>1 DEF PicturesAreReadFirst
  <2>1. CASE g = f
    <3>1. obj'[<<g, "mp4">>] = new
      BY <2>1, <1>5 DEF new, out
    <3>2. obj[key].shape = obj[key].was \/ obj[key].shape = "plain"
      BY <1>2, <1>4, <2>1 DEF IInv, CopiesOK, Made
    <3>3. obj[key].shape # "plain"
      BY <1>2, <1>4, <2>1, PlainIsDone
    <3>4. HasPictures(worker.shape)
      BY <3>1, <3>2, <3>3, <1>4, <2>1
    <3> QED  BY <3>1, <3>4, <1>4, <2>1 DEF AllRead
  <2>2. CASE g # f
    BY <2>2, <1>9 DEF IInv, PicturesAreReadFirst
  <2> QED  BY <2>1, <2>2
<1> QED  BY <1>6, <1>7, <1>8, <1>10, <1>11, <1>12 DEF IInv

(* The original goes only when the MP4 has its content: the film stays.    *)
LEMMA RemoveHides ==
    ASSUME IInv, Remove, NEW f \in Films, f \notin disturbed
    PROVE  On(f)' = On(f)
<1> DEFINE key == worker.key
<1>1. /\ worker.at = "remove" /\ worker.at \in AtFile
      /\ obj' = IF OutKey(key) # key /\ ~KeepOriginal THEN [obj EXCEPT ![key] = None] ELSE obj
  BY DEF Remove, AtFile
<1>2. /\ key # None /\ key \in FilmKeys /\ key[1] \in Films
      /\ key = <<key[1], key[2]>> /\ key[2] \in {"original", "mp4"}
      /\ OutKey(key) = <<key[1], "mp4">>
  BY <1>1, TheFile DEF OutKey
<1>3. obj \in [FilmKeys -> Object \cup {None}]
  BY DEF IInv, BucketOK
<1>4. CASE obj' = obj
  BY <1>4, OnSame
<1>5. CASE obj' = [obj EXCEPT ![key] = None] /\ key = <<key[1], "original">> /\ f # key[1]
  <2>1. key # <<f, "original">> /\ key # <<f, "mp4">>
    BY <1>5
  <2> QED  BY <2>1, <1>2, <1>3, <1>5, KeysOf, OnSame
<1>6. CASE obj' = [obj EXCEPT ![key] = None] /\ key = <<f, "original">>
  <2> DEFINE original == obj[<<f, "original">>]  mp4 == obj[<<f, "mp4">>]
  <2>1. /\ original # None /\ mp4 # None /\ mp4.content = original.content
        /\ mp4.shape = "plain"
    BY <1>1, <1>2, <1>6 DEF IInv, AtWork
  <2>2. obj'[<<f, "original">>] = None /\ obj'[<<f, "mp4">>] = mp4
    BY <1>3, <1>6, KeysOf
  <2>3. On(f) = Seen(original, mp4) /\ On(f)' = Seen(None, mp4)
    BY <2>2, OnIs
  <2> HIDE DEF original, mp4
  <2>4. Content(original, mp4) = Content(None, mp4)
    BY <2>1 DEF Content
  <2>5. Everywhere(original, mp4) = Everywhere(None, mp4)
    BY <2>1 DEF Everywhere
  <2> QED  BY Zenon, <2>3, <2>4, <2>5, SeenIs
<1> QED  BY <1>1, <1>2, <1>4, <1>5, <1>6

LEMMA RemoveKeeps == IInv /\ Remove => IInv'
<1> SUFFICES ASSUME IInv, Remove  PROVE IInv'
  OBVIOUS
<1> DEFINE key == worker.key
<1>1. /\ worker.at = "remove" /\ worker.at \in AtFile /\ Done
      /\ obj' = IF OutKey(key) # key /\ ~KeepOriginal THEN [obj EXCEPT ![key] = None] ELSE obj
      /\ UNCHANGED <<read, stamp, rows, events, latest, disturbed>>
  BY DEF Remove, AtFile
<1>2. /\ worker \in WorkerType /\ key \in FilmKeys /\ OutKey(key) = <<key[1], "mp4">>
      /\ key = <<key[1], key[2]>>
      /\ \A j \in worker.jobs : Plan(j.shape) # "skip" /\ KnowsShape(j.key, j)
  BY <1>1, TheFile DEF OutKey
<1>3. /\ worker' \in WorkerType /\ worker'.at = "asking" /\ worker'.key = None
      /\ worker'.jobs = worker.jobs /\ worker'.text = 0
  BY <1>1, <1>2, DoneFields
<1>4. /\ obj' \in [FilmKeys -> Object \cup {None}]
      /\ \A k \in FilmKeys : obj'[k] # None => obj'[k] = obj[k]
      /\ \A f \in Films : obj'[<<f, "mp4">>] # None => obj'[<<f, "mp4">>] = obj[<<f, "mp4">>]
  <2>1. obj \in [FilmKeys -> Object \cup {None}]
    BY DEF IInv, BucketOK
  <2>2. /\ obj' \in [FilmKeys -> Object \cup {None}]
        /\ \A k \in FilmKeys : obj'[k] # None => obj'[k] = obj[k]
    BY <2>1, <1>1, <1>2
  <2> QED  BY <2>2, KeysOf
<1> HIDE DEF key
<1>5. BucketOK'
  BY <1>1, <1>4 DEF IInv, BucketOK
<1>6. WorkerOK'
  BY <1>1, <1>2, <1>3 DEF WorkerOK, AtFile, IInv, BucketOK
<1>7. CopiesOK'
  BY <1>1, <1>3, <1>4, CopiesStay
<1>8. Latest'
  <2> SUFFICES ASSUME NEW f \in Films, f \notin disturbed  PROVE On(f)'.content = latest[f]
    BY <1>1 DEF Latest
  <2>1. On(f)' = On(f) /\ On(f).content = latest[f]
    BY RemoveHides DEF IInv, Latest
  <2> QED  BY <2>1
<1>9. AtWork'
  BY <1>3 DEF AtWork
<1>10. PicturesAreReadFirst'
  BY <1>1, <1>4 DEF IInv, PicturesAreReadFirst
<1> QED  BY <1>5, <1>6, <1>7, <1>8, <1>9, <1>10 DEF IInv

(* People act on a film: the worker is as it was, and the film it is at    *)
(* is one that they left alone, or disturbed.                              *)
LEMMA AtWorkStays ==
    ASSUME IInv, NEW f \in Films, UNCHANGED <<read, worker>>,
           worker.key # None /\ worker.key[1] = f => f \in disturbed',
           \A g \in Films \ {f} : g \in disturbed => g \in disturbed',
           \A g \in Films \ {f}, c \in Containers : obj'[<<g, c>>] = obj[<<g, c>>]
    PROVE  AtWork'
<1> SUFFICES ASSUME worker.key # None, worker.key[1] \notin disturbed'  PROVE AtWork'
  BY DEF AtWork
<1>1. worker.key \in FilmKeys
  BY DEF IInv, WorkerOK, WorkerType
<1>2. /\ worker.key[1] \in Films \ {f} /\ worker.key = <<worker.key[1], worker.key[2]>>
      /\ worker.key[2] \in Containers
  BY <1>1 DEF FilmKeys
<1>3. OutKey(worker.key) = <<worker.key[1], "mp4">> /\ "mp4" \in Containers
  BY DEF OutKey, Containers
<1>4. obj'[worker.key] = obj[worker.key] /\ obj'[OutKey(worker.key)] = obj[OutKey(worker.key)]
  BY <1>2, <1>3
<1>5. worker.key[1] \notin disturbed
  BY <1>2
<1>6. AtWork /\ worker' = worker /\ read' = read
  BY DEF IInv
<1> QED  BY <1>3, <1>4, <1>5, <1>6 DEF AtWork, AllRead, OutKey

LEMMA BringKeeps ==
    ASSUME IInv, NEW key \in FilmKeys, NEW shape \in Shapes, Bring(key, shape)
    PROVE  IInv'
<1> DEFINE f == key[1]  new == Brought(stamp + 1, shape)
<1>1. /\ stamp' = stamp + 1 /\ obj' = [obj EXCEPT ![key] = new]
      /\ latest' = [latest EXCEPT ![f] = stamp + 1] /\ UNCHANGED <<read, rows, worker>>
      /\ events' \in 0 .. MaxEvents
  BY ConverterAssumption DEF Bring, Happens, IInv, BucketOK
<1>2. /\ disturbed' \in {disturbed \cup {f}, disturbed \ {f}}
      /\ UnderWay(f) \/ (key[2] = "mp4" /\ <<f, "original">> \in Here) => f \in disturbed'
  BY DEF Bring, Disturbs
<1>3. /\ f \in Films /\ key = <<f, key[2]>> /\ key[2] \in Containers
  BY DEF FilmKeys
<1>4. /\ stamp \in Nat /\ stamp' \in Nat /\ stamp <= stamp'
      /\ obj \in [FilmKeys -> Object \cup {None}] /\ latest \in [Films -> 0 .. stamp']
      /\ read \in [Films -> [Tracks -> 0 .. stamp']] /\ worker.text <= stamp'
  BY <1>1, StampGrows DEF IInv, BucketOK
<1>5. /\ new \in Object /\ new.etag = stamp + 1 /\ new.content = stamp + 1
      /\ new.shape = shape /\ new.was = shape /\ new # None
  BY <1>4, NoneAssumption DEF Brought, Object
<1> HIDE DEF new, f
<1>6. /\ obj' \in [FilmKeys -> Object \cup {None}] /\ obj'[key] = new
      /\ \A k \in FilmKeys : k # key => obj'[k] = obj[k]
      /\ latest' \in [Films -> 0 .. stamp'] /\ latest'[f] = stamp + 1
      /\ \A g \in Films : g # f => latest'[g] = latest[g]
  BY <1>1, <1>3, <1>4, <1>5
<1>7. \A g \in Films \ {f}, c \in Containers : obj'[<<g, c>>] = obj[<<g, c>>]
  BY <1>3, <1>6 DEF FilmKeys
<1>8. BucketOK'
  BY <1>1, <1>2, <1>3, <1>4, <1>6 DEF IInv, BucketOK
<1>9. WorkerOK'
  <2>1. worker.at = "put" => worker.out.content <= stamp'
    <3> SUFFICES ASSUME worker.at = "put"  PROVE worker.out.content <= stamp'
      OBVIOUS
    <3>1. worker.out.content <= stamp /\ worker.out.content \in Nat
      BY DEF IInv, WorkerOK, WorkerType, Object
    <3> QED  BY <3>1, <1>4
  <2> QED  BY <2>1, <1>1, <1>4 DEF IInv, WorkerOK
<1>10. CopiesOK'
  <2>1. Made(new, stamp')
    BY <1>1, <1>4, <1>5 DEF Made
  <2>2. \A k \in FilmKeys : obj'[k] # None =>
           obj'[k] = obj[k] \/ (obj'[k].etag = stamp + 1 /\ Made(obj'[k], stamp'))
    BY <2>1, <1>5, <1>6
  <2>3. worker' \in WorkerType /\ (worker'.key # None => Knows(obj, stamp, worker'.key, worker'))
    BY <1>1 DEF IInv, WorkerOK, CopiesOK, KnowsShape
  <2> QED  BY <1>1, <2>2, <2>3, CopiesStay
<1>11. Latest'
  <2> SUFFICES ASSUME NEW g \in Films, g \notin disturbed'  PROVE On(g)'.content = latest'[g]
    BY DEF Latest
  <2>1. CASE g # f
    <3>1. On(g)' = On(g)
      BY <2>1, <1>7, OnSame DEF Containers
    <3>2. g \notin disturbed
      BY <1>2, <2>1
    <3> QED  BY <2>1, <3>1, <3>2, <1>6 DEF IInv, Latest
  <2>2. CASE g = f
    <3>1. key[2] # "mp4" \/ <<f, "original">> \notin Here
      BY <1>2, <2>2
    <3>2. CASE key = <<f, "original">>
      <4>1. On(g)' = Seen(new, obj'[<<f, "mp4">>])
        BY <1>6, <2>2, <3>2, OnIs
      <4>2. Content(new, obj'[<<f, "mp4">>]) = stamp + 1
        BY <1>5 DEF Content
      <4> QED  BY <4>1, <4>2, <1>6, <2>2, SeenContent
    <3>3. CASE key = <<f, "mp4">>
      <4>1. obj'[<<f, "original">>] = None
        BY <1>3, <1>6, <3>1, <3>3, KeysOf DEF Here
      <4>2. On(g)' = Seen(None, new)
        BY <1>6, <2>2, <3>3, <4>1, OnIs
      <4>3. Content(None, new) = stamp + 1
        BY <1>5 DEF Content
      <4> QED  BY <4>2, <4>3, <1>6, <2>2, SeenContent
    <3> QED  BY <1>3, <3>2, <3>3 DEF Containers
  <2> QED  BY <2>1, <2>2
<1>12. AtWork'
  <2>1. worker.key # None /\ worker.key[1] = f => f \in disturbed'
    BY <1>2 DEF UnderWay
  <2>2. \A g \in Films \ {f} : g \in disturbed => g \in disturbed'
    BY <1>2
  <2> QED  BY <2>1, <2>2, <1>1, <1>3, <1>7, AtWorkStays
<1>13. PicturesAreReadFirst'
  <2> SUFFICES ASSUME NEW g \in Films \ disturbed',
                      obj'[<<g, "mp4">>] # None, obj'[<<g, "mp4">>].content = latest'[g],
                      HasPictures(obj'[<<g, "mp4">>].was), obj'[<<g, "mp4">>].shape = "plain",
                      NEW t \in Tracks
               PROVE  read[g][t] = obj'[<<g, "mp4">>].content
    BY <1>1 DEF PicturesAreReadFirst
  <2>1. CASE g # f
    <3>1. g \notin disturbed /\ latest'[g] = latest[g] /\ obj'[<<g, "mp4">>] = obj[<<g, "mp4">>]
      BY <1>2, <1>6, <1>7, <2>1 DEF Containers
    <3> QED  BY <3>1 DEF IInv, PicturesAreReadFirst
  <2>2. CASE g = f /\ key = <<f, "original">>
    <3>1. obj'[<<f, "mp4">>] = obj[<<f, "mp4">>] /\ obj[<<f, "mp4">>] \in Object
      BY <1>3, <1>4, <1>6, <2>2, KeysOf
    <3>2. obj[<<f, "mp4">>].content <= stamp /\ obj[<<f, "mp4">>].content \in Nat
      BY <3>1, <2>2, <1>3, KeysOf DEF IInv, CopiesOK, Made, Object
    <3> QED  BY <3>1, <3>2, <1>4, <1>6, <2>2
  <2>3. CASE g = f /\ key = <<f, "mp4">>
    BY <1>5, <1>6, <2>3, PlainIsDone
  <2> QED  BY <1>3, <2>1, <2>2, <2>3 DEF Containers
<1> QED  BY <1>8, <1>9, <1>10, <1>11, <1>12, <1>13 DEF IInv

LEMMA TakeAwayKeeps ==
    ASSUME IInv, NEW f \in Films, TakeAway(f)
    PROVE  IInv'
<1>1. /\ obj' = [obj EXCEPT ![<<f, "original">>] = None, ![<<f, "mp4">>] = None]
      /\ latest' = [latest EXCEPT ![f] = 0] /\ UNCHANGED <<read, stamp, rows, worker>>
      /\ events' \in 0 .. MaxEvents
      /\ disturbed' \in {disturbed \cup {f}, disturbed \ {f}}
      /\ UnderWay(f) => f \in disturbed'
  BY ConverterAssumption DEF TakeAway, Happens, Disturbs, IInv, BucketOK
<1>2. /\ stamp \in Nat /\ obj \in [FilmKeys -> Object \cup {None}]
      /\ latest \in [Films -> 0 .. stamp]
  BY DEF IInv, BucketOK
<1>3. /\ obj' \in [FilmKeys -> Object \cup {None}]
      /\ obj'[<<f, "original">>] = None /\ obj'[<<f, "mp4">>] = None
      /\ \A k \in FilmKeys : obj'[k] # None => obj'[k] = obj[k]
      /\ \A g \in Films \ {f}, c \in Containers : obj'[<<g, c>>] = obj[<<g, c>>]
  BY <1>1, <1>2, KeysOf DEF FilmKeys
<1>4. /\ latest' \in [Films -> 0 .. stamp] /\ latest'[f] = 0
      /\ \A g \in Films : g # f => latest'[g] = latest[g]
  BY <1>1, <1>2
<1>5. BucketOK'
  BY <1>1, <1>2, <1>3, <1>4 DEF IInv, BucketOK
<1>6. WorkerOK'
  BY <1>1 DEF IInv, WorkerOK
<1>7. CopiesOK'
  <2>1. worker' \in WorkerType /\ (worker'.key # None => Knows(obj, stamp, worker'.key, worker'))
    BY <1>1 DEF IInv, WorkerOK, CopiesOK, KnowsShape
  <2> QED  BY <1>1, <1>3, <2>1, CopiesStay
<1>8. Latest'
  <2> SUFFICES ASSUME NEW g \in Films, g \notin disturbed'  PROVE On(g)'.content = latest'[g]
    BY DEF Latest
  <2>1. CASE g # f
    <3>1. On(g)' = On(g) /\ g \notin disturbed
      BY <2>1, <1>1, <1>3, OnSame DEF Containers
    <3> QED  BY <2>1, <3>1, <1>4 DEF IInv, Latest
  <2>2. CASE g = f
    <3>1. On(g)' = Seen(None, None)
      BY <1>3, <2>2, OnIs
    <3>2. Content(None, None) = 0
      BY DEF Content
    <3> QED  BY <3>1, <3>2, <1>4, <2>2, SeenContent
  <2> QED  BY <2>1, <2>2
<1>9. AtWork'
  <2>1. worker.key # None /\ worker.key[1] = f => f \in disturbed'
    BY <1>1 DEF UnderWay
  <2>2. \A g \in Films \ {f} : g \in disturbed => g \in disturbed'
    BY <1>1
  <2> QED  BY <2>1, <2>2, <1>1, <1>3, AtWorkStays
<1>10. PicturesAreReadFirst'
  <2> SUFFICES ASSUME NEW g \in Films \ disturbed',
                      obj'[<<g, "mp4">>] # None, obj'[<<g, "mp4">>].content = latest'[g],
                      HasPictures(obj'[<<g, "mp4">>].was), obj'[<<g, "mp4">>].shape = "plain",
                      NEW t \in Tracks
               PROVE  read[g][t] = obj'[<<g, "mp4">>].content
    BY <1>1 DEF PicturesAreReadFirst
  <2>1. g # f
    BY <1>3
  <2>2. g \notin disturbed /\ latest'[g] = latest[g] /\ obj'[<<g, "mp4">>] = obj[<<g, "mp4">>]
    BY <2>1, <1>1, <1>3, <1>4 DEF Containers
  <2> QED  BY <2>2 DEF IInv, PicturesAreReadFirst
<1> QED  BY <1>5, <1>6, <1>7, <1>8, <1>9, <1>10 DEF IInv

LEMMA BroughtIs ==
    ASSUME NEW n \in Nat, NEW shape \in Shapes
    PROVE  LET new == Brought(n, shape)
           IN  /\ new \in Object /\ new.etag = n /\ new.content = n
               /\ new.shape = shape /\ new.was = shape /\ new # None
BY NoneAssumption DEF Brought, Object

LEMMA InitHolds == Init => IInv
<1> SUFFICES ASSUME Init  PROVE IInv
  OBVIOUS
<1>1. PICK there \in SUBSET (Films \X Shapes) :
         /\ obj = [key \in FilmKeys |->
                      IF key[2] = "original" /\ \E s \in Shapes : <<key[1], s>> \in there
                      THEN Brought(1, CHOOSE s \in Shapes : <<key[1], s>> \in there)
                      ELSE None]
         /\ latest = [f \in Films |-> IF \E s \in Shapes : <<f, s>> \in there THEN 1 ELSE 0]
  BY Zenon DEF Init
<1>2. /\ stamp = 1 /\ read = [f \in Films |-> [t \in Tracks |-> 0]] /\ rows = obj
      /\ worker = Off /\ events = 0 /\ disturbed = {}
  BY Zenon DEF Init
<1> DEFINE in(f) == \E s \in Shapes : <<f, s>> \in there
           shape(f) == CHOOSE s \in Shapes : <<f, s>> \in there
<1>3. \A f : in(f) => shape(f) \in Shapes
  OBVIOUS
<1>4. \A key \in FilmKeys :
         obj[key] = IF key[2] = "original" /\ in(key[1]) THEN Brought(1, shape(key[1])) ELSE None
  BY <1>1
<1>5. \A f \in Films : latest[f] = IF in(f) THEN 1 ELSE 0
  BY <1>1
<1>6. DOMAIN obj = FilmKeys /\ DOMAIN latest = Films /\ obj = [k \in FilmKeys |-> obj[k]]
      /\ latest = [f \in Films |-> latest[f]]
  BY <1>1
<1> HIDE DEF in, shape
<1>7. \A key \in FilmKeys : obj[key] # None =>
         /\ obj[key] \in Object /\ obj[key].shape = obj[key].was
         /\ obj[key].content = 1 /\ obj[key].etag = 1 /\ key[2] = "original"
  <2> TAKE key \in FilmKeys
  <2> HAVE obj[key] # None
  <2>1. key[2] = "original" /\ in(key[1]) /\ obj[key] = Brought(1, shape(key[1]))
    BY <1>4
  <2> QED  BY <2>1, <1>3, BroughtIs
<1>8. obj \in [FilmKeys -> Object \cup {None}] /\ latest \in [Films -> 0 .. 1]
  BY <1>5, <1>6, <1>7
<1>9. BucketOK
  BY <1>2, <1>8, ConverterAssumption DEF BucketOK
<1>10. /\ worker \in WorkerType /\ worker.at = "off" /\ worker.jobs = {} /\ worker.key = None
       /\ worker.text = 0
  BY Zenon, <1>2, OffFields
<1> DEFINE w == worker
<1>11. w \in WorkerType /\ w.at = "off" /\ w.jobs = {} /\ w.key = None /\ w.text = 0
  BY Zenon, <1>10
<1>12. stamp = 1 /\ rows = obj /\ disturbed = {}
  BY Zenon, <1>2
<1>13. WorkerOK
  BY <1>10, <1>12 DEF WorkerOK, AtFile
<1>14. CopiesOK
  <2>1. \A key \in FilmKeys : obj[key] # None => Made(obj[key], stamp)
    BY <1>7, <1>12 DEF Made
  <2>2. \A key \in FilmKeys : rows[key] # None => KnowsShape(key, rows[key])
    BY <1>7, <1>12 DEF KnowsShape, Knows
  <2> QED  BY <2>1, <2>2, <1>10 DEF CopiesOK
<1>15. Latest
  <2> SUFFICES ASSUME NEW f \in Films  PROVE On(f).content = latest[f]
    BY DEF Latest
  <2> DEFINE o == obj[<<f, "original">>]
  <2>1. On(f) = Seen(o, None)
    BY <1>7, KeysOf, OnIs
  <2>2. o # None <=> in(f)
    <3>1. o = IF in(f) THEN Brought(1, shape(f)) ELSE None
      BY <1>4, KeysOf
    <3> QED  BY <3>1, <1>3, BroughtIs
  <2>3. o # None => o.content = 1
    BY <1>7, KeysOf
  <2> HIDE DEF o
  <2>4. Content(o, None) = IF o # None THEN 1 ELSE 0
    BY <2>3 DEF Content
  <2> QED  BY <2>1, <2>2, <2>4, <1>5, SeenContent
<1>16. AtWork
  BY <1>10 DEF AtWork
<1>17. PicturesAreReadFirst
  BY <1>7, KeysOf DEF PicturesAreReadFirst
<1> QED  BY <1>9, <1>13, <1>14, <1>15, <1>16, <1>17 DEF IInv

LEMMA NextKeeps == IInv /\ [Next]_vars => IInv'
<1> SUFFICES ASSUME IInv, [Next]_vars  PROVE IInv'
  OBVIOUS
<1>1. CASE WorkerStep
  BY <1>1, StartKeeps, ReadLibraryKeeps, ChooseKeeps, EndPassKeeps, AskForScanKeeps, StatKeeps,
     OcrKeeps, PutSidecarKeeps, FfmpegKeeps, PutKeeps, RemoveKeeps DEF WorkerStep
<1>2. CASE Outside
  BY <1>2, FailsKeeps, OffKeeps, BringKeeps, TakeAwayKeeps DEF Outside
<1>3. CASE Scan
  BY <1>3, ScanKeeps
<1>4. CASE UNCHANGED vars
  BY <1>4 DEF vars, bucketVars, IInv, BucketOK, WorkerOK, CopiesOK, KnowsShape, Knows, Made, Latest,
     On, AtWork, AllRead, PicturesAreReadFirst
<1> QED  BY <1>1, <1>2, <1>3, <1>4 DEF Next

(* The worker's invariant: what it still knows, hours later, of the file   *)
(* it was sent to by an old row.                                           *)
THEOREM ConverterInductive == Spec => []IInv
BY InitHolds, NextKeeps, PTL DEF Spec

(* Every state is well-typed, and no job is one that ConvertPlan skips.    *)
THEOREM ConverterTypes == Spec => []TypeOK
<1>1. IInv => TypeOK
  BY DEF IInv, BucketOK, WorkerOK, WorkerType, JobType, AtFile, TypeOK
<1> QED  BY <1>1, ConverterInductive, PTL

(* However old the plan, no undisturbed film has its original replaced     *)
(* before every picture subtitle of that very film is read.                *)
THEOREM NoPicturesAreLost == Spec => []PicturesAreReadFirst
<1>1. IInv => PicturesAreReadFirst
  BY DEF IInv
<1> QED  BY <1>1, ConverterInductive, PTL

-----------------------------------------------------------------------------
(* The refinement of Shelf, step by step.                                  *)
LEMMA ShelfOf ==
    ASSUME NEW f \in Films
    PROVE  [g \in Films |-> On(g)][f] = On(f) /\ [g \in Films |-> On(g)]'[f] = On(f)'
OBVIOUS

LEMMA OnType ==
    ASSUME IInv, NEW f \in Films
    PROVE  On(f) \in [content : Nat, everywhere : BOOLEAN]
<1> DEFINE original == obj[<<f, "original">>]  mp4 == obj[<<f, "mp4">>]
<1>1. original \in Object \cup {None} /\ mp4 \in Object \cup {None}
  BY KeysOf DEF IInv, BucketOK
<1>2. On(f) = Seen(original, mp4)
  BY OnIs
<1> HIDE DEF original, mp4
<1>3. Content(original, mp4) \in Nat
  BY <1>1 DEF Content, Object
<1>4. Everywhere(original, mp4) \in BOOLEAN
  BY Zenon DEF Everywhere
<1>5. [content |-> Content(original, mp4), everywhere |-> Everywhere(original, mp4)]
         \in [content : Nat, everywhere : BOOLEAN]
  BY Zenon, <1>3, <1>4
<1> QED  BY Zenon, <1>2, <1>5, SeenIs

LEMMA ShelfStarts == Init => Promise!ShelfInit
<1> SUFFICES ASSUME Init  PROVE Promise!ShelfInit
  OBVIOUS
<1>1. IInv /\ disturbed = {}
  BY InitHolds DEF Init
<1>2. [f \in Films |-> On(f)] \in [Films -> [content : Nat, everywhere : BOOLEAN]]
  BY <1>1, OnType
<1>3. latest \in [Films -> Nat] /\ \A f \in Films : On(f).content = latest[f]
  BY <1>1 DEF IInv, BucketOK, Latest
<1> QED  BY <1>1, <1>2, <1>3 DEF Promise!ShelfInit

LEMMA Unseen ==
    ASSUME UNCHANGED <<latest, disturbed>>, \A f \in Films : On(f)' = On(f)
    PROVE  UNCHANGED Promise!shelfVars
BY DEF Promise!shelfVars

LEMMA OthersStay ==
    ASSUME NEW f \in Films, \A g \in Films \ {f} : latest'[g] = latest[g],
           \A g \in Films \ {f}, c \in Containers : obj'[<<g, c>>] = obj[<<g, c>>]
    PROVE  Promise!Others(f)
<1>1. \A g \in Films \ {f} : On(g)' = On(g)
  BY OnSame DEF Containers
<1> QED  BY <1>1 DEF Promise!Others

LEMMA NowEverywhere ==
    ASSUME NEW r \in [content : Nat, everywhere : BOOLEAN]
    PROVE  /\ r.everywhere => r = [content |-> r.content, everywhere |-> TRUE]
           /\ [r EXCEPT !.everywhere = TRUE] = [content |-> r.content, everywhere |-> TRUE]
<1> DEFINE Bool == BOOLEAN  yes == TRUE
<1>1. r \in [content : Nat, everywhere : Bool] /\ (r.everywhere => r.everywhere = yes)
  BY Zenon
<1> HIDE DEF Bool, yes
<1>2. r = [content |-> r.content, everywhere |-> r.everywhere]
  BY Zenon, <1>1
<1>3. [r EXCEPT !.everywhere = yes] = [content |-> r.content, everywhere |-> yes]
  BY <1>1
<1> QED  BY Zenon, <1>1, <1>2, <1>3 DEF yes

LEMMA PutRefines == IInv /\ Put => [Promise!ShelfNext]_(Promise!shelfVars)
<1> SUFFICES ASSUME IInv, Put  PROVE [Promise!ShelfNext]_(Promise!shelfVars)
  OBVIOUS
<1> DEFINE key == worker.key
<1>1. UNCHANGED <<latest, disturbed>> /\ worker.at \in AtFile
  BY DEF Put, AtFile
<1>2. PICK f \in Films : f = key[1] /\ OutKey(key) = <<f, "mp4">>
  BY <1>1, TheFile DEF OutKey
<1>3. \A g \in Films \ {f}, c \in Containers : obj'[<<g, c>>] = obj[<<g, c>>]
  BY <1>2, PutFields, KeysOf DEF FilmKeys
<1>4. \A g \in Films \ {f} : On(g)' = On(g)
  BY <1>3, OnSame DEF Containers
<1>5. CASE f \in disturbed
  <2>1. Promise!Others(f)
    BY <1>1, <1>3, OthersStay
  <2> QED  BY <1>1, <1>5, <2>1 DEF Promise!ShelfNext, Promise!Stray
<1>6. CASE f \notin disturbed /\ On(f)' = On(f)
  BY <1>1, <1>4, <1>6, Unseen
<1>7. CASE f \notin disturbed /\ On(f)' = [content |-> On(f).content, everywhere |-> TRUE]
  <2>1. On(f) \in [content : Nat, everywhere : BOOLEAN]
    BY OnType
  <2>2. CASE On(f).everywhere
    <3>1. On(f)' = On(f)
      BY Zenon, <1>7, <2>1, <2>2, NowEverywhere
    <3> QED  BY <1>1, <1>4, <3>1, Unseen
  <2>3. CASE ~On(f).everywhere
    <3> DEFINE shelf == [g \in Films |-> On(g)]
    <3>1. On(f)' = [On(f) EXCEPT !.everywhere = TRUE]
      BY Zenon, <1>7, <2>1, NowEverywhere
    <3>2. shelf' = [shelf EXCEPT ![f] = On(f)']
      BY <1>4
    <3>3. shelf[f] = On(f)
      OBVIOUS
    <3>4. shelf' = [shelf EXCEPT ![f].everywhere = TRUE]
      BY Zenon, <3>1, <3>2, <3>3
    <3>5. ~shelf[f].everywhere
      BY Zenon, <2>3, <3>3
    <3>6. Promise!Convert(f)
      BY Zenon, <1>1, <1>7, <3>4, <3>5 DEF Promise!Convert
    <3> QED  BY <3>6 DEF Promise!ShelfNext
  <2> QED  BY <2>2, <2>3
<1>8. f \notin disturbed =>
        On(f)' = [content |-> On(f).content, everywhere |-> TRUE] \/ On(f)' = On(f)
  BY <1>2, PutShows
<1> QED  BY Zenon, <1>5, <1>6, <1>7, <1>8

LEMMA RemoveRefines == IInv /\ Remove => [Promise!ShelfNext]_(Promise!shelfVars)
<1> SUFFICES ASSUME IInv, Remove  PROVE [Promise!ShelfNext]_(Promise!shelfVars)
  OBVIOUS
<1> DEFINE key == worker.key
<1>1. /\ UNCHANGED <<latest, disturbed>> /\ worker.at \in AtFile
      /\ obj' = [obj EXCEPT ![key] = None] \/ obj' = obj
  BY DEF Remove, AtFile
<1>2. PICK f \in Films : f = key[1] /\ key = <<f, key[2]>> /\ key \in FilmKeys
  BY <1>1, TheFile
<1>3. \A g \in Films \ {f}, c \in Containers : obj'[<<g, c>>] = obj[<<g, c>>]
  BY <1>1, <1>2 DEF FilmKeys, IInv, BucketOK
<1>4. \A g \in Films \ {f} : On(g)' = On(g)
  BY <1>3, OnSame DEF Containers
<1>5. CASE f \in disturbed
  <2>1. Promise!Others(f)
    BY <1>1, <1>3, OthersStay
  <2> QED  BY <1>1, <1>5, <2>1 DEF Promise!ShelfNext, Promise!Stray
<1>6. CASE f \notin disturbed
  BY <1>1, <1>4, <1>6, RemoveHides, Unseen
<1> QED  BY <1>5, <1>6

LEMMA BringRefines ==
    ASSUME IInv, NEW key \in FilmKeys, NEW shape \in Shapes, Bring(key, shape)
    PROVE  Promise!ShelfNext
<1>1. PICK f \in Films : f = key[1] /\ key = <<f, key[2]>>
  BY DEF FilmKeys
<1>2. /\ latest' = [latest EXCEPT ![f] = stamp + 1] /\ obj' = [obj EXCEPT ![key] = Brought(stamp + 1, shape)]
      /\ disturbed' \in {disturbed \ {f}, disturbed \cup {f}}
  BY <1>1 DEF Bring, Disturbs
<1>3. latest \in [Films -> 0 .. stamp] /\ stamp \in Nat /\ obj \in [FilmKeys -> Object \cup {None}]
  BY DEF IInv, BucketOK
<1>4. /\ latest'[f] > latest[f] /\ \A g \in Films \ {f} : latest'[g] = latest[g]
      /\ \A g \in Films \ {f}, c \in Containers : obj'[<<g, c>>] = obj[<<g, c>>]
  BY <1>1, <1>2, <1>3 DEF FilmKeys
<1>5. Promise!Others(f)
  BY <1>4, OthersStay
<1>6. f \in disturbed' \/ On(f)'.content = latest'[f]
  BY BringKeeps DEF IInv, Latest
<1>7. Promise!Bring(f)
  BY <1>2, <1>4, <1>5, <1>6 DEF Promise!Bring
<1> QED  BY <1>7 DEF Promise!ShelfNext

LEMMA TakeAwayRefines ==
    ASSUME IInv, NEW f \in Films, TakeAway(f)
    PROVE  Promise!ShelfNext
<1>1. /\ latest' = [latest EXCEPT ![f] = 0]
      /\ obj' = [obj EXCEPT ![<<f, "original">>] = None, ![<<f, "mp4">>] = None]
      /\ disturbed' \in {disturbed \ {f}, disturbed \cup {f}}
  BY DEF TakeAway, Disturbs
<1>2. latest \in [Films -> 0 .. stamp] /\ obj \in [FilmKeys -> Object \cup {None}]
  BY DEF IInv, BucketOK
<1>3. /\ latest'[f] = 0 /\ \A g \in Films \ {f} : latest'[g] = latest[g]
      /\ \A g \in Films \ {f}, c \in Containers : obj'[<<g, c>>] = obj[<<g, c>>]
      /\ obj'[<<f, "original">>] = None /\ obj'[<<f, "mp4">>] = None
  BY <1>1, <1>2, KeysOf DEF FilmKeys
<1>4. On(f)'.content = 0
  <2>1. On(f)' = Seen(None, None) /\ Content(None, None) = 0
    BY <1>3, OnIs DEF Content
  <2> QED  BY <2>1, SeenContent
<1>5. Promise!Take(f)
  BY <1>1, <1>3, <1>4, OthersStay DEF Promise!Take
<1> QED  BY <1>5 DEF Promise!ShelfNext

LEMMA StepRefines == IInv /\ [Next]_vars => [Promise!ShelfNext]_(Promise!shelfVars)
<1> SUFFICES ASSUME IInv, [Next]_vars  PROVE [Promise!ShelfNext]_(Promise!shelfVars)
  OBVIOUS
<1>1. CASE UNCHANGED <<obj, latest, disturbed>>
  BY <1>1, OnSame, Unseen
<1>2. Start \/ ReadLibrary \/ Choose \/ EndPass \/ AskForScan \/ Stat \/ Ocr \/ PutSidecar
      \/ Ffmpeg \/ Fails \/ Killed \/ Stop \/ Scan \/ UNCHANGED vars
      => UNCHANGED <<obj, latest, disturbed>>
  BY DEF Start, ReadLibrary, Choose, EndPass, AskForScan, Stat, Ocr, PutSidecar, Ffmpeg, Fails,
     Killed, Stop, Scan, vars, bucketVars
<1> QED  BY <1>1, <1>2, PutRefines, RemoveRefines, BringRefines, TakeAwayRefines
         DEF Next, WorkerStep, Outside

(* The converter implements Shelf: whatever fails, and wherever it is      *)
(* killed, no film that nobody touched is lost or turns into another.      *)
THEOREM TheShelfIsKept == Spec => KeepsThePromise
BY ConverterInductive, ShelfStarts, StepRefines, PTL DEF Spec, KeepsThePromise, Promise!ShelfSpec

-----------------------------------------------------------------------------
(* What the decision engine, a start in the middle and ffmpeg make of any  *)
(* file for any device that takes what the house makes.                    *)
Watchable(m) ==
    /\ m.width \in Nat /\ m.lines \in Nat /\ (m.medium # "audio" => m.lines # 0)
    /\ m.tracks \in Seq(TrackType) /\ m.tracks # <<>>
    /\ m.telecine => m.codec = "mpeg2video"

Target(track, audio, video, burn, detelecine, tonemap, lines, segments, rungs) ==
    [Copied EXCEPT !.track = track, !.audio = audio, !.video = video, !.burn = burn,
                   !.detelecine = detelecine, !.tonemap = tonemap, !.lines = lines,
                   !.segments = segments, !.rungs = rungs]

HasFields(t, track, audio, video, burn, detelecine, tonemap, lines, segments, rungs) ==
    /\ t.audioOnly = FALSE /\ t.track = track /\ t.audio = audio /\ t.video = video
    /\ t.burn = burn /\ t.detelecine = detelecine /\ t.tonemap = tonemap
    /\ t.lines = lines /\ t.segments = segments /\ t.rungs = rungs

LEMMA TargetFields ==
    ASSUME NEW track, NEW audio, NEW video, NEW burn, NEW detelecine, NEW tonemap, NEW lines,
           NEW segments, NEW rungs
    PROVE  HasFields(Target(track, audio, video, burn, detelecine, tonemap, lines, segments, rungs),
                     track, audio, video, burn, detelecine, tonemap, lines, segments, rungs)
BY DEF Copied, Target, HasFields

LEMMA Retarget ==
    ASSUME NEW track, NEW audio, NEW video, NEW burn, NEW detelecine, NEW tonemap, NEW lines,
           NEW segments, NEW rungs, NEW t, NEW v,
           t = Target(track, audio, video, burn, detelecine, tonemap, lines, segments, rungs)
    PROVE  [t EXCEPT !.video = v]
                = Target(track, audio, v, burn, detelecine, tonemap, lines, segments, rungs)
BY DEF Copied, Target

LEMMA SentFields ==
    ASSUME NEW m, NEW t
    PROVE  LET s == Sent(m, t)
           IN  /\ s.video = (IF t.video # None THEN t.video ELSE m.codec)
               /\ s.sizes = SentSizes(m, t) /\ s.track = t.track /\ s.sound = SentSound(m, t)
               /\ s.hdr = (IF t.video # None /\ t.tonemap THEN None ELSE m.hdr)
               /\ s.burned = (IF t.video # None THEN t.burn ELSE None)
               /\ s.judder = (m.telecine /\ t.video # None /\ ~t.detelecine)
               /\ s.segments = t.segments
BY Zenon DEF Sent

(* Sound: the chosen track as it is where it fits, or stereo AAC.          *)
LEMMA SoundPlays ==
    ASSUME NEW m, NEW device, TakesOurs(device), NEW ask, NEW t,
           t.track = Chosen(ask),
           t.audio = IF NeedsSound(m, Normalize(device), ask) THEN Policy.audio ELSE None
    PROVE  /\ SentSound(m, t).codec \in Normalize(device).hlsAudio
           /\ SentSound(m, t).channels <= Normalize(device).channels
<1> DEFINE c == Normalize(device)
<1>1. "aac" \in c.hlsAudio /\ 2 <= c.channels
  BY DEF TakesOurs
<1> HIDE DEF c
<1>2. CASE NeedsSound(m, c, ask)
  <2>1. t.audio = "aac" /\ t.audio # None
    BY <1>2, HouseAssumption DEF c
  <2>2. SentSound(m, t) = [codec |-> "aac", channels |-> 2]
    BY <2>1 DEF SentSound, Track
  <2> QED  BY <1>1, <2>2 DEF c
<1>3. CASE ~NeedsSound(m, c, ask)
  <2>1. t.audio = None
    BY <1>3 DEF c
  <2>2. SentSound(m, t) = m.tracks[Chosen(ask)]
    BY <2>1 DEF SentSound
  <2> QED  BY <1>3, <2>2 DEF c, NeedsSound, SoundFits
<1> QED  BY <1>2, <1>3

(* Sizes: scale=-2:n of a picture that is, or is shaped, no wider than     *)
(* E : n is no wider than E, when E is even.                               *)
LEMMA EvenWidth ==
    ASSUME NEW W \in Nat, NEW n \in Nat, NEW L \in Nat \ {0}, NEW E \in Nat, E % 2 = 0,
           W * n <= E * L
    PROVE  2 * ((W * n + L) \div (2 * L)) <= E
<1> DEFINE q == (W * n + L) \div (2 * L)
<1>1. PICK e \in Nat : E = 2 * e
  BY SMT
<1>2. W * n \in Nat
  BY SMT
<1> DEFINE a == W * n
<1>3. a <= 2 * (e * L)
  BY <1>1, SMT
<1> HIDE DEF a
<1>4. a \in Nat
  BY <1>2 DEF a
<1> DEFINE D == 2 * L
<1>5. D \in Nat \ {0} /\ D = 2 * L
  BY SMT
<1> HIDE DEF D
<1>6. (a + L) \div D \in Int /\ D * ((a + L) \div D) <= a + L
  BY <1>4, <1>5, SMT
<1> DEFINE r == (a + L) \div D
<1> HIDE DEF r
<1>7. r \in Int /\ D * r <= a + L
  BY <1>6 DEF r
<1>8. r <= e
  <2> SUFFICES ASSUME r >= e + 1 PROVE FALSE
    BY <1>1, <1>7
  <2>1. D * r >= D * (e + 1)
    BY <1>1, <1>5, <1>7, SMT
  <2>2. D * (e + 1) = 2 * (e * L) + 2 * L
    BY <1>1, <1>5, SMT
  <2>3. e * L \in Nat /\ D * (e + 1) \in Int /\ D * r \in Int
    BY <1>1, <1>5, <1>7, SMT
  <2> QED  BY <1>3, <1>4, <1>7, <2>1, <2>2, <2>3, SMT
<1> QED  BY <1>1, <1>7, <1>8 DEF r, a, D

(* A picture that is sent as it is, or scaled to no more lines than it has *)
(* or than the device has, keeps what NoWiderInShape says.                 *)
LEMMA ScaledFits ==
    ASSUME NEW m, m.width \in Nat, m.lines \in Nat \ {0},
           NEW c, c.width \in Nat, c.width % 2 = 0, c.lines \in Nat,
           NEW n \in Nat, n <= c.lines,
           \/ SizeFits(m, c) /\ n <= m.lines
           \/ NoWiderInShape(m, c)
    PROVE  Scaled(m, n).width <= c.width
<1> DEFINE W == m.width  L == m.lines  E == c.width  C == c.lines
<1>1. W \in Nat /\ L \in Nat \ {0} /\ E \in Nat /\ C \in Nat /\ E % 2 = 0 /\ n <= C
  OBVIOUS
<1>2. Scaled(m, n).width = 2 * ((W * n + L) \div (2 * L))
  BY Zenon DEF Scaled
<1>3. (W <= E /\ n <= L) \/ W * C <= E * L
  BY DEF SizeFits, NoWiderInShape
<1> HIDE DEF W, L, E, C
<1>4. CASE W <= E /\ n <= L
  <2>1. W * n <= W * L /\ W * L <= E * L /\ W * n \in Nat /\ W * L \in Nat /\ E * L \in Nat
    BY <1>1, <1>4, SMT
  <2>2. W * n <= E * L
    BY <2>1, SMT
  <2> QED  BY <1>1, <1>2, <2>2, EvenWidth DEF E
<1>5. CASE W * C <= E * L
  <2>1. W * n <= W * C /\ W * n \in Nat /\ W * C \in Nat /\ E * L \in Nat
    BY <1>1, SMT
  <2>2. W * n <= E * L
    BY <1>5, <2>1, SMT
  <2> QED  BY <1>1, <1>2, <2>2, EvenWidth DEF E
<1> QED  BY <1>3, <1>4, <1>5

(* So does every picture of a ladder whose first rung is no larger than    *)
(* the file where the file fits, and whose others are below the first.     *)
SizesFit(m, c, sizes) ==
    /\ \A size \in sizes : size.lines <= c.lines
    /\ SizeFits(m, c) \/ NoWiderInShape(m, c) => \A size \in sizes : size.width <= c.width

LEMMA LadderFits ==
    ASSUME NEW m, m.width \in Nat, m.lines \in Nat \ {0},
           NEW c, c.width \in Nat, c.width % 2 = 0, c.lines \in Nat,
           NEW t, t.lines \in Nat, t.lines <= c.lines, t.lines = 0 => SizeFits(m, c),
           SizeFits(m, c) => t.lines <= m.lines,
           \A n \in t.rungs : n \in Nat /\ n <= c.lines
                               /\ n <= (IF t.lines = 0 THEN m.lines ELSE t.lines)
    PROVE  SizesFit(m, c, SentSizes(m, t))
<1> DEFINE whole == [width |-> m.width, lines |-> m.lines]
           first == IF t.lines = 0 THEN whole ELSE Scaled(m, t.lines)
<1>1. \A n : Scaled(m, n).lines = n
  BY DEF Scaled
<1>2. first.lines <= c.lines
  BY <1>1 DEF SizeFits
<1>3. SizeFits(m, c) \/ NoWiderInShape(m, c) => first.width <= c.width
  <2>1. CASE t.lines = 0
    BY <2>1 DEF SizeFits
  <2>2. CASE t.lines # 0
    <3>1. SizeFits(m, c) \/ NoWiderInShape(m, c) => Scaled(m, t.lines).width <= c.width
      BY ScaledFits
    <3> QED  BY <2>2, <3>1
  <2> QED  BY <2>1, <2>2
<1>4. ASSUME NEW n \in t.rungs
      PROVE  /\ Scaled(m, n).lines <= c.lines
             /\ SizeFits(m, c) \/ NoWiderInShape(m, c) => Scaled(m, n).width <= c.width
  <2>1. n \in Nat /\ n <= c.lines /\ (SizeFits(m, c) => n <= m.lines)
    OBVIOUS
  <2>2. SizeFits(m, c) \/ NoWiderInShape(m, c) => Scaled(m, n).width <= c.width
    BY <2>1, ScaledFits
  <2> QED  BY <1>1, <2>1, <2>2
<1>5. \A size \in SentSizes(m, t) : size = first \/ \E n \in t.rungs : size = Scaled(m, n)
  BY Zenon DEF SentSizes
<1> HIDE DEF first
<1> QED  BY <1>2, <1>3, <1>4, <1>5 DEF SizesFit

(* The picture: what is sent of a video file whose target has these fields *)
(* plays, when the picture is copied only where it may be.                 *)
LEMMA PicturePlays ==
    ASSUME NEW m, Watchable(m), m.medium # "audio", NEW device, TakesOurs(device), NEW ask, NEW t,
           LET c == Normalize(device)
               anew == NeedsPicture(m, c, ask)
               output == IF anew THEN "h264" ELSE m.codec
           IN  /\ t.track = Chosen(ask) /\ t.video \in {None, "h264"} /\ t.burn = ask.burn
               /\ t.audio = IF NeedsSound(m, c, ask) THEN Policy.audio ELSE None
               /\ anew => t.video # None
               /\ output = "hevc" => t.video # None \/ t.segments = "fmp4"
               /\ t.segments \in c.segments
               /\ t.detelecine = (anew /\ m.telecine) /\ t.tonemap = (anew /\ ~HdrFits(m, c))
               /\ SizesFit(m, c, SentSizes(m, t))
               /\ m.codec \in c.hlsVideo \/ anew
    PROVE  Streams(Sent(m, t), m, Normalize(device), ask)
<1> DEFINE c == Normalize(device)  s == Sent(m, t)
           anew == NeedsPicture(m, c, ask)
<1>1. /\ s.sound.codec \in c.hlsAudio /\ s.sound.channels <= c.channels /\ s.track = Chosen(ask)
  BY SoundPlays, SentFields
<1>2. "h264" \in c.hlsVideo /\ "mpeg2video" \notin c.hlsVideo /\ None # "h264" /\ c.lines \in Nat
  BY HouseAssumption DEF TakesOurs
<1>3. anew => t.video # None
  OBVIOUS
<1>4. ~anew => /\ m.codec \in c.hlsVideo /\ SizeFits(m, c) /\ HdrFits(m, c) /\ ask.burn = None
               /\ ~m.telecine
  <2> SUFFICES ASSUME ~anew
               PROVE  /\ m.codec \in c.hlsVideo /\ SizeFits(m, c) /\ HdrFits(m, c)
                      /\ ask.burn = None /\ ~m.telecine
    OBVIOUS
  <2>1. PictureFits(m, c) /\ ~Burns(m, ask) /\ m.codec \in c.hlsVideo
    BY DEF NeedsPicture
  <2>2. ~m.telecine
    BY <1>2, <2>1 DEF Watchable
  <2> QED  BY <2>1, <2>2 DEF PictureFits, Burns
<1> HIDE DEF c, anew
<1>5. s.video \in c.hlsVideo
  <2>1. s.video = IF t.video # None THEN t.video ELSE m.codec
    BY SentFields
  <2> QED  BY <2>1, <1>2, <1>3, <1>4
<1>6. s.video = "hevc" => s.segments = "fmp4"
  <2>1. s.video = (IF t.video # None THEN t.video ELSE m.codec) /\ s.segments = t.segments
    BY SentFields
  <2>2. t.video = None /\ m.codec = "hevc" => t.segments = "fmp4"
    BY <1>3 DEF anew, c
  <2> QED  BY <2>1, <2>2
<1>7. s.segments \in c.segments
  BY SentFields DEF c
<1>8. SizesFit(m, c, s.sizes)
  <2>1. s.sizes = SentSizes(m, t)
    BY SentFields
  <2> QED  BY Zenon, <2>1 DEF c
<1>9. s.hdr # None => s.hdr \in c.hdr
  <2>1. s.hdr = IF t.video # None /\ t.tonemap THEN None ELSE m.hdr
    BY SentFields
  <2>2. t.tonemap \/ HdrFits(m, c)
    BY Zenon, <1>4 DEF anew, c
  <2>3. t.tonemap => t.video # None
    BY Zenon, <1>3 DEF anew, c
  <2> QED  BY <2>1, <2>2, <2>3 DEF HdrFits
<1>10. s.burned = ask.burn
  <2>1. s.burned = IF t.video # None THEN t.burn ELSE None
    BY SentFields
  <2>2. t.video # None \/ ask.burn = None
    BY <1>3, <1>4
  <2>3. t.burn = ask.burn
    OBVIOUS
  <2> QED  BY Zenon, <2>1, <2>2, <2>3
<1>11. ~s.judder
  <2>1. s.judder = (m.telecine /\ t.video # None /\ ~t.detelecine)
    BY SentFields
  <2>2. m.telecine => t.detelecine
    BY Zenon, <1>4 DEF anew, c
  <2> QED  BY Zenon, <2>1, <2>2
<1> HIDE DEF s
<1>12. Streams(s, m, c, ask)
  BY Zenon, <1>1, <1>5, <1>6, <1>7, <1>8, <1>9, <1>10, <1>11 DEF Streams, SizesFit, c
<1> QED  BY <1>12 DEF s, c

LEMMA VideoPlays ==
    ASSUME NEW m, Watchable(m), m.medium # "audio", NEW device, TakesOurs(device), NEW ask
    PROVE  LET c == Normalize(device)
           IN  Streams(Sent(m, Started(ask, DecideVideo(m, c, ask))), m, c, ask)
<1> DEFINE c == Normalize(device)
           anew == NeedsPicture(m, c, ask)
           output == IF anew THEN Policy.video ELSE m.codec
           fmp4 == output = "hevc" /\ "fmp4" \in c.segments
           forced == output = "hevc" /\ ~fmp4
           lines == IF anew /\ (~SizeFits(m, c) \/ m.lines > Policy.lines)
                    THEN Lesser(c.lines, Policy.lines) ELSE 0
           video == IF anew \/ forced THEN Policy.video ELSE None
           audio == IF NeedsSound(m, c, ask) THEN Policy.audio ELSE None
           segments == IF fmp4 THEN "fmp4" ELSE "ts"
           rungs == IF video = None THEN {} ELSE Rungs(c, IF lines = 0 THEN m.lines ELSE lines)
           film == anew /\ m.telecine
           tonemap == anew /\ ~HdrFits(m, c)
           t == DecideVideo(m, c, ask)
           T(v) == Target(Chosen(ask), audio, v, ask.burn, film, tonemap, lines, segments, rungs)
<1>1. t = T(video)
  BY Zenon DEF DecideVideo, Target
<1>2. /\ Policy.video = "h264" /\ Policy.audio = "aac" /\ None \notin {"h264", "aac"}
      /\ Policy.lines \in Nat \ {0}
  BY HouseAssumption
<1>3. /\ c.lines \in Nat \ {0} /\ c.width \in Nat /\ c.width % 2 = 0 /\ "ts" \in c.segments
      /\ m.lines \in Nat \ {0} /\ m.width \in Nat
  BY DEF TakesOurs, Watchable
<1>4. SizeFits(m, c) => m.lines <= c.lines
  BY DEF SizeFits
<1>5. ~anew => SizeFits(m, c) /\ m.codec \in c.hlsVideo
  BY DEF NeedsPicture, PictureFits
<1> HIDE DEF c, anew
<1>6. /\ anew => video # None
      /\ video \in {None, "h264"}
      /\ (IF anew THEN "h264" ELSE m.codec) = "hevc" => video # None \/ segments = "fmp4"
      /\ segments \in c.segments
  BY <1>2, <1>3
<1>7. /\ lines \in Nat /\ lines <= c.lines /\ (lines = 0 => SizeFits(m, c))
      /\ SizeFits(m, c) => lines <= m.lines
  <2>1. /\ Lesser(c.lines, Policy.lines) \in Nat \ {0} /\ Lesser(c.lines, Policy.lines) <= c.lines
        /\ Lesser(c.lines, Policy.lines) <= Policy.lines
    BY <1>2, <1>3 DEF Lesser
  <2>2. CASE anew /\ (~SizeFits(m, c) \/ m.lines > Policy.lines)
    <3>1. lines = Lesser(c.lines, Policy.lines)
      BY Zenon, <2>2
    <3> QED  BY <2>1, <2>2, <3>1, <1>2, <1>3
  <2>3. CASE ~(anew /\ (~SizeFits(m, c) \/ m.lines > Policy.lines))
    <3>1. lines = 0
      BY Zenon, <2>3
    <3>2. SizeFits(m, c)
      BY Zenon, <2>3, <1>5
    <3> QED  BY <3>1, <3>2, <1>3
  <2> QED  BY Zenon, <2>2, <2>3
<1>8. \A n \in rungs : /\ n \in Nat /\ n <= c.lines
                        /\ n <= (IF lines = 0 THEN m.lines ELSE lines)
  <2> DEFINE first == IF lines = 0 THEN m.lines ELSE lines
  <2>1. first \in Nat
    BY <1>3, <1>7
  <2> HIDE DEF first
  <2>2. rungs = {} \/ rungs = Rungs(c, first)
    BY DEF first
  <2>3. \A n \in rungs : n \in Nat /\ n <= c.lines /\ n <= first
    BY <2>1, <2>2, <1>3 DEF Rungs
  <2> QED  BY Zenon, <2>3 DEF first
<1> HIDE DEF output, fmp4, forced, lines, video, audio, segments, rungs, film, tonemap, t
<1>9. ASSUME NEW v \in {None, "h264"}, v = video \/ v = "h264"
      PROVE  Streams(Sent(m, T(v)), m, c, ask)
  <2> DEFINE s == T(v)
  <2>1. /\ s.track = Chosen(ask) /\ s.audio = audio /\ s.video = v /\ s.burn = ask.burn
        /\ s.detelecine = film /\ s.tonemap = tonemap /\ s.lines = lines
        /\ s.segments = segments /\ s.rungs = rungs
    <3>1. HasFields(s, Chosen(ask), audio, v, ask.burn, film, tonemap, lines, segments, rungs)
      BY Zenon, TargetFields
    <3> HIDE DEF s
    <3> QED  BY Zenon, <3>1 DEF HasFields
  <2> HIDE DEF s
  <2>2. /\ s.track = Chosen(ask) /\ s.video \in {None, "h264"} /\ s.burn = ask.burn
        /\ s.audio = (IF NeedsSound(m, c, ask) THEN Policy.audio ELSE None)
        /\ anew => s.video # None
        /\ (IF anew THEN "h264" ELSE m.codec) = "hevc" => s.video # None \/ s.segments = "fmp4"
        /\ s.segments \in c.segments
    BY <1>2, <1>6, <1>9, <2>1 DEF audio
  <2>3. s.detelecine = (anew /\ m.telecine) /\ s.tonemap = (anew /\ ~HdrFits(m, c))
    BY Zenon, <2>1 DEF film, tonemap
  <2>4. m.codec \in c.hlsVideo \/ anew
    BY Zenon, <1>5
  <2>5. SizesFit(m, c, SentSizes(m, s))
    <3>1. \A n \in s.rungs : /\ n \in Nat /\ n <= c.lines
                              /\ n <= (IF s.lines = 0 THEN m.lines ELSE s.lines)
      BY Zenon, <1>8, <2>1
    <3>2. /\ s.lines \in Nat /\ s.lines <= c.lines /\ (s.lines = 0 => SizeFits(m, c))
          /\ SizeFits(m, c) => s.lines <= m.lines
      BY Zenon, <1>7, <2>1
    <3> QED  BY <1>3, <3>1, <3>2, LadderFits
  <2> QED  BY Zenon, <2>2, <2>3, <2>4, <2>5, PicturePlays DEF c, anew, s
<1>10. Started(ask, t) = T(video) \/ Started(ask, t) = T("h264")
  <2>1. [t EXCEPT !.video = Policy.video] = T("h264")
    BY SMTT(30), <1>1, <1>2, Retarget
  <2>2. Started(ask, t) = t \/ Started(ask, t) = [t EXCEPT !.video = Policy.video]
    BY Zenon DEF Started
  <2> QED  BY Zenon, <1>1, <2>1, <2>2
<1>11. Streams(Sent(m, T(video)), m, c, ask) /\ Streams(Sent(m, T("h264")), m, c, ask)
  BY <1>6, <1>9
<1>12. Streams(Sent(m, Started(ask, t)), m, c, ask)
  BY Zenon, <1>10, <1>11
<1> QED  BY Zenon, <1>12 DEF t, c

LEMMA SoundOnlyPlays ==
    ASSUME NEW m, m.medium = "audio", NEW device, TakesOurs(device), NEW ask
    PROVE  LET c == Normalize(device)
           IN  Streams(Sent(m, Started(ask, DecideAudio(m, c, ask))), m, c, ask)
<1> DEFINE c == Normalize(device)
           audio == IF NeedsSound(m, c, ask) THEN Policy.audio ELSE None
           t == DecideAudio(m, c, ask)
<1>1. t.audioOnly = TRUE /\ t.track = Chosen(ask) /\ t.audio = audio
  <2>1. t = [Copied EXCEPT !.audioOnly = TRUE, !.track = Chosen(ask), !.audio = audio]
    BY Zenon DEF DecideAudio
  <2> HIDE DEF t, audio
  <2> QED  BY Zenon, <2>1 DEF Copied
<1> HIDE DEF t
<1>2. Started(ask, t) = t
  BY Zenon, <1>1 DEF Started
<1>3. /\ Sent(m, t).sound.codec \in c.hlsAudio /\ Sent(m, t).sound.channels <= c.channels
      /\ Sent(m, t).track = Chosen(ask)
  BY <1>1, SoundPlays, SentFields
<1> HIDE DEF c
<1>4. Streams(Sent(m, t), m, c, ask)
  <2>1. m.medium # Video
    BY DEF Video
  <2> QED  BY Zenon, <1>3, <2>1 DEF Streams
<1> QED  BY Zenon, <1>2, <1>4 DEF t, c

LEMMA EveryPlay ==
    ASSUME NEW m, Watchable(m), NEW device, TakesOurs(device), NEW ask
    PROVE  Plays(m, device, ask)
<1> DEFINE c == Normalize(device)
           d == Decide(m, device, ask)
           target == IF m.medium = "audio" THEN DecideAudio(m, c, ask) ELSE DecideVideo(m, c, ask)
<1> SUFFICES ASSUME d.method = "transcode"
             PROVE  Streams(Sent(m, Started(ask, d.target)), m, c, ask)
  BY Zenon DEF Plays
<1>1. \/ d = [method |-> "direct_play", target |-> None]
      \/ d = [method |-> "deny", target |-> None]
      \/ d = [method |-> "transcode", target |-> target]
  BY Zenon DEF Decide
<1> HIDE DEF d, target
<1>2. d.target = target
  BY <1>1
<1>3. Streams(Sent(m, Started(ask, target)), m, c, ask)
  BY VideoPlays, SoundOnlyPlays DEF target
<1> QED  BY Zenon, <1>2, <1>3

(* A file is watchable, and what the worker makes of it; a device that     *)
(* takes the file as it is takes that.                                     *)
LEMMA FileIsWatchable == \A m \in File : Watchable(m)
<1> TAKE m \in File
<1>1. /\ m.width \in Nat /\ m.lines \in Nat /\ (m.medium # "audio" => m.lines # 0)
      /\ m.telecine => m.codec = "mpeg2video"
  BY DEF File, MediaInfo
<1> QED  BY <1>1, FileTracks DEF Watchable

LEMMA ConvertedFields ==
    ASSUME NEW m \in File
    PROVE  LET made == Converted(m)
           IN  /\ made.medium = m.medium /\ made.lines = m.lines /\ made.hdr = m.hdr
               /\ made.width = m.width /\ made.rate = m.rate /\ made.container = "mp4" /\ made.codec = "h264"
               /\ made.tracks = AudioPlan(m.tracks) /\ ~made.telecine
<1> DEFINE plan == ConvertPlan(m)  made == Converted(m)
           film == m.telecine /\ ~plan.detelecine
           subs == plan.subtitles \cup (IF plan.bitmap = {} THEN {} ELSE {"sidecar"})
                   \cup (m.subs \cap {"sidecar"})
<1>1. plan.audio = AudioPlan(m.tracks)
  BY DEF ConvertPlan
<1>2. plan.detelecine = (m.codec # "h264" /\ m.telecine)
  BY Zenon DEF ConvertPlan
<1>3. m.telecine => m.codec # "h264"
  BY DEF File
<1>4. ~film
  BY Zenon, <1>2, <1>3
<1>5. made = [m EXCEPT !.container = "mp4", !.codec = "h264", !.tracks = plan.audio,
                       !.telecine = film, !.subs = subs]
  BY Zenon DEF Converted
<1>6. m \in MediaInfo
  BY DEF File
<1> DEFINE Bool == BOOLEAN
<1>7. m \in [medium : {Video, "audio"}, container : STRING, codec : STRING \cup {None},
              width : Nat, lines : Nat, hdr : STRING \cup {None}, telecine : Bool, rate : Nat,
              tracks : Seq([codec : STRING, channels : Nat]) \ {<<>>}, subs : SUBSET STRING]
  BY Zenon, <1>6 DEF MediaInfo
<1> HIDE DEF plan, film, subs, made, Bool
<1>8. /\ made.medium = m.medium /\ made.lines = m.lines /\ made.hdr = m.hdr
      /\ made.width = m.width /\ made.rate = m.rate /\ made.container = "mp4" /\ made.codec = "h264"
      /\ made.tracks = plan.audio /\ made.telecine = film
  BY <1>5, <1>7
<1>9. ~made.telecine
  BY Zenon, <1>4, <1>8
<1> QED  BY Zenon, <1>1, <1>8, <1>9 DEF made

LEMMA ConvertedIsWatchable == \A m \in File : Watchable(Converted(m))
<1> TAKE m \in File
<1>1. m.width \in Nat /\ m.lines \in Nat /\ (m.medium # "audio" => m.lines # 0)
  BY DEF File, MediaInfo
<1>2. AudioPlan(m.tracks) \in Seq(TrackType) /\ AudioPlan(m.tracks) # <<>>
  BY FileTracks, AudioPlanIs
<1> DEFINE made == Converted(m)
<1>3. /\ made.medium = m.medium /\ made.width = m.width /\ made.lines = m.lines
      /\ made.tracks = AudioPlan(m.tracks) /\ ~made.telecine
  BY Zenon, ConvertedFields
<1> HIDE DEF made
<1>4. Watchable(made)
  BY <1>1, <1>2, <1>3 DEF Watchable
<1> QED  BY <1>4 DEF made

LEMMA ConvertedPlaysDirect ==
    ASSUME NEW m \in File, ConvertPlan(m).action # "skip", NEW device, TakesOurs(device),
           Direct(m, Normalize(device), Unasked)
    PROVE  Direct(Converted(m), Normalize(device), Unasked)
<1> DEFINE c == Normalize(device)  made == Converted(m)
<1>1. m.medium = Video /\ m.medium # "audio" /\ m.hdr = None
  BY DEF ConvertPlan, Convertible, Video
<1>2. Unasked.track = None /\ Unasked.burn = None /\ Chosen(Unasked) = 1
  BY Zenon DEF Unasked, Chosen
<1>3. /\ "mp4" \in c.containers /\ "h264" \in c.videoCodecs /\ "aac" \in c.audioCodecs
      /\ 2 <= c.channels
  BY DEF TakesOurs
<1>4. /\ SoundFits(m, c, Unasked) /\ SizeFits(m, c) /\ RateFits(m, c)
  BY <1>1 DEF Direct, PictureFits
<1>5. /\ made.medium = m.medium /\ made.lines = m.lines /\ made.hdr = m.hdr
      /\ made.width = m.width /\ made.rate = m.rate /\ made.container = "mp4" /\ made.codec = "h264"
      /\ made.tracks = AudioPlan(m.tracks)
  BY Zenon, ConvertedFields
<1> HIDE DEF c, made
<1>6. made.tracks[1] = m.tracks[1] \/ made.tracks[1] = [codec |-> "aac", channels |-> 2]
  <2>1. made.tracks[1] = FirstTracks(Head(m.tracks))[1] /\ Head(m.tracks) = m.tracks[1]
    BY <1>5, FileTracks, AudioPlanIs
  <2> QED  BY <2>1 DEF FirstTracks, Track
<1>7. SoundFits(made, c, Unasked)
  BY <1>2, <1>3, <1>4, <1>6 DEF SoundFits
<1>8. PictureFits(made, c)
  BY <1>1, <1>3, <1>4, <1>5 DEF PictureFits, SizeFits, RateFits, HdrFits
<1> QED  BY <1>1, <1>2, <1>3, <1>5, <1>7, <1>8 DEF Direct, c, made

(* Every file plays on every device of the house, and is converted once,   *)
(* for good.                                                               *)
LEMMA EveryFilePlays == StreamsPlay /\ ConvertedOnce
<1>1. StreamsPlay
  BY ConverterAssumption, HouseAssumption, FileIsWatchable, EveryPlay DEF StreamsPlay
<1>2. ASSUME NEW m \in Media, ConvertPlan(m).action # "skip"
      PROVE  /\ ConvertPlan(Converted(m)).action = "skip" /\ ~Converted(m).telecine
             /\ \A device \in Devices :
                   Direct(m, Normalize(device), Unasked) => Direct(Converted(m), Normalize(device), Unasked)
             /\ \A ask \in Asks(Converted(m)), device \in Devices : Plays(Converted(m), device, ask)
  <2>1. m \in File /\ \A device \in Devices : TakesOurs(device)
    BY ConverterAssumption, HouseAssumption
  <2>2. ConvertPlan(Converted(m)).action = "skip"
    BY <2>1, ConvertedForGood
  <2>3. ~Converted(m).telecine
    BY Zenon, <2>1, ConvertedFields
  <2>4. \A device \in Devices :
           Direct(m, Normalize(device), Unasked) => Direct(Converted(m), Normalize(device), Unasked)
    BY <1>2, <2>1, ConvertedPlaysDirect
  <2>5. \A ask \in Asks(Converted(m)), device \in Devices : Plays(Converted(m), device, ask)
    BY <2>1, ConvertedIsWatchable, EveryPlay
  <2> QED  BY <2>2, <2>3, <2>4, <2>5
<1>3. ConvertedOnce
  BY Zenon, <1>2 DEF ConvertedOnce
<1> QED  BY <1>1, <1>3

(* Whatever the decision engine, a start in the middle and ConvertPlan     *)
(* make of a file, every device of the house plays it, and nothing the     *)
(* worker made comes back to it as work.                                   *)
THEOREM TheHousePlaysEverything == Spec => []TheHouseCanPlayIt
<1>1. IInv => TheHouseCanPlayIt
  BY EveryFilePlays, PlainIsDone DEF IInv, CopiesOK, Made, Here, TheHouseCanPlayIt
<1> QED  BY <1>1, ConverterInductive, PTL
=============================================================================
