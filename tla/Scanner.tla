------------------------------ MODULE Scanner ------------------------------
(***************************************************************************)
(* internal/scanner and internal/tmdb over the library: what keeps the     *)
(* library an image of the bucket, and its films what TMDB knows of them.  *)
(*                                                                         *)
(* Rounds are calls of runScan: the ticker's, the button's, the one at     *)
(* start-up. One of them scans at a time; the enrichment that follows is   *)
(* guarded by nothing, so two rounds may enrich beside each other and      *)
(* beside a third one's scan. Between any two of their steps people upload *)
(* and remove files, correct identities, ask for a reprobe or a lookup, or *)
(* the process dies.                                                       *)
(***************************************************************************)
EXTENDS Library

CONSTANTS
    Rounds,         \* calls of runScan
    Identify,       \* build -> key -> the title its path says
    Lookup,         \* title -> the TMDB id a search finds, or None
    BatchSize,      \* how many probed rows are written at once (25 in the code)
    MaxBuild,       \* the newest build: IdentityVersion grows with it
    ProbeVersion,   \* build -> what its probes look for
    EnrichmentVersion,  \* build -> what its lookups ask for
    MaxEvents       \* how much may happen from outside

ASSUME ScannerAssumption ==
    /\ Identify \in [1 .. MaxBuild -> [Keys -> Titles]]
    /\ Lookup \in [Titles -> Optional(Nat)]
    /\ {ProbeVersion, EnrichmentVersion} \subseteq [1 .. MaxBuild -> Nat]
    /\ BatchSize \in Nat \ {0} /\ MaxBuild \in Nat \ {0} /\ MaxEvents \in Nat

VARIABLES
    obj,        \* key -> the content now in the bucket; 0 when there is none
    uploads,    \* how many files were ever uploaded: each has a content of its own
    subs,       \* key -> the sidecars beside it
    build,      \* the build that is running
    scan,       \* the scan that is under way
    pass,       \* round -> where its enrichment is
    ask,        \* a reprobe or a lookup somebody asked for
    events,     \* what outside has done so far
    absent      \* keys that were missing at some moment of this scan

bucketVars == <<obj, uploads, subs>>
roundVars == <<scan, pass>>
scannerVars == <<bucketVars, build, roundVars, ask, events, absent>>
vars == <<libraryVars, stateVars, scannerVars>>

-----------------------------------------------------------------------------
(* What a round holds between its steps: `known` is the library and `seen` *)
(* the bucket as they were read, `batch` the rows probed and not written.  *)
Idle ==
    [at |-> "idle", by |-> None, listed |-> {}, known |-> <<>>, seen |-> <<>>,
     todo |-> {}, batch |-> <<>>, gone |-> {}]

NoPass == [at |-> "idle", list |-> {}]
NoAsk == [at |-> "idle", key |-> None, id |-> None, title |-> None, etag |-> 0,
          sig |-> 0, media |-> None]

Found(k) == [etag |-> obj[k], sig |-> subs[k]]
KnownState == [k \in Held |-> items[k]]

(* Nothing there to read is a failed probe, not a failed scan.             *)
ProbeOf(k, sig) == IF obj[k] = 0 THEN None ELSE [of |-> obj[k], subs |-> sig]
RowOf(k, etag, sig, media) ==
    [etag |-> etag, media |-> media, sig |-> sig, probed |-> ProbeVersion[build],
     title |-> Identify[build][k], version |-> build]

(* The server starts with an empty library beside whatever bucket there is.*)
Init ==
    /\ LibraryInit
    /\ \E there \in SUBSET Keys : obj = [k \in Keys |-> IF k \in there THEN 1 ELSE 0]
    /\ uploads = 1 /\ subs = [k \in Keys |-> 0]
    /\ build = 1 /\ scan = Idle /\ ask = NoAsk
    /\ pass = [r \in Rounds |-> NoPass]
    /\ events = 0 /\ absent = {}

-----------------------------------------------------------------------------
(* The scan. A second one is refused while it runs.                        *)
BeginScan(r) ==
    /\ scan.at = "idle" /\ pass[r].at = "idle"
    /\ scan' = [Idle EXCEPT !.at = "listing", !.by = r, !.known = KnownState]
    /\ absent' = {k \in Keys : obj[k] = 0}
    /\ UNCHANGED <<libraryVars, stateVars, bucketVars, build, pass, ask, events>>

(* The listing arrives key by key while the bucket changes.                *)
List(k) ==
    /\ scan.at = "listing" /\ k \notin scan.listed
    /\ \A j \in Keys : j < k => j \in scan.listed
    /\ scan' = [scan EXCEPT
                    !.listed = @ \cup {k},
                    !.seen = IF obj[k] = 0 THEN @
                             ELSE [j \in DOMAIN @ \cup {k} |->
                                      IF j = k THEN Found(k) ELSE @[j]]]
    /\ UNCHANGED <<libraryVars, stateVars, bucketVars, build, pass, ask, events, absent>>

Present == DOMAIN scan.seen
Unchanged_ByName(k) ==      \* a mutation: the etag is not compared
    k \in Present /\ k \in DOMAIN scan.known
Unchanged(k) ==
    /\ k \in Present /\ k \in DOMAIN scan.known
    /\ scan.known[k].etag = scan.seen[k].etag
    /\ scan.known[k].probed = ProbeVersion[build]
ToRefresh ==
    {k \in Keys : Unchanged(k) /\ scan.known[k].version < build /\ ~scan.known[k].overridden}
ToReattach_Never == {}      \* a mutation: sidecars are looked at by a probe only
ToReattach == {k \in Keys : Unchanged(k) /\ scan.known[k].sig # scan.seen[k].sig}
SeenSig == [k \in Present |-> scan.seen[k].sig]

Diffed == scan.at = "listing" /\ scan.listed = Keys

RefreshIdentities ==
    /\ Diffed
    /\ scan' = [scan EXCEPT !.at = "sidecars", !.todo = {k \in Present : ~Unchanged(k)}]
    /\ IF ToRefresh = {} THEN UNCHANGED <<libraryVars, stateVars>>
       ELSE \E order \in Orders(ToRefresh) :
                UpdateIdentities(ToRefresh, Identify[build], build, order)
    /\ UNCHANGED <<bucketVars, build, pass, ask, events, absent>>

(* A row that vanished since is skipped.                                   *)
RefreshSidecars ==
    LET batch == ToReattach \cap Held
    IN  /\ scan.at = "sidecars"
        /\ scan' = [scan EXCEPT !.at = "probing", !.known = <<>>, !.listed = {}]
        /\ IF batch = {} THEN UNCHANGED <<libraryVars, stateVars>>
           ELSE \E order \in Orders(batch) : UpdateSidecars(batch, SeenSig, order)
        /\ UNCHANGED <<bucketVars, build, pass, ask, events, absent>>

(* A worker's probe: the etag and the sidecars are the listing's, the      *)
(* content is what is there by now.                                        *)
Probe(k) ==
    /\ scan.at = "probing" /\ k \in scan.todo
    /\ Cardinality(DOMAIN scan.batch) < BatchSize
    /\ scan' = [scan EXCEPT
                    !.todo = @ \ {k},
                    !.batch = [j \in DOMAIN @ \cup {k} |->
                                  IF j = k THEN RowOf(k, scan.seen[k].etag, scan.seen[k].sig,
                                                      ProbeOf(k, scan.seen[k].sig))
                                  ELSE @[j]]]
    /\ UNCHANGED <<libraryVars, stateVars, bucketVars, build, pass, ask, events, absent>>

Flush ==
    LET batch == DOMAIN scan.batch
    IN  /\ scan.at = "probing" /\ batch # {}
        /\ Cardinality(batch) = BatchSize \/ scan.todo = {}
        /\ \E order \in Orders(batch) : UpsertBatch(batch, scan.batch, order)
        /\ scan' = [scan EXCEPT !.batch = <<>>]
        /\ UNCHANGED <<bucketVars, build, pass, ask, events, absent>>

(* DeleteMissing reads the rows, then deletes by id.                       *)
ReadMissing ==
    /\ scan.at = "probing" /\ scan.todo = {} /\ scan.batch = <<>>
    /\ scan' = [scan EXCEPT !.at = "removing",
                            !.gone = {items[k].id : k \in Held \ Present}]
    /\ UNCHANGED <<libraryVars, stateVars, bucketVars, build, pass, ask, events, absent>>

DeleteMissing ==
    /\ scan.at = "removing"
    /\ DeleteRows(scan.gone)
    /\ scan' = Idle
    /\ pass' = [pass EXCEPT ![scan.by].at = "scanned"]
    /\ absent' = {}
    /\ UNCHANGED <<bucketVars, build, ask, events>>

-----------------------------------------------------------------------------
(* EnrichAll: the rows that need it are read once, then looked up one by   *)
(* one. A title TMDB does not know leaves its row as it was.               *)
Outdated(k) == items[k].tmdb.v < EnrichmentVersion[build]
Needing_Unmarked(k) ==      \* a mutation: what was looked up is not compared
    k \in Held /\ (items[k].tmdb = None \/ Outdated(k))
Needing(k) ==
    /\ k \in Held
    /\ items[k].tmdb = None \/ items[k].tmdbFor # items[k].title \/ Outdated(k)

Remaining_Lingers(list) ==      \* a mutation: a round with nothing to look up goes on
    [at |-> "enriching", list |-> list]
Remaining(list) == IF list = {} THEN NoPass ELSE [at |-> "enriching", list |-> list]

Result(title) == [film |-> Lookup[title], v |-> EnrichmentVersion[build]]
BeginEnrich(r) ==
    /\ pass[r].at = "scanned"
    /\ pass' = [pass EXCEPT ![r] =
                   Remaining({[key |-> k, id |-> items[k].id, title |-> items[k].title] :
                                 k \in {j \in Keys : Needing(j)}})]
    /\ UNCHANGED <<libraryVars, stateVars, bucketVars, build, scan, ask, events, absent>>

Enrich(r) ==
    /\ pass[r].at = "enriching"
    /\ LET it == CHOOSE i \in pass[r].list : \A j \in pass[r].list : i.key <= j.key
       IN  /\ pass' = [pass EXCEPT ![r] = Remaining(@.list \ {it})]
           /\ IF Lookup[it.title] = None THEN UNCHANGED <<libraryVars, stateVars>>
              ELSE SetEnrichment(it.id, Result(it.title), it.title)
    /\ UNCHANGED <<bucketVars, build, scan, ask, events, absent>>

-----------------------------------------------------------------------------
(* What outside does, MaxEvents times at most.                             *)
Happens == events < MaxEvents /\ events' = events + 1

Upload(k) ==
    /\ Happens
    /\ uploads' = uploads + 1
    /\ obj' = [obj EXCEPT ![k] = uploads + 1]
    /\ UNCHANGED <<libraryVars, stateVars, subs, build, roundVars, ask, absent>>

Remove(k) ==
    /\ Happens /\ obj[k] # 0
    /\ obj' = [obj EXCEPT ![k] = 0]
    /\ absent' = IF scan.at = "idle" THEN {} ELSE absent \cup {k}
    /\ UNCHANGED <<libraryVars, stateVars, uploads, subs, build, roundVars, ask>>

ChangeSidecars(k) ==
    /\ Happens
    /\ subs' = [subs EXCEPT ![k] = 1 - @]
    /\ UNCHANGED <<libraryVars, stateVars, obj, uploads, build, roundVars, ask, absent>>

Correct(id, title) ==
    /\ Happens
    /\ OverrideIdentity(id, title)
    /\ UNCHANGED <<bucketVars, build, roundVars, ask, absent>>

(* Any error of a scan ends it: what is in memory is lost.                 *)
ScanFails_GoesOn ==     \* a mutation: a listing that breaks off is taken for the bucket
    /\ Happens /\ scan.at # "idle"
    /\ scan' = IF scan.at = "listing" THEN [scan EXCEPT !.listed = Keys] ELSE Idle
    /\ UNCHANGED <<libraryVars, stateVars, bucketVars, build, pass, ask, absent>>

ScanFails ==
    /\ Happens /\ scan.at # "idle"
    /\ scan' = Idle
    /\ UNCHANGED <<libraryVars, stateVars, bucketVars, build, pass, ask, absent>>

(* One item's lookup or image fails: it is skipped until the next round.   *)
EnrichFails(r) ==
    /\ Happens /\ pass[r].at = "enriching"
    /\ \E it \in pass[r].list : pass' = [pass EXCEPT ![r] = Remaining(@.list \ {it})]
    /\ UNCHANGED <<libraryVars, stateVars, bucketVars, build, scan, ask, absent>>

(* The process ends, killed or replaced by a newer build.                  *)
Restart ==
    /\ Happens
    /\ build' \in build .. MaxBuild
    /\ scan' = Idle /\ pass' = [r \in Rounds |-> NoPass] /\ ask' = NoAsk
    /\ UNCHANGED <<libraryVars, stateVars, bucketVars, absent>>

-----------------------------------------------------------------------------
(* handleReprobe and ReprobeKey: the row, the object's etag, the content,  *)
(* the write. A sidecar listing that fails is read as no sidecars.         *)
AskReprobe(k) ==
    /\ Happens /\ ask.at = "idle" /\ k \in Held
    /\ ask' = [NoAsk EXCEPT !.at = "stat", !.key = k]
    /\ UNCHANGED <<libraryVars, stateVars, bucketVars, build, roundVars, absent>>

Stat ==
    /\ ask.at = "stat"
    /\ ask' = IF obj[ask.key] = 0 THEN NoAsk
              ELSE [ask EXCEPT !.at = "probe", !.etag = obj[ask.key]]
    /\ UNCHANGED <<libraryVars, stateVars, bucketVars, build, roundVars, events, absent>>

Reprobe ==
    /\ ask.at = "probe"
    /\ \E sig \in {0, subs[ask.key]} :
          ask' = [ask EXCEPT !.at = "write", !.sig = sig, !.media = ProbeOf(ask.key, sig)]
    /\ UNCHANGED <<libraryVars, stateVars, bucketVars, build, roundVars, events, absent>>

Write(etag) ==
    /\ ask.at = "write"
    /\ LET row == [k \in {ask.key} |-> RowOf(k, etag, ask.sig, ask.media)]
       IN  \E order \in Orders({ask.key}) : UpsertBatch({ask.key}, row, order)
    /\ ask' = NoAsk
    /\ UNCHANGED <<bucketVars, build, roundVars, events, absent>>
WriteReprobed_Restats == Write(obj[ask.key])    \* a mutation: the etag is read last
WriteReprobed == Write(ask.etag)

(* handleEnrich: the row as it was, looked up, written under its id.       *)
AskEnrich(k) ==
    /\ Happens /\ ask.at = "idle" /\ k \in Held
    /\ ask' = [NoAsk EXCEPT !.at = "lookup", !.id = items[k].id, !.title = items[k].title]
    /\ UNCHANGED <<libraryVars, stateVars, bucketVars, build, roundVars, absent>>

EnrichItem ==
    /\ ask.at = "lookup"
    /\ IF Lookup[ask.title] = None THEN UNCHANGED <<libraryVars, stateVars>>
       ELSE SetEnrichment(ask.id, Result(ask.title), ask.title)
    /\ ask' = NoAsk
    /\ UNCHANGED <<bucketVars, build, roundVars, events, absent>>

-----------------------------------------------------------------------------
ScanStep ==
    \/ \E k \in Keys : List(k) \/ Probe(k)
    \/ RefreshIdentities \/ RefreshSidecars \/ Flush
    \/ ReadMissing \/ DeleteMissing
RoundStep(r) == BeginEnrich(r) \/ Enrich(r)
AskStep == Stat \/ Reprobe \/ WriteReprobed \/ EnrichItem
Users == \E id \in Ids, t \in Titles : Correct(id, t)
Outside ==
    \/ \E k \in Keys : Upload(k) \/ Remove(k) \/ ChangeSidecars(k)
    \/ \E k \in Keys : AskReprobe(k) \/ AskEnrich(k)
    \/ Users \/ ScanFails \/ Restart
    \/ \E r \in Rounds : EnrichFails(r)

Next ==
    \/ ScanStep \/ AskStep \/ Outside
    \/ \E r \in Rounds : BeginScan(r) \/ RoundStep(r)

Spec == Init /\ [][Next]_vars

(* The ticker asks for a scan for as long as the process lives, and every  *)
(* goroutine and handler that has begun goes on.                           *)
Fairness ==
    /\ WF_vars(ScanStep) /\ WF_vars(AskStep)
    /\ WF_vars(\E r \in Rounds : BeginScan(r))
    /\ \A r \in Rounds : WF_vars(RoundStep(r))
FairSpec == Spec /\ Fairness

-----------------------------------------------------------------------------
Waiting == [key : Keys, id : Ids, title : Titles]
TypeOK ==
    /\ LibraryTypeOK
    /\ obj \in [Keys -> 0 .. uploads] /\ subs \in [Keys -> {0, 1}]
    /\ build \in 1 .. MaxBuild /\ events \in 0 .. MaxEvents /\ absent \subseteq Keys
    /\ scan.at \in {"idle", "listing", "sidecars", "probing", "removing"}
    /\ scan.by \in Optional(Rounds) /\ scan.listed \subseteq Keys
    /\ \A k \in DOMAIN scan.known : k \in Keys /\ scan.known[k] \in Row
    /\ \A k \in DOMAIN scan.batch : k \in Keys /\ scan.batch[k] \in Scanned
    /\ scan.todo \subseteq Present /\ scan.gone \subseteq Ids
    /\ pass \in [Rounds -> [at : {"idle", "scanned", "enriching"}, list : SUBSET Waiting]]
    /\ \A r \in Rounds : pass[r].at = "enriching" <=> pass[r].list # {}
    /\ ask.at \in {"idle", "stat", "probe", "write", "lookup"}

(* An identity a person corrected is never undone by the program: not by   *)
(* a scan that read the row before the correction, not by a reprobe that   *)
(* began before it, not by a new build (store.go, UpsertBatch and          *)
(* UpdateIdentities).                                                      *)
OverrideSticks ==
    [][Users \/ \A k \in Held :
          items[k].overridden /\ items'[k] # None
          => items'[k].overridden /\ items'[k].title = items[k].title]_vars

(* A row goes only when its object was missing at some moment of the scan  *)
(* that removes it: not because a listing broke off, and not because the   *)
(* file arrived while the scan ran (scanner.go, Scan; DeleteMissing).      *)
NothingPresentIsLost ==
    [][\A k \in Held : items'[k] = None => k \in absent]_vars

(* No row says of a new etag what an older content said: such a row would  *)
(* be skipped by every later scan. A scan lists before it probes, and a    *)
(* reprobe asks for the etag first, so a file replaced in between only     *)
(* leaves a row that the next scan repairs (scanner.go, Scan, ReprobeKey). *)
MediaIsNotOlder ==
    \A k \in Held : items[k].media # None => items[k].media.of >= items[k].etag

(* Once nothing happens from outside, scans make the library an image of   *)
(* the bucket, whatever reprobes and older scans wrote in between, and     *)
(* every row is one that the build now running would have written.         *)
MirrorsBucket ==
    /\ Held = {k \in Keys : obj[k] # 0}
    /\ \A k \in Held :
          /\ items[k].etag = obj[k] /\ items[k].sig = subs[k]
          /\ items[k].probed = ProbeVersion[build]
          /\ items[k].media # None => items[k].media = [of |-> obj[k], subs |-> subs[k]]
          /\ items[k].overridden \/ items[k].title = Identify[build][k]
LibraryConverges == <>[]MirrorsBucket

(* And what TMDB knows of a file's identity is what its row says, although *)
(* lookups wrote under ids that had passed to other files, or of titles    *)
(* that were corrected in between, and as the build now running asks it    *)
(* (enrich.go; store.go, NeedingEnrichment).                               *)
Enriched(k) == Lookup[items[k].title] # None =>
    items[k].tmdb = Result(items[k].title) /\ items[k].tmdbFor = items[k].title
EnrichmentConverges == <>[](\A k \in Held : Enriched(k))

(* What the comment on SetEnrichment says: an enrichment is invalid once   *)
(* the identity it was made for has changed.                               *)
EnrichmentNamesTheIdentity ==
    <>[](\A k \in Held : items[k].tmdb # None => items[k].tmdbFor = items[k].title)
=============================================================================
